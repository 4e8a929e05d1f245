--------------------------- MODULE Observer_proofs ---------------------------
(***************************************************************************)
(* What the sink of the observer, and its client, know of the network: the *)
(* type invariant, with it that links stay mutual, that the sink catches up*)
(* once the nodes have synced, that the copy of the client follows the     *)
(* sink, and that nodes keep nothing back.                                 *)
(*                                                                         *)
(* The operations of NetworkState go through sets and lists by the folds of*)
(* the community modules; what they compute is shown by the least          *)
(* counterexample.                                                         *)
(***************************************************************************)
EXTENDS Observer, SequenceTheorems, FiniteSetTheorems, WellFoundedInduction, TLAPS

(* Induction over the elements of a finite set: a statement that is false   *)
(* of some subset would be false of a smaller one, and so of the empty set. *)
LEMMA Least ==
  ASSUME NEW T \in SUBSET Nat, T # {}
  PROVE  \E x \in T : \A y \in T : x <= y
<1>1. \E x \in T : \A y \in T : ~(<<y, x>> \in OpToRel(<, Nat))
  BY NatLessThanWellFounded, WFMin
<1>2. PICK x \in T : \A y \in T : ~(<<y, x>> \in OpToRel(<, Nat))
  BY <1>1
<1>3. ASSUME NEW y \in T PROVE x <= y
  <2>1. <<y, x>> \in Nat \X Nat
    OBVIOUS
  <2>2. ~(<<y, x>> \in OpToRel(<, Nat))
    BY <1>2
  <2>3. ~(y < x)
    BY <2>1, <2>2 DEF OpToRel
  <2> QED BY <2>3
<1> QED BY <1>3

LEMMA Upward ==
  ASSUME NEW n \in Nat, NEW T \in SUBSET (0..n), 0 \notin T, \A i \in T : i - 1 \in T
  PROVE  T = {}
<1> SUFFICES ASSUME T # {} PROVE FALSE
  OBVIOUS
<1>1. T \in SUBSET Nat
  OBVIOUS
<1>2. PICK least \in T : \A y \in T : least <= y
  BY <1>1, Least
<1>3. least - 1 \in T /\ least \in Nat
  BY <1>1
<1>4. least <= least - 1
  BY <1>2, <1>3
<1> QED BY <1>3, <1>4

LEMMA SetInduction ==
  ASSUME NEW S, IsFiniteSet(S), NEW T \in SUBSET SUBSET S, {} \notin T,
         \A s \in T : \E x \in s : s \ {x} \in T
  PROVE  T = {}
<1> SUFFICES ASSUME T # {} PROVE FALSE
  OBVIOUS
<1> DEFINE sizes == {Cardinality(s) : s \in T}
<1>1. \A s \in T : IsFiniteSet(s) /\ Cardinality(s) \in Nat
  BY FS_Subset, FS_CardinalityType
<1>2. sizes \in SUBSET Nat /\ sizes # {}
  BY <1>1
<1>3. PICK n \in sizes : \A k \in sizes : n <= k
  BY <1>2, Least
<1>4. PICK s \in T : Cardinality(s) = n
  OBVIOUS
<1>5. PICK x \in s : s \ {x} \in T
  OBVIOUS
<1>6. Cardinality(s \ {x}) = n - 1 /\ n \in Nat
  BY <1>1, <1>4, <1>5, FS_RemoveElement
<1>7. n <= n - 1
  BY <1>3, <1>5, <1>6
<1> QED BY <1>6, <1>7

(* The recursive function that a fold of the community modules applies      *)
(* exists where the operation stays within a set: C chooses the element     *)
(* that is taken next, G is the operation.                                  *)
Folds(f, S, base, C, G) ==
  \A s \in SUBSET S : f[s] = IF s = {} THEN base ELSE G[<<C[s], f[s \ {C[s]}]>>]

LEMMA FoldExists ==
  ASSUME NEW S, IsFiniteSet(S), NEW R, NEW base \in R, NEW G \in [S \X R -> R],
         NEW C, \A s \in SUBSET S : s # {} => C[s] \in s
  PROVE  \E f \in [SUBSET S -> R] : Folds(f, S, base, C, G)
<1> DEFINE D(n) == {s \in SUBSET S : Cardinality(s) <= n}
           FoldsTo(f, n) ==
             \A s \in D(n) : f[s] = IF s = {} THEN base ELSE G[<<C[s], f[s \ {C[s]}]>>]
           T == {n \in Nat : ~\E f \in [D(n) -> R] : FoldsTo(f, n)}
<1>1. \A s \in SUBSET S : IsFiniteSet(s) /\ Cardinality(s) \in Nat /\ (Cardinality(s) = 0 <=> s = {})
  BY FS_Subset, FS_CardinalityType, FS_EmptySet
<1>2. \A s \in SUBSET S : s # {} =>
        s \ {C[s]} \in SUBSET S /\ Cardinality(s \ {C[s]}) = Cardinality(s) - 1
  BY <1>1, FS_RemoveElement
<1>3. 0 \notin T
  <2> DEFINE f == [s \in D(0) |-> base]
  <2>1. f \in [D(0) -> R] /\ FoldsTo(f, 0)
    BY <1>1
  <2> QED BY <2>1
<1>4. ASSUME NEW n \in Nat, n \notin T
      PROVE  n + 1 \notin T
  <2>1. PICK f \in [D(n) -> R] : FoldsTo(f, n)
    BY <1>4
  <2> DEFINE g == [s \in D(n + 1) |-> IF s = {} THEN base ELSE G[<<C[s], f[s \ {C[s]}]>>]]
  <2>2. \A s \in D(n + 1) : s # {} => s \ {C[s]} \in D(n) /\ C[s] \in S
    <3>1. SUFFICES ASSUME NEW s \in D(n + 1), s # {}
                   PROVE  s \ {C[s]} \in D(n) /\ C[s] \in S
      OBVIOUS
    <3>2. Cardinality(s) <= n + 1 /\ Cardinality(s) \in Nat
      BY <1>1
    <3>3. Cardinality(s \ {C[s]}) <= n
      BY <1>2, <3>1, <3>2
    <3> QED BY <1>2, <3>1, <3>3
  <2>3. g \in [D(n + 1) -> R]
    <3>1. SUFFICES ASSUME NEW s \in D(n + 1)
                   PROVE  (IF s = {} THEN base ELSE G[<<C[s], f[s \ {C[s]}]>>]) \in R
      OBVIOUS
    <3>2. CASE s # {}
      <4>1. f[s \ {C[s]}] \in R /\ C[s] \in S
        BY <2>2, <3>2
      <4> QED BY <3>2, <4>1
    <3> QED BY <3>2
  <2>4. \A s \in D(n) : s \in D(n + 1) /\ g[s] = f[s]
    <3>1. \A s \in D(n) : s \in D(n + 1)
      BY <1>1
    <3> QED BY <2>1, <3>1
  <2>5. FoldsTo(g, n + 1)
    <3>1. \A s \in D(n + 1) : s # {} => g[s \ {C[s]}] = f[s \ {C[s]}]
      BY <2>2, <2>4
    <3> QED BY <3>1
  <2> HIDE DEF FoldsTo, g, D
  <2> QED BY <2>3, <2>5
<1>5. T = {}
  <2> SUFFICES ASSUME T # {} PROVE FALSE
    OBVIOUS
  <2>1. PICK n \in T : \A m \in T : n <= m
    <3> HIDE DEF FoldsTo, D
    <3> QED BY Least
  <2> HIDE DEF T
  <2>2. n \in Nat /\ n # 0
    BY <1>3, <2>1 DEF T
  <2>3. n - 1 \in Nat /\ (n - 1) + 1 = n
    BY <2>2
  <2>4. n - 1 \notin T
    BY <2>1, <2>3
  <2> QED BY <1>4, <2>1, <2>3, <2>4
<1>6. Cardinality(S) \in Nat /\ D(Cardinality(S)) = SUBSET S
  BY FS_CardinalityType, FS_Subset
<1>7. PICK f \in [D(Cardinality(S)) -> R] : FoldsTo(f, Cardinality(S))
  BY <1>5, <1>6
<1> QED BY <1>6, <1>7 DEF Folds

(* The same for a choice that is the one of the community modules.          *)
FoldsInto(g, S, R, base, G) ==
  \A s \in SUBSET S :
    /\ g[s] = IF s = {} THEN base
              ELSE G[<<CHOOSE x \in s : TRUE, g[s \ {CHOOSE x \in s : TRUE}]>>]
    /\ s # {} => g[s \ {CHOOSE x \in s : TRUE}] \in R /\ (CHOOSE x \in s : TRUE) \in S

LEMMA FoldInto ==
  ASSUME NEW S, IsFiniteSet(S), NEW R, NEW base \in R, NEW G \in [S \X R -> R]
  PROVE  \E g \in [SUBSET S -> R] : FoldsInto(g, S, R, base, G)
<1> DEFINE C == [s \in SUBSET S |-> CHOOSE x \in s : TRUE]
<1>1. \A s \in SUBSET S : s # {} => C[s] \in s
  OBVIOUS
<1>2. PICK g \in [SUBSET S -> R] : Folds(g, S, base, C, G)
  <2> HIDE DEF C
  <2> QED BY <1>1, FoldExists
<1>3. ASSUME NEW s \in SUBSET S
      PROVE  /\ g[s] = IF s = {} THEN base
                       ELSE G[<<CHOOSE x \in s : TRUE, g[s \ {CHOOSE x \in s : TRUE}]>>]
             /\ s # {} => g[s \ {CHOOSE x \in s : TRUE}] \in R /\ (CHOOSE x \in s : TRUE) \in S
  <2>1. C[s] = CHOOSE x \in s : TRUE
    OBVIOUS
  <2>2. /\ g[s] = IF s = {} THEN base ELSE G[<<C[s], g[s \ {C[s]}]>>]
        /\ s # {} => g[s \ {C[s]}] \in R /\ C[s] \in S
    <3> HIDE DEF C
    <3> QED BY <1>1, <1>2 DEF Folds
  <2> QED BY <2>1, <2>2, Zenon
<1>4. FoldsInto(g, S, R, base, G)
  BY <1>3, Zenon DEF FoldsInto
<1> QED BY <1>4

(* What f says of a set follows from what it says of a smaller one.         *)
Steps(f, S, base, R, G) ==
  /\ f[{}] = base
  /\ \A s \in SUBSET S : s # {} =>
       \E x \in s : f[s \ {x}] \in R => f[s] = G[<<x, f[s \ {x}]>>]

LEMMA FoldType ==
  ASSUME NEW S, IsFiniteSet(S), NEW R, NEW base \in R, NEW G \in [S \X R -> R], NEW f,
         Steps(f, S, base, R, G)
  PROVE  \A s \in SUBSET S : f[s] \in R
<1> DEFINE T == {s \in SUBSET S : f[s] \notin R}
<1>1. {} \notin T
  BY DEF Steps
<1>2. ASSUME NEW s \in T
      PROVE  \E x \in s : s \ {x} \in T
  <2>1. s \in SUBSET S /\ s # {} /\ f[s] \notin R
    BY <1>1
  <2>2. PICK x \in s : f[s \ {x}] \in R => f[s] = G[<<x, f[s \ {x}]>>]
    BY <2>1 DEF Steps
  <2>3. f[s \ {x}] \notin R
    <3> SUFFICES ASSUME f[s \ {x}] \in R PROVE FALSE
      OBVIOUS
    <3>1. <<x, f[s \ {x}]>> \in S \X R
      BY <2>1
    <3> QED BY <2>1, <2>2, <3>1
  <2> QED BY <2>1, <2>3
<1>3. T = {}
  BY <1>1, <1>2, SetInduction
<1> QED BY <1>3

ListsInto(f, S) ==
  /\ Listed(S) = f[S] /\ f[{}] = <<>>
  /\ \A s \in SUBSET S : s # {} => \E x \in s : f[s] = Append(f[s \ {x}], x)

LEMMA ListedFold ==
  ASSUME NEW S, IsFiniteSet(S), NEW R, R = Seq(S)
  PROVE  \E f \in [SUBSET S -> R] : ListsInto(f, S)
<1> DEFINE G == [p \in S \X R |-> Append(p[2], p[1])]
           E(f) == f = [s \in SUBSET S |-> IF s = {} THEN <<>>
                                           ELSE Append(f[s \ {CHOOSE x \in s : TRUE}],
                                                       CHOOSE x \in s : TRUE)]
<1>2. G \in [S \X R -> R] /\ <<>> \in R
  OBVIOUS
<1>3. \E g : E(g)
  <2>1. PICK g \in [SUBSET S -> R] : FoldsInto(g, S, R, <<>>, G)
    <3> HIDE DEF G
    <3> QED BY <1>2, FoldInto
  <2>2. \A s \in SUBSET S :
          g[s] = IF s = {} THEN <<>>
                 ELSE Append(g[s \ {CHOOSE x \in s : TRUE}], CHOOSE x \in s : TRUE)
    BY <2>1 DEF FoldsInto
  <2> QED BY <2>2
<1>4. PICK f : E(f) /\ Listed(S) = f[S]
  <2>1. E(CHOOSE f : E(f))
    <3> HIDE DEF E
    <3> QED BY <1>3
  <2> QED BY <2>1, Zenon DEF Listed, FoldSet, MapThenFoldSet
<1>5. ASSUME NEW s \in SUBSET S, s # {}
      PROVE  \E x \in s : f[s] = Append(f[s \ {x}], x)
  <2>1. PICK x \in s : x = CHOOSE y \in s : TRUE
    BY <1>5
  <2> QED BY <1>4, <1>5, <2>1
<1>6. f[{}] = <<>>
  BY <1>4
<1>7. Steps(f, S, <<>>, R, G)
  <2>1. ASSUME NEW s \in SUBSET S, s # {}
        PROVE  \E x \in s : f[s \ {x}] \in R => f[s] = G[<<x, f[s \ {x}]>>]
    <3>1. PICK x \in s : f[s] = Append(f[s \ {x}], x)
      BY <1>5, <2>1
    <3>2. f[s \ {x}] \in R => <<x, f[s \ {x}]>> \in S \X R
      OBVIOUS
    <3> QED BY <3>1, <3>2
  <2> HIDE DEF E, G
  <2> QED BY <1>6, <2>1 DEF Steps
<1>8. \A s \in SUBSET S : f[s] \in R
  <2> HIDE DEF E, G
  <2> QED BY <1>2, <1>7, FoldType
<1>9. f \in [SUBSET S -> R]
  BY <1>4, <1>8
<1> HIDE DEF E, G
<1> QED BY <1>4, <1>5, <1>6, <1>9 DEF ListsInto

LEMMA ListedType ==
  ASSUME NEW S, IsFiniteSet(S)
  PROVE  Listed(S) \in Seq(S)
<1>1. PICK R : R = Seq(S)
  OBVIOUS
<1>2. PICK f \in [SUBSET S -> R] : ListsInto(f, S)
  BY <1>1, ListedFold
<1> QED BY <1>1, <1>2 DEF ListsInto

Has(list, x) == \E i \in DOMAIN list : list[i] = x

LEMMA ListedAll ==
  ASSUME NEW S, IsFiniteSet(S)
  PROVE  \A x \in S : Has(Listed(S), x)
<1>1. PICK R : R = Seq(S)
  OBVIOUS
<1>2. PICK f \in [SUBSET S -> R] : ListsInto(f, S)
  BY <1>1, ListedFold
<1> DEFINE T == {s \in SUBSET S : \E y \in s : ~Has(f[s], y)}
<1>3. ASSUME NEW s \in T
      PROVE  \E x \in s : s \ {x} \in T
  <2>1. PICK y \in s : ~Has(f[s], y)
    OBVIOUS
  <2>2. PICK x \in s : f[s] = Append(f[s \ {x}], x)
    BY <1>2, <2>1 DEF ListsInto
  <2>3. PICK before \in Seq(S) : before = f[s \ {x}]
    BY <1>1
  <2>4. PICK after \in Seq(S) : after = f[s]
    BY <1>1
  <2>5. /\ DOMAIN before = 1..Len(before) /\ DOMAIN after = 1..(Len(before) + 1) /\ Len(before) \in Nat
        /\ after[Len(before) + 1] = x /\ \A i \in 1..Len(before) : after[i] = before[i]
    BY <2>2, <2>3, <2>4
  <2>6. y # x /\ ~Has(before, y)
    BY <2>1, <2>4, <2>5 DEF Has
  <2> QED BY <2>3, <2>6
<1>4. {} \notin T
  OBVIOUS
<1>5. T = {}
  BY <1>3, <1>4, SetInduction
<1> QED BY <1>2, <1>5 DEF ListsInto
-----------------------------------------------------------------------------
(* States of the network and what can happen to them.                       *)
LinkCosts == UNION {{LinkCost[n][m] : m \in DOMAIN LinkCost[n]} : n \in Nodes}
PartialNodes == [id : Nodes, cost : Costs \cup {None}, clusterId : {None}]
Links == {link \in Nodes \X Nodes : link[1] # link[2]}

Maps(keys, values) == UNION {[A -> values] : A \in SUBSET keys}

(* Nodes are kept under their ids.                                          *)
NodeMaps == {nodes \in Maps(Nodes, PartialNodes) : \A id \in DOMAIN nodes : nodes[id].id = id}

NetworkStates ==
  [nodes : NodeMaps, strong : Maps(Links, LinkCosts),
   weak : Maps(Links, LinkCosts), priorities : Maps(Nodes, Nat), nextPriority : Nat]

(* The end of a link that was seen first is the stronger one.               *)
Ordered(state) ==
  /\ \A id \in DOMAIN state.priorities : state.priorities[id] < state.nextPriority
  /\ \A id1, id2 \in DOMAIN state.priorities :
       state.priorities[id1] = state.priorities[id2] => id1 = id2
  /\ \A link \in DOMAIN state.strong :
       /\ {link[1], link[2]} \subseteq DOMAIN state.priorities
       /\ state.priorities[link[1]] < state.priorities[link[2]]

GoodStates == {state \in NetworkStates : Ordered(state) /\ Mutual(state)}

(* Links are between two nodes.                                             *)
TopologyUpdateTypes ==
  [type : {"NodeUpdated"}, node : PartialNodes]
  \cup [type : {"NodeRemoved"}, id : Nodes]
  \cup {update \in [type : {"LinkUpdated"}, source : Nodes, destination : Nodes,
                    linkCost : LinkCosts] : update.source # update.destination}
  \cup [type : {"LinkRemoved"}, source : Nodes, destination : Nodes]

Updates == TopologyUpdateTypes \cup {FrameReceived}

(* What a sink tells its client: nodes that are removed are left out.       *)
Entries == {update \in Updates : update.type # "NodeRemoved"}
TopologyEntries == {entry \in Entries : entry.type # "FrameReceived"}

Reports == [state : GoodStates, updates : Seq(Updates)]

LEMMA IsMap ==
  ASSUME NEW K, NEW V, NEW A \in SUBSET K, NEW map \in [A -> V]
  PROVE  map \in Maps(K, V)
BY DEF Maps

LEMMA MapFacts ==
  ASSUME NEW K, NEW V, NEW map \in Maps(K, V)
  PROVE  /\ map \in [DOMAIN map -> V] /\ DOMAIN map \subseteq K
         /\ \A k \in DOMAIN map : map[k] \in V
<1>1. PICK A \in SUBSET K : map \in [A -> V]
  BY DEF Maps
<1> QED BY <1>1

LEMMA SetType ==
  ASSUME NEW K, NEW V, NEW map \in Maps(K, V), NEW k \in K, NEW v \in V
  PROVE  Set(map, k, v) \in Maps(K, V)
<1>1. DOMAIN map \cup {k} \in SUBSET K /\ \A i \in DOMAIN map : map[i] \in V
  BY MapFacts
<1>2. Set(map, k, v) \in [DOMAIN map \cup {k} -> V]
  BY <1>1 DEF Set
<1> QED BY <1>1, <1>2, IsMap

LEMMA DeleteType ==
  ASSUME NEW K, NEW V, NEW map \in Maps(K, V), NEW k
  PROVE  Delete(map, k) \in Maps(K, V)
<1>1. DOMAIN map \ {k} \in SUBSET K /\ \A i \in DOMAIN map : map[i] \in V
  BY MapFacts
<1>2. Delete(map, k) \in [DOMAIN map \ {k} -> V]
  BY <1>1 DEF Delete
<1> QED BY <1>1, <1>2, IsMap

LEMMA NewStateGood == NewNetworkState \in GoodStates
<1>1. \A K, V : <<>> \in Maps(K, V)
  <2>1. \A K : {} \in SUBSET K
    OBVIOUS
  <2>2. \A V : <<>> \in [{} -> V]
    OBVIOUS
  <2> QED BY <2>1, <2>2 DEF Maps
<1>2. DOMAIN <<>> = {}
  OBVIOUS
<1>3. NewNetworkState \in NetworkStates
  BY <1>1, <1>2 DEF NewNetworkState, NetworkStates, NodeMaps
<1>4. Ordered(NewNetworkState) /\ Mutual(NewNetworkState)
  BY <1>2 DEF NewNetworkState, Ordered, Mutual
<1> QED BY <1>3, <1>4 DEF GoodStates

(* The parts of a state.                                                    *)
LEMMA StateParts ==
  ASSUME NEW state \in GoodStates
  PROVE  /\ state \in NetworkStates /\ Ordered(state) /\ Mutual(state)
         /\ state.nodes \in NodeMaps /\ state.nodes \in Maps(Nodes, PartialNodes)
         /\ state.strong \in Maps(Links, LinkCosts) /\ state.weak \in Maps(Links, LinkCosts)
         /\ state.priorities \in Maps(Nodes, Nat) /\ state.nextPriority \in Nat
         /\ DOMAIN state.nodes \subseteq Nodes /\ DOMAIN state.priorities \subseteq Nodes
         /\ DOMAIN state.strong \subseteq Links /\ DOMAIN state.weak \subseteq Links
<1>1. state \in NetworkStates /\ Ordered(state) /\ Mutual(state)
  BY DEF GoodStates
<1>2. /\ state.nodes \in NodeMaps /\ state.nodes \in Maps(Nodes, PartialNodes)
      /\ state.strong \in Maps(Links, LinkCosts) /\ state.weak \in Maps(Links, LinkCosts)
      /\ state.priorities \in Maps(Nodes, Nat) /\ state.nextPriority \in Nat
  BY <1>1 DEF NetworkStates, NodeMaps
<1> QED BY <1>1, <1>2, MapFacts

LEMMA IsReport ==
  ASSUME NEW state \in GoodStates, NEW updates \in Seq(Updates)
  PROVE  /\ Result(state, updates) \in Reports
         /\ Result(state, updates).state = state /\ Result(state, updates).updates = updates
BY DEF Result, Reports

LEMMA ReportParts ==
  ASSUME NEW r \in Reports
  PROVE  r.state \in GoodStates /\ r.updates \in Seq(Updates)
BY DEF Reports

LEMMA NodesGrow ==
  ASSUME NEW state \in GoodStates, NEW nodes \in NodeMaps,
         DOMAIN state.nodes \subseteq DOMAIN nodes
  PROVE  [state EXCEPT !.nodes = nodes] \in GoodStates
<1> DEFINE new == [state EXCEPT !.nodes = nodes]
<1>1. /\ new \in NetworkStates /\ new.nodes = nodes /\ new.strong = state.strong
      /\ new.weak = state.weak /\ new.priorities = state.priorities
      /\ new.nextPriority = state.nextPriority
  BY StateParts DEF NetworkStates
<1> HIDE DEF new
<1>2. Ordered(new)
  BY <1>1, StateParts DEF Ordered
<1>3. Mutual(new)
  BY <1>1, StateParts DEF Mutual
<1> QED BY <1>1, <1>2, <1>3 DEF GoodStates, new

(* An operation that leaves the links as they are.                          *)
SameLinks(new, old) ==
  /\ new.strong = old.strong /\ new.weak = old.weak
  /\ new.priorities = old.priorities /\ new.nextPriority = old.nextPriority

LEMMA OnlyIdType ==
  ASSUME NEW id \in Nodes
  PROVE  OnlyId(id) \in PartialNodes /\ OnlyId(id).id = id
BY DEF OnlyId, PartialNode, PartialNodes

LEMMA GetOrUpdateNodeGood ==
  ASSUME NEW state \in GoodStates, NEW n \in PartialNodes
  PROVE  LET r == GetOrUpdateNode(state, n)
         IN  /\ r \in Reports /\ SameLinks(r.state, state)
             /\ DOMAIN r.state.nodes = DOMAIN state.nodes \cup {n.id}
<1> DEFINE merged == IF n.id \notin DOMAIN state.nodes THEN n ELSE Merged(state.nodes[n.id], n)
<1>1. n.id \in Nodes /\ state.nodes \in Maps(Nodes, PartialNodes) /\ state \in NetworkStates
  BY StateParts DEF PartialNodes
<1>2. merged \in PartialNodes /\ merged.id = n.id
  <2>1. CASE n.id \in DOMAIN state.nodes
    <3>1. state.nodes[n.id] \in PartialNodes /\ state.nodes[n.id].id = n.id
      BY <1>1, <2>1, MapFacts, StateParts DEF NodeMaps
    <3> QED BY <2>1, <3>1 DEF Merged, Known, PartialNode, PartialNodes
  <2> QED BY <2>1
<1> HIDE DEF merged
<1>3. PICK nodes : nodes = Set(state.nodes, n.id, merged)
  OBVIOUS
<1>4. nodes \in NodeMaps /\ DOMAIN nodes = DOMAIN state.nodes \cup {n.id}
  <2>1. nodes \in Maps(Nodes, PartialNodes)
    BY <1>1, <1>2, <1>3, SetType
  <2>2. \A id \in DOMAIN state.nodes : state.nodes[id].id = id
    BY StateParts DEF NodeMaps
  <2>3. /\ DOMAIN nodes = DOMAIN state.nodes \cup {n.id}
        /\ \A id \in DOMAIN nodes : nodes[id] = IF id = n.id THEN merged ELSE state.nodes[id]
    BY <1>3 DEF Set
  <2> QED BY <1>2, <2>1, <2>2, <2>3 DEF NodeMaps
<1> DEFINE new == [state EXCEPT !.nodes = nodes]
<1>5. /\ new \in GoodStates /\ new.nodes = nodes /\ SameLinks(new, state)
  <2>1. new \in GoodStates
    BY <1>4, NodesGrow
  <2>2. new.nodes = nodes /\ SameLinks(new, state)
    BY <1>1 DEF NetworkStates, SameLinks
  <2> QED BY <2>1, <2>2
<1>6. NodeUpdated(n) \in Updates
  BY DEF NodeUpdated, Updates, TopologyUpdateTypes
<1>7. PICK updates \in {<<NodeUpdated(n)>>, <<>>} : GetOrUpdateNode(state, n) = Result(new, updates)
  BY <1>3 DEF GetOrUpdateNode, merged
<1>8. updates \in Seq(Updates)
  <2>1. <<NodeUpdated(n)>> \in Seq(Updates) /\ <<>> \in Seq(Updates)
    BY <1>6
  <2> QED BY <1>7, <2>1
<1> HIDE DEF new
<1>9. GetOrUpdateNode(state, n) \in Reports /\ GetOrUpdateNode(state, n).state = new
  BY <1>5, <1>7, <1>8, IsReport
<1> QED BY <1>4, <1>5, <1>9

(* Results of two operations, one after the other.                          *)
LEMMA Joined ==
  ASSUME NEW r1 \in Reports, NEW r2 \in Reports
  PROVE  Result(r2.state, r1.updates \o r2.updates) \in Reports
BY ReportParts, ConcatProperties, IsReport

-----------------------------------------------------------------------------
LEMMA GetOrInsertGood ==
  ASSUME NEW state \in GoodStates, NEW id \in Nodes
  PROVE  LET new == GetOrInsert(state, id)
         IN  /\ new \in GoodStates
             /\ new.nodes = state.nodes /\ new.strong = state.strong /\ new.weak = state.weak
             /\ DOMAIN new.priorities = DOMAIN state.priorities \cup {id}
<1> DEFINE new == [state EXCEPT !.priorities = Set(@, id, state.nextPriority), !.nextPriority = @ + 1]
<1>1. CASE id \in DOMAIN state.priorities
  BY <1>1 DEF GetOrInsert
<1>2. CASE id \notin DOMAIN state.priorities
  <2>1. /\ state \in NetworkStates /\ Ordered(state) /\ Mutual(state)
        /\ state.priorities \in Maps(Nodes, Nat) /\ state.nextPriority \in Nat
    BY StateParts
  <2>2. PICK p : p = Set(state.priorities, id, state.nextPriority)
    OBVIOUS
  <2>3. /\ p \in Maps(Nodes, Nat) /\ DOMAIN p = DOMAIN state.priorities \cup {id}
        /\ p[id] = state.nextPriority
        /\ \A i \in DOMAIN state.priorities : p[i] = state.priorities[i]
    <3>1. \A i \in DOMAIN state.priorities : i # id
      BY <1>2
    <3>2. p \in Maps(Nodes, Nat)
      BY <2>1, <2>2, SetType
    <3> QED BY <2>2, <3>1, <3>2 DEF Set
  <2>4. /\ new \in NetworkStates
        /\ new.nodes = state.nodes /\ new.strong = state.strong /\ new.weak = state.weak
        /\ new.priorities = p /\ new.nextPriority = state.nextPriority + 1
    <3>1. PICK q \in Nat : q = state.nextPriority + 1
      BY <2>1
    <3>2. new = [state EXCEPT !.priorities = p, !.nextPriority = q]
      BY <2>2, <3>1
    <3> QED BY <2>1, <2>3, <3>1, <3>2 DEF NetworkStates
  <2> HIDE DEF new
  <2>5. \A i \in DOMAIN p : p[i] \in Nat
    BY <2>3, MapFacts
  <2>6. Ordered(new)
    BY <2>1, <2>3, <2>4, <2>5 DEF Ordered
  <2>7. Mutual(new)
    BY <2>1, <2>4 DEF Mutual
  <2>8. GetOrInsert(state, id) = new
    BY <1>2 DEF GetOrInsert, new
  <2> QED BY <2>3, <2>4, <2>6, <2>7, <2>8 DEF GoodStates
<1> QED BY <1>1, <1>2

LEMMA PrioritizedGood ==
  ASSUME NEW state \in GoodStates, NEW id1 \in Nodes, NEW id2 \in Nodes
  PROVE  LET new == Prioritized(state, id1, id2)
         IN  /\ new \in GoodStates
             /\ new.nodes = state.nodes /\ new.strong = state.strong /\ new.weak = state.weak
             /\ {id1, id2} \subseteq DOMAIN new.priorities
<1>1. PICK s \in GoodStates : s = GetOrInsert(state, id1)
  BY GetOrInsertGood
<1>2. /\ s.nodes = state.nodes /\ s.strong = state.strong /\ s.weak = state.weak
      /\ id1 \in DOMAIN s.priorities
  BY <1>1, GetOrInsertGood
<1>3. PICK t \in GoodStates : t = GetOrInsert(s, id2)
  BY GetOrInsertGood
<1>4. /\ t.nodes = s.nodes /\ t.strong = s.strong /\ t.weak = s.weak
      /\ {id1, id2} \subseteq DOMAIN t.priorities
  BY <1>2, <1>3, GetOrInsertGood
<1>5. Prioritized(state, id1, id2) = t
  BY <1>1, <1>3 DEF Prioritized
<1> QED BY <1>2, <1>4, <1>5

(* The two ends of a link.                                                  *)
LEMMA ReversedFacts ==
  ASSUME NEW link \in Links
  PROVE  /\ Reversed(link) \in Links /\ Reversed(Reversed(link)) = link
         /\ Reversed(link) # link /\ Reversed(link)[1] = link[2] /\ Reversed(link)[2] = link[1]
BY DEF Links, Reversed

LEMMA UpdateBothEndsGood ==
  ASSUME NEW state \in GoodStates, NEW id1 \in Nodes, NEW id2 \in Nodes, id1 # id2,
         {id1, id2} \subseteq DOMAIN state.nodes, NEW linkCost \in LinkCosts
  PROVE  LET r == UpdateBothEnds(state, id1, id2, linkCost)
         IN  r \in Reports /\ r.state.nodes = state.nodes
<1>1. PICK p \in GoodStates : p = Prioritized(state, id1, id2)
  BY PrioritizedGood
<1>2. /\ p.nodes = state.nodes /\ p.strong = state.strong /\ p.weak = state.weak
      /\ {id1, id2} \subseteq DOMAIN p.priorities
  BY <1>1, PrioritizedGood
<1>3. PICK link : link = Stronger(p, id1, id2)
  OBVIOUS
<1>4. /\ link \in Links /\ {link[1], link[2]} = {id1, id2}
      /\ p.priorities[link[1]] < p.priorities[link[2]]
  <2>1. p.priorities[id1] \in Nat /\ p.priorities[id2] \in Nat /\ p.priorities[id1] # p.priorities[id2]
    BY <1>2, StateParts, MapFacts DEF Ordered
  <2>2. link \in {<<id1, id2>>, <<id2, id1>>} /\ p.priorities[link[1]] < p.priorities[link[2]]
    BY <1>3, <2>1 DEF Stronger
  <2> QED BY <2>2 DEF Links
<1>5. PICK strong, weak : /\ strong = Set(p.strong, link, linkCost)
                          /\ weak = Set(p.weak, Reversed(link), linkCost)
  OBVIOUS
<1> DEFINE new == [p EXCEPT !.strong = Set(@, link, linkCost), !.weak = Set(@, Reversed(link), linkCost)]
<1>6. /\ strong \in Maps(Links, LinkCosts) /\ DOMAIN strong = DOMAIN p.strong \cup {link}
      /\ strong[link] = linkCost /\ \A l \in DOMAIN p.strong : l # link => strong[l] = p.strong[l]
  <2>1. p.strong \in Maps(Links, LinkCosts)
    BY StateParts
  <2>2. strong \in Maps(Links, LinkCosts)
    BY <1>4, <1>5, <2>1, SetType
  <2> QED BY <1>5, <2>2 DEF Set
<1>7. /\ weak \in Maps(Links, LinkCosts) /\ DOMAIN weak = DOMAIN p.weak \cup {Reversed(link)}
      /\ weak[Reversed(link)] = linkCost
      /\ \A l \in DOMAIN p.weak : l # Reversed(link) => weak[l] = p.weak[l]
  <2>1. Reversed(link) \in Links /\ p.weak \in Maps(Links, LinkCosts)
    BY <1>4, StateParts, ReversedFacts
  <2>2. weak \in Maps(Links, LinkCosts)
    BY <1>5, <2>1, SetType
  <2> QED BY <1>5, <2>2 DEF Set
<1>8. /\ new \in NetworkStates /\ new.nodes = state.nodes /\ new.strong = strong /\ new.weak = weak
      /\ new.priorities = p.priorities /\ new.nextPriority = p.nextPriority
  BY <1>2, <1>6, <1>7, <1>5, StateParts DEF NetworkStates
<1> HIDE DEF new
<1>9. Ordered(new)
  BY <1>2, <1>4, <1>6, <1>8, StateParts DEF Ordered
<1>10. Mutual(new)
  <2>1. \A l \in DOMAIN p.strong : l \in Links /\ Reversed(l) \in Links /\ Reversed(Reversed(l)) = l
    BY StateParts, ReversedFacts
  <2>2. \A l \in DOMAIN p.weak : l \in Links /\ Reversed(l) \in Links /\ Reversed(Reversed(l)) = l
    BY StateParts, ReversedFacts
  <2>3. Reversed(link) \in Links /\ Reversed(Reversed(link)) = link /\ Reversed(link) # link
    BY <1>4, ReversedFacts
  <2>4. ASSUME NEW l \in DOMAIN strong
        PROVE  Reversed(l) \in DOMAIN weak /\ weak[Reversed(l)] = strong[l]
    <3>1. CASE l = link
      BY <1>6, <1>7, <3>1
    <3>2. CASE l # link
      <4>1. l \in DOMAIN p.strong /\ Reversed(l) \in DOMAIN p.weak
            /\ p.weak[Reversed(l)] = p.strong[l]
        BY <1>6, <3>2, StateParts DEF Mutual
      <4>2. Reversed(l) # Reversed(link)
        BY <2>1, <2>3, <3>2, <4>1
      <4> QED BY <1>6, <1>7, <3>2, <4>1, <4>2
    <3> QED BY <3>1, <3>2
  <2>5. ASSUME NEW l \in DOMAIN weak
        PROVE  Reversed(l) \in DOMAIN strong
    <3>1. l = Reversed(link) \/ l \in DOMAIN p.weak
      BY <1>7
    <3> QED BY <1>6, <2>3, <3>1, StateParts DEF Mutual
  <2>6. ASSUME NEW l \in DOMAIN strong
        PROVE  l \notin DOMAIN weak
    <3> SUFFICES ASSUME l \in DOMAIN weak PROVE FALSE
      OBVIOUS
    <3>1. Reversed(l) \in DOMAIN strong
      BY <2>5
    <3>2. l \in Links
      BY <1>6, MapFacts
    <3>3. /\ new.priorities[l[1]] < new.priorities[l[2]]
          /\ new.priorities[Reversed(l)[1]] < new.priorities[Reversed(l)[2]]
          /\ {l[1], l[2]} \subseteq DOMAIN new.priorities
      BY <1>8, <1>9, <3>1 DEF Ordered
    <3>4. new.priorities[l[1]] < new.priorities[l[2]] /\ new.priorities[l[2]] < new.priorities[l[1]]
      BY <3>2, <3>3, ReversedFacts
    <3>5. new.priorities[l[1]] \in Nat /\ new.priorities[l[2]] \in Nat
      BY <1>8, <3>3, StateParts, MapFacts
    <3> QED BY <3>4, <3>5
  <2>7. \A l \in DOMAIN strong : {l[1], l[2]} \subseteq DOMAIN state.nodes
    <3>1. \A l \in DOMAIN p.strong : {l[1], l[2]} \subseteq DOMAIN state.nodes
      BY <1>2, StateParts DEF Mutual
    <3> QED BY <1>4, <1>6, <3>1
  <2> QED BY <1>8, <2>4, <2>5, <2>6, <2>7 DEF Mutual
<1>11. LinkUpdated(link[1], link[2], linkCost) \in Updates
  BY <1>4 DEF Links, LinkUpdated, Updates, TopologyUpdateTypes
<1>12. PICK updates \in {<<LinkUpdated(link[1], link[2], linkCost)>>, <<>>} :
         UpdateBothEnds(state, id1, id2, linkCost) = Result(new, updates)
  BY <1>1, <1>3 DEF UpdateBothEnds, new
<1>13. updates \in Seq(Updates) /\ new \in GoodStates
  <2>1. <<LinkUpdated(link[1], link[2], linkCost)>> \in Seq(Updates) /\ <<>> \in Seq(Updates)
    BY <1>11
  <2>2. updates \in Seq(Updates)
    BY <1>12, <2>1
  <2>3. new \in GoodStates
    BY <1>8, <1>9, <1>10 DEF GoodStates
  <2> QED BY <2>2, <2>3
<1> QED BY <1>8, <1>12, <1>13, IsReport

LEMMA UpdateLinkGood ==
  ASSUME NEW state \in GoodStates, NEW source \in PartialNodes, NEW destination \in PartialNodes,
         source.id # destination.id, NEW linkCost \in LinkCosts
  PROVE  UpdateLink(state, source, destination, linkCost) \in Reports
<1>1. source.id \in Nodes /\ destination.id \in Nodes
  BY DEF PartialNodes
<1>2. PICK r1 \in Reports : r1 = GetOrUpdateNode(state, source)
  BY GetOrUpdateNodeGood
<1>3. r1.state \in GoodStates /\ source.id \in DOMAIN r1.state.nodes
  BY <1>2, GetOrUpdateNodeGood, ReportParts
<1>4. PICK r2 \in Reports : r2 = GetOrUpdateNode(r1.state, destination)
  BY <1>3, GetOrUpdateNodeGood
<1>5. r2.state \in GoodStates /\ {source.id, destination.id} \subseteq DOMAIN r2.state.nodes
  BY <1>3, <1>4, GetOrUpdateNodeGood, ReportParts
<1>6. PICK r3 \in Reports : r3 = UpdateBothEnds(r2.state, source.id, destination.id, linkCost)
  BY <1>1, <1>5, UpdateBothEndsGood
<1>7. UpdateLink(state, source, destination, linkCost) =
        Result(r3.state, r1.updates \o r2.updates \o r3.updates)
  BY <1>2, <1>4, <1>6 DEF UpdateLink
<1>8. PICK updates \in Seq(Updates) : updates = r1.updates \o r2.updates \o r3.updates
  <2>1. r1.updates \in Seq(Updates) /\ r2.updates \in Seq(Updates) /\ r3.updates \in Seq(Updates)
    BY ReportParts
  <2>2. r1.updates \o r2.updates \o r3.updates \in Seq(Updates)
    BY <2>1
  <2> QED BY <2>2, Zenon
<1>9. Result(r3.state, updates) \in Reports
  BY ReportParts, IsReport
<1> QED BY <1>7, <1>8, <1>9

-----------------------------------------------------------------------------
(* A state without some of the links, at both of their ends.                *)
Without(new, old, links) ==
  /\ new \in NetworkStates
  /\ new.nodes = old.nodes /\ new.priorities = old.priorities
  /\ new.nextPriority = old.nextPriority
  /\ DOMAIN new.strong = DOMAIN old.strong \ links /\ DOMAIN new.weak = DOMAIN old.weak \ links
  /\ \A link \in DOMAIN new.strong : new.strong[link] = old.strong[link]
  /\ \A link \in DOMAIN new.weak : new.weak[link] = old.weak[link]

LEMMA WithoutGood ==
  ASSUME NEW state \in GoodStates, NEW new, NEW links, Without(new, state, links),
         \A link \in Links : link \in links <=> Reversed(link) \in links
  PROVE  new \in GoodStates
<1>1. Ordered(new)
  BY StateParts DEF Without, Ordered
<1>2. ASSUME NEW link \in DOMAIN new.strong
      PROVE  /\ Reversed(link) \in DOMAIN new.weak
             /\ new.weak[Reversed(link)] = new.strong[link]
             /\ link \notin DOMAIN new.weak
             /\ {link[1], link[2]} \subseteq DOMAIN new.nodes
  <2>1. link \in DOMAIN state.strong /\ link \in Links /\ link \notin links
    BY StateParts DEF Without
  <2>2. /\ Reversed(link) \in DOMAIN state.weak
        /\ state.weak[Reversed(link)] = state.strong[link]
        /\ link \notin DOMAIN state.weak
        /\ {link[1], link[2]} \subseteq DOMAIN state.nodes
    BY <2>1, StateParts DEF Mutual
  <2>3. Reversed(link) \notin links
    BY <2>1
  <2> QED BY <2>2, <2>3 DEF Without
<1>3. ASSUME NEW link \in DOMAIN new.weak
      PROVE  Reversed(link) \in DOMAIN new.strong
  <2>1. link \in DOMAIN state.weak /\ link \in Links /\ link \notin links
    BY StateParts DEF Without
  <2>2. Reversed(link) \in DOMAIN state.strong
    BY <2>1, StateParts DEF Mutual
  <2> QED BY <2>1, <2>2 DEF Without
<1>4. Mutual(new)
  BY <1>2, <1>3 DEF Mutual
<1> QED BY <1>1, <1>4 DEF GoodStates, Without

WithoutEnd(new, old, link) ==
  /\ new \in NetworkStates
  /\ new.nodes = old.nodes /\ new.priorities = old.priorities
  /\ new.nextPriority = old.nextPriority
  /\ DOMAIN new.strong = DOMAIN old.strong \ {link}
  /\ DOMAIN new.weak = IF link \in DOMAIN old.strong THEN DOMAIN old.weak
                       ELSE DOMAIN old.weak \ {link}
  /\ \A l \in DOMAIN new.strong : new.strong[l] = old.strong[l]
  /\ \A l \in DOMAIN new.weak : new.weak[l] = old.weak[l]

LEMMA RemoveOneEndFacts ==
  ASSUME NEW state \in NetworkStates, NEW link
  PROVE  WithoutEnd(RemoveOneEnd(state, link), state, link)
<1>1. /\ state.strong \in Maps(Links, LinkCosts) /\ state.weak \in Maps(Links, LinkCosts)
  BY DEF NetworkStates
<1>2. PICK strong \in Maps(Links, LinkCosts) : strong = Delete(state.strong, link)
  BY <1>1, DeleteType
<1>3. PICK weak \in Maps(Links, LinkCosts) : weak = Delete(state.weak, link)
  BY <1>1, DeleteType
<1>4. /\ DOMAIN strong = DOMAIN state.strong \ {link} /\ DOMAIN weak = DOMAIN state.weak \ {link}
      /\ \A l \in DOMAIN strong : strong[l] = state.strong[l]
      /\ \A l \in DOMAIN weak : weak[l] = state.weak[l]
  BY <1>2, <1>3 DEF Delete
<1>5. CASE link \in DOMAIN state.strong
  <2>1. RemoveOneEnd(state, link) = [state EXCEPT !.strong = strong]
    BY <1>2, <1>5 DEF RemoveOneEnd
  <2> QED BY <1>4, <1>5, <2>1 DEF NetworkStates, WithoutEnd
<1>6. CASE link \notin DOMAIN state.strong
  <2>1. RemoveOneEnd(state, link) = [state EXCEPT !.weak = weak]
    BY <1>3, <1>6 DEF RemoveOneEnd
  <2> QED BY <1>4, <1>6, <2>1 DEF NetworkStates, WithoutEnd
<1> QED BY <1>5, <1>6

(* After a removal the two nodes are not linked, and the other links stay.  *)
LEMMA RemoveLinkGood ==
  ASSUME NEW state \in GoodStates, NEW id1 \in Nodes, NEW id2 \in Nodes
  PROVE  LET r == RemoveLink(state, id1, id2)
         IN  r \in Reports /\ Without(r.state, state, {<<id1, id2>>, <<id2, id1>>})
<1> DEFINE link == <<id1, id2>>
           links == {<<id1, id2>>, <<id2, id1>>}
<1>1. /\ state \in NetworkStates /\ Mutual(state)
      /\ DOMAIN state.strong \subseteq Links /\ DOMAIN state.weak \subseteq Links
  BY StateParts
<1>2. /\ link \in DOMAIN state.strong => Reversed(link) \in DOMAIN state.weak \ DOMAIN state.strong
      /\ Reversed(link) \in DOMAIN state.strong => link \in DOMAIN state.weak \ DOMAIN state.strong
      /\ link \in DOMAIN state.weak => Reversed(link) \in DOMAIN state.strong
      /\ Reversed(link) \in DOMAIN state.weak => link \in DOMAIN state.strong
      /\ DOMAIN state.strong \cap DOMAIN state.weak = {}
  <2>1. Reversed(link) = <<id2, id1>> /\ Reversed(Reversed(link)) = link
    BY DEF Reversed
  <2> HIDE DEF link
  <2> QED BY <1>1, <2>1 DEF Mutual
<1>3. CASE {id1, id2} \subseteq DOMAIN state.nodes
  <2>1. Reversed(link) = <<id2, id1>>
    BY DEF Reversed
  <2>2. PICK other : other = RemoveOneEnd(state, Reversed(link))
    OBVIOUS
  <2>3. PICK new : new = RemoveOneEnd(other, link)
    OBVIOUS
  <2>4. WithoutEnd(other, state, Reversed(link))
    BY <1>1, <2>2, RemoveOneEndFacts
  <2>5. other \in NetworkStates /\ WithoutEnd(new, other, link)
    <3>1. other \in NetworkStates
      BY <2>4 DEF WithoutEnd
    <3> QED BY <2>3, <3>1, RemoveOneEndFacts
  <2> HIDE DEF link
  <2>6. DOMAIN new.strong = DOMAIN state.strong \ {link, Reversed(link)}
    BY <2>4, <2>5 DEF WithoutEnd
  <2>7. DOMAIN new.weak = DOMAIN state.weak \ {link, Reversed(link)}
    BY <1>2, <2>4, <2>5 DEF WithoutEnd
  <2>8. Without(new, state, {link, Reversed(link)})
    BY <2>4, <2>5, <2>6, <2>7 DEF Without, WithoutEnd
  <2>9. Without(new, state, links)
    BY <2>1, <2>8 DEF link
  <2>10. PICK updates \in {<<LinkRemoved(id1, id2)>>, <<>>} :
           RemoveLink(state, id1, id2) = Result(new, updates)
    BY <1>3, <2>2, <2>3 DEF RemoveLink, link
  <2>11. updates \in Seq(Updates)
    <3>1. LinkRemoved(id1, id2) \in Updates
      BY DEF LinkRemoved, Updates, TopologyUpdateTypes
    <3>2. <<LinkRemoved(id1, id2)>> \in Seq(Updates) /\ <<>> \in Seq(Updates)
      BY <3>1
    <3> QED BY <2>10, <3>2
  <2>12. new \in GoodStates
    <3>1. \A l \in Links : l \in links <=> Reversed(l) \in links
      BY DEF Links, Reversed
    <3> HIDE DEF links
    <3> QED BY <2>9, <3>1, WithoutGood
  <2> QED BY <2>9, <2>10, <2>11, <2>12, IsReport
<1>4. CASE ~({id1, id2} \subseteq DOMAIN state.nodes)
  <2>1. \A l \in links : l \notin DOMAIN state.strong
    BY <1>1, <1>4 DEF Mutual
  <2>2. \A l \in links : l \notin DOMAIN state.weak
    <3>1. Reversed(<<id1, id2>>) = <<id2, id1>> /\ Reversed(<<id2, id1>>) = <<id1, id2>>
      BY DEF Reversed
    <3> QED BY <1>1, <2>1, <3>1 DEF Mutual
  <2>3. Without(state, state, links)
    BY <1>1, <2>1, <2>2 DEF Without
  <2>4. RemoveLink(state, id1, id2) = Result(state, <<>>) /\ <<>> \in Seq(Updates)
    BY <1>4 DEF RemoveLink
  <2> QED BY <2>3, <2>4, IsReport
<1> QED BY <1>3, <1>4

-----------------------------------------------------------------------------
(* Operations for each element of a set.                                    *)
Start(state) == Result(state, <<>>)

AfterRemoveLink(r, id, neighbor) ==
  LET next == RemoveLink(r.state, id, neighbor)
  IN  Result(next.state, r.updates \o next.updates)

LEMMA RemoveLinksFold ==
  ASSUME NEW state \in GoodStates, NEW id \in Nodes, NEW S \in SUBSET Nodes, IsFiniteSet(S)
  PROVE  \E f \in [SUBSET S -> Reports] :
           /\ RemoveLinks(state, id, S) = f[S] /\ f[{}] = Start(state)
           /\ \A s \in SUBSET S : s # {} => \E x \in s : f[s] = AfterRemoveLink(f[s \ {x}], id, x)
<1> DEFINE G == [p \in S \X Reports |-> AfterRemoveLink(p[2], id, p[1])]
           E(f) == f = [s \in SUBSET S |->
                          IF s = {} THEN Start(state)
                          ELSE AfterRemoveLink(f[s \ {CHOOSE x \in s : TRUE}], id,
                                               CHOOSE x \in s : TRUE)]
<1>1. G \in [S \X Reports -> Reports] /\ Start(state) \in Reports
  <2>1. ASSUME NEW r \in Reports, NEW x \in S
        PROVE  AfterRemoveLink(r, id, x) \in Reports
    <3>1. PICK next \in Reports : next = RemoveLink(r.state, id, x)
      BY ReportParts, RemoveLinkGood
    <3> QED BY <3>1, Joined DEF AfterRemoveLink
  <2>2. <<>> \in Seq(Updates)
    OBVIOUS
  <2> QED BY <2>1, <2>2, IsReport DEF Start
<1>2. \E g : E(g)
  <2>1. PICK g \in [SUBSET S -> Reports] : FoldsInto(g, S, Reports, Start(state), G)
    <3> HIDE DEF G
    <3> QED BY <1>1, FoldInto
  <2>2. \A s \in SUBSET S :
          g[s] = IF s = {} THEN Start(state)
                 ELSE AfterRemoveLink(g[s \ {CHOOSE x \in s : TRUE}], id, CHOOSE x \in s : TRUE)
    BY <2>1 DEF FoldsInto
  <2> QED BY <2>2
<1>3. PICK f : E(f) /\ RemoveLinks(state, id, S) = f[S]
  <2>1. E(CHOOSE f : E(f))
    <3> HIDE DEF E
    <3> QED BY <1>2
  <2> QED BY <2>1, Zenon DEF RemoveLinks, ForEach, FoldSet, MapThenFoldSet, AfterRemoveLink, Start
<1>4. f[{}] = Start(state)
  BY <1>3
<1>5. ASSUME NEW s \in SUBSET S, s # {}
      PROVE  \E x \in s : f[s] = AfterRemoveLink(f[s \ {x}], id, x)
  <2>1. PICK x \in s : x = CHOOSE y \in s : TRUE
    BY <1>5
  <2> QED BY <1>3, <1>5, <2>1
<1>6. f \in [SUBSET S -> Reports]
  <2>1. ASSUME NEW s \in SUBSET S, s # {}
        PROVE  \E x \in s : f[s \ {x}] \in Reports => f[s] = G[<<x, f[s \ {x}]>>]
    <3>1. PICK x \in s : f[s] = AfterRemoveLink(f[s \ {x}], id, x)
      BY <1>5, <2>1
    <3>2. f[s \ {x}] \in Reports => <<x, f[s \ {x}]>> \in S \X Reports
      OBVIOUS
    <3> QED BY <3>1, <3>2
  <2>2. Steps(f, S, Start(state), Reports, G)
    <3> HIDE DEF E, G
    <3> QED BY <1>4, <2>1 DEF Steps
  <2>3. \A s \in SUBSET S : f[s] \in Reports
    <3> HIDE DEF E, G
    <3> QED BY <1>1, <2>2, FoldType
  <2> QED BY <1>3, <2>3
<1> HIDE DEF E, G
<1> QED BY <1>3, <1>4, <1>5, <1>6

LinksBetween(id, others) == {<<id, x>> : x \in others} \cup {<<x, id>> : x \in others}

LEMMA WithoutMore ==
  ASSUME NEW a, NEW b, NEW c, NEW L1, NEW L2, Without(b, a, L1), Without(c, b, L2)
  PROVE  Without(c, a, L1 \cup L2)
BY DEF Without

(* RemoveLinks leaves no link between the node and the others.              *)
LEMMA RemoveLinksGood ==
  ASSUME NEW state \in GoodStates, NEW id \in Nodes, NEW S \in SUBSET Nodes, IsFiniteSet(S)
  PROVE  LET r == RemoveLinks(state, id, S)
         IN  r \in Reports /\ Without(r.state, state, LinksBetween(id, S))
<1>1. PICK f \in [SUBSET S -> Reports] :
        /\ RemoveLinks(state, id, S) = f[S] /\ f[{}] = Start(state)
        /\ \A s \in SUBSET S : s # {} => \E x \in s : f[s] = AfterRemoveLink(f[s \ {x}], id, x)
  BY RemoveLinksFold
<1> DEFINE T == {s \in SUBSET S : ~Without(f[s].state, state, LinksBetween(id, s))}
<1>2. {} \notin T
  <2>1. f[{}].state = state
    BY <1>1 DEF Start, Result
  <2>2. Without(state, state, {}) /\ LinksBetween(id, {}) = {}
    BY StateParts DEF Without, LinksBetween
  <2> QED BY <2>1, <2>2
<1>3. ASSUME NEW s \in T
      PROVE  \E x \in s : s \ {x} \in T
  <2>1. s \in SUBSET S /\ s # {}
    BY <1>2
  <2>2. PICK x \in s : f[s] = AfterRemoveLink(f[s \ {x}], id, x)
    BY <1>1, <2>1
  <2> DEFINE before == f[s \ {x}].state
  <2>3. before \in GoodStates /\ x \in Nodes
    BY <2>1, ReportParts
  <2>4. Without(RemoveLink(before, id, x).state, before, {<<id, x>>, <<x, id>>})
    BY <2>3, RemoveLinkGood
  <2>5. f[s].state = RemoveLink(before, id, x).state
    BY <2>2 DEF AfterRemoveLink, Result
  <2>6. LinksBetween(id, s) = LinksBetween(id, s \ {x}) \cup {<<id, x>>, <<x, id>>}
    BY DEF LinksBetween
  <2>7. s \ {x} \in T
    <3> SUFFICES ASSUME Without(before, state, LinksBetween(id, s \ {x})) PROVE FALSE
      BY <2>1
    <3>1. Without(f[s].state, state, LinksBetween(id, s))
      <4>1. PICK after, L1, L2 :
              after = f[s].state /\ L1 = LinksBetween(id, s \ {x}) /\ L2 = {<<id, x>>, <<x, id>>}
        OBVIOUS
      <4>2. Without(before, state, L1) /\ Without(after, before, L2)
        BY <2>4, <2>5, <4>1
      <4>3. Without(after, state, L1 \cup L2)
        <5> HIDE DEF before
        <5> QED BY <4>2, WithoutMore
      <4> QED BY <2>6, <4>1, <4>3
    <3> QED BY <3>1
  <2> QED BY <2>7
<1>4. T = {}
  BY <1>2, <1>3, SetInduction
<1>5. Without(f[S].state, state, LinksBetween(id, S)) /\ f[S] \in Reports
  BY <1>4
<1> QED BY <1>1, <1>5

LEMMA SubsetFinite ==
  ASSUME NEW S \in SUBSET Nodes
  PROVE  IsFiniteSet(S)
BY ObserverAssumption, FS_Subset

LEMMA AllLinksNodes ==
  ASSUME NEW state \in GoodStates, NEW id
  PROVE  AllLinks(state, id) \in SUBSET Nodes
BY StateParts DEF AllLinks, Links

LEMMA RemoveNodeGood ==
  ASSUME NEW state \in GoodStates, NEW id \in Nodes
  PROVE  RemoveNode(state, id) \in Reports
<1> DEFINE others == AllLinks(state, id)
<1>1. others \in SUBSET Nodes /\ IsFiniteSet(others)
  BY AllLinksNodes, SubsetFinite
<1>2. PICK r \in Reports : r = RemoveLinks(state, id, others)
                           /\ Without(r.state, state, LinksBetween(id, others))
  BY <1>1, RemoveLinksGood
<1>3. CASE id \in DOMAIN state.nodes
  <2>1. PICK nodes \in NodeMaps : nodes = Delete(r.state.nodes, id)
    <3>1. PICK known \in NodeMaps : known = r.state.nodes
      BY ReportParts, StateParts
    <3>2. Delete(known, id) \in Maps(Nodes, PartialNodes)
      BY DeleteType DEF NodeMaps
    <3>3. Delete(known, id) \in NodeMaps
      BY <3>2 DEF NodeMaps, Delete
    <3> QED BY <3>1, <3>3
  <2> DEFINE new == [r.state EXCEPT !.nodes = nodes]
  <2>2. r.state \in GoodStates /\ r.state \in NetworkStates
    BY ReportParts, StateParts
  <2>3. /\ new \in NetworkStates /\ new.nodes = nodes /\ SameLinks(new, r.state)
    BY <2>2 DEF NetworkStates, SameLinks
  <2>4. \A link \in DOMAIN r.state.strong : link[1] # id /\ link[2] # id
    <3>1. ASSUME NEW link \in DOMAIN r.state.strong
          PROVE  /\ link \in DOMAIN state.strong /\ link \in Links
                 /\ link \notin LinksBetween(id, others) /\ Reversed(link) \in DOMAIN state.weak
                 /\ link = <<link[1], link[2]>> /\ Reversed(link) = <<link[2], link[1]>>
      <4>1. link \in DOMAIN state.strong /\ link \notin LinksBetween(id, others)
        BY <1>2 DEF Without
      <4>2. link \in Links /\ Reversed(link) \in DOMAIN state.weak
        BY <4>1, StateParts DEF Mutual
      <4>3. link = <<link[1], link[2]>>
        BY <4>2 DEF Links
      <4> QED BY <4>1, <4>2, <4>3 DEF Reversed
    <3>2. ASSUME NEW link \in DOMAIN r.state.strong, link[1] = id
          PROVE  FALSE
      <4>1. link[2] \in others
        BY <3>1, <3>2 DEF AllLinks
      <4>2. <<id, link[2]>> \in LinksBetween(id, others)
        <5> HIDE DEF others
        <5> QED BY <4>1 DEF LinksBetween
      <4> QED BY <3>1, <3>2, <4>2
    <3>3. ASSUME NEW link \in DOMAIN r.state.strong, link[2] = id
          PROVE  FALSE
      <4>1. <<id, link[1]>> \in DOMAIN state.weak
        BY <3>1, <3>3
      <4>2. link[1] \in others
        <5>1. PICK back : back = <<id, link[1]>>
          OBVIOUS
        <5>2. back \in DOMAIN state.weak /\ back[1] = id /\ back[2] = link[1]
          BY <4>1, <5>1
        <5> QED BY <5>2 DEF AllLinks
      <4>3. <<link[1], id>> \in LinksBetween(id, others)
        <5> HIDE DEF others
        <5> QED BY <4>2 DEF LinksBetween
      <4> QED BY <3>1, <3>3, <4>3
    <3> QED BY <3>2, <3>3
  <2> HIDE DEF new
  <2>5. Ordered(new)
    BY <2>2, <2>3, StateParts DEF Ordered, SameLinks
  <2>6. Mutual(new)
    <3>1. DOMAIN nodes = DOMAIN r.state.nodes \ {id}
      BY <2>1 DEF Delete
    <3>2. Mutual(r.state)
      BY <2>2, StateParts
    <3> QED BY <2>3, <2>4, <3>1, <3>2 DEF Mutual, SameLinks
  <2>7. new \in GoodStates
    BY <2>3, <2>5, <2>6 DEF GoodStates
  <2>8. PICK updates \in Seq(Updates) : updates = Append(r.updates, NodeRemoved(id))
    <3>1. NodeRemoved(id) \in Updates /\ r.updates \in Seq(Updates)
      BY ReportParts DEF NodeRemoved, Updates, TopologyUpdateTypes
    <3>2. Append(r.updates, NodeRemoved(id)) \in Seq(Updates)
      BY <3>1
    <3> QED BY <3>2, Zenon
  <2>9. RemoveNode(state, id) = Result(new, updates)
    BY <1>2, <1>3, <2>1, <2>8 DEF RemoveNode, new
  <2> QED BY <2>7, <2>9, IsReport
<1>4. CASE id \notin DOMAIN state.nodes
  <2>1. RemoveNode(state, id) = Result(state, <<>>) /\ <<>> \in Seq(Updates)
    BY <1>4 DEF RemoveNode
  <2> QED BY <2>1, IsReport
<1> QED BY <1>3, <1>4


AfterRemoveNode(r, id) ==
  LET next == RemoveNode(r.state, id)
  IN  Result(next.state, r.updates \o next.updates)

RemovesInto(f, state, S) ==
  /\ RemoveNodes(state, S) = f[S] /\ f[{}] = Start(state)
  /\ \A s \in SUBSET S : s # {} => \E x \in s : f[s] = AfterRemoveNode(f[s \ {x}], x)

LEMMA RemoveNodesFold ==
  ASSUME NEW state \in GoodStates, NEW S \in SUBSET Nodes
  PROVE  \E f \in [SUBSET S -> Reports] : RemovesInto(f, state, S)
<1> DEFINE G == [p \in S \X Reports |-> AfterRemoveNode(p[2], p[1])]
           E(f) == f = [s \in SUBSET S |->
                          IF s = {} THEN Start(state)
                          ELSE AfterRemoveNode(f[s \ {CHOOSE x \in s : TRUE}], CHOOSE x \in s : TRUE)]
<1>1. IsFiniteSet(S)
  BY SubsetFinite
<1>2. G \in [S \X Reports -> Reports] /\ Start(state) \in Reports
  <2>1. ASSUME NEW r \in Reports, NEW x \in S
        PROVE  AfterRemoveNode(r, x) \in Reports
    <3>1. PICK next \in Reports : next = RemoveNode(r.state, x)
      BY ReportParts, RemoveNodeGood
    <3> QED BY <3>1, Joined DEF AfterRemoveNode
  <2>2. <<>> \in Seq(Updates)
    OBVIOUS
  <2> QED BY <2>1, <2>2, IsReport DEF Start
<1>3. \E g : E(g)
  <2>1. PICK g \in [SUBSET S -> Reports] : FoldsInto(g, S, Reports, Start(state), G)
    <3> HIDE DEF G
    <3> QED BY <1>1, <1>2, FoldInto
  <2>2. \A s \in SUBSET S :
          g[s] = IF s = {} THEN Start(state)
                 ELSE AfterRemoveNode(g[s \ {CHOOSE x \in s : TRUE}], CHOOSE x \in s : TRUE)
    BY <2>1 DEF FoldsInto
  <2> QED BY <2>2
<1>4. PICK f : E(f) /\ RemoveNodes(state, S) = f[S]
  <2>1. E(CHOOSE f : E(f))
    <3> HIDE DEF E
    <3> QED BY <1>3
  <2> QED BY <2>1, Zenon DEF RemoveNodes, ForEach, FoldSet, MapThenFoldSet, AfterRemoveNode, Start
<1>5. ASSUME NEW s \in SUBSET S, s # {}
      PROVE  \E x \in s : f[s] = AfterRemoveNode(f[s \ {x}], x)
  <2>1. PICK x \in s : x = CHOOSE y \in s : TRUE
    BY <1>5
  <2> QED BY <1>4, <1>5, <2>1
<1>6. f[{}] = Start(state)
  BY <1>4
<1>7. f \in [SUBSET S -> Reports]
  <2>1. ASSUME NEW s \in SUBSET S, s # {}
        PROVE  \E x \in s : f[s \ {x}] \in Reports => f[s] = G[<<x, f[s \ {x}]>>]
    <3>1. PICK x \in s : f[s] = AfterRemoveNode(f[s \ {x}], x)
      BY <1>5, <2>1
    <3>2. f[s \ {x}] \in Reports => <<x, f[s \ {x}]>> \in S \X Reports
      OBVIOUS
    <3> QED BY <3>1, <3>2
  <2>2. Steps(f, S, Start(state), Reports, G)
    <3> HIDE DEF E, G
    <3> QED BY <1>6, <2>1 DEF Steps
  <2>3. \A s \in SUBSET S : f[s] \in Reports
    <3> HIDE DEF E, G
    <3> QED BY <1>1, <1>2, <2>2, FoldType
  <2> QED BY <1>4, <2>3
<1> HIDE DEF E, G
<1>8. RemovesInto(f, state, S)
  BY <1>4, <1>5, <1>6 DEF RemovesInto
<1> QED BY <1>7, <1>8

LEMMA RemoveNodesGood ==
  ASSUME NEW state \in GoodStates, NEW S \in SUBSET Nodes
  PROVE  RemoveNodes(state, S) \in Reports
<1>1. PICK f \in [SUBSET S -> Reports] : RemovesInto(f, state, S)
  BY RemoveNodesFold
<1>2. RemoveNodes(state, S) = f[S]
  BY <1>1 DEF RemovesInto
<1> QED BY <1>2

AfterSync(r, sourceId, links, neighbor) ==
  LET n1 == GetOrUpdateNode(r.state, OnlyId(neighbor))
      n2 == UpdateBothEnds(n1.state, sourceId, neighbor, links[neighbor])
      next == Result(n2.state, n1.updates \o n2.updates)
  IN  Result(next.state, r.updates \o next.updates)

ReportsWith(id) == {r \in Reports : id \in DOMAIN r.state.nodes}

LEMMA AfterSyncGood ==
  ASSUME NEW id \in Nodes, NEW neighbor \in Nodes \ {id}, NEW links, links[neighbor] \in LinkCosts,
         NEW r \in ReportsWith(id)
  PROVE  AfterSync(r, id, links, neighbor) \in ReportsWith(id)
<1>1. r \in Reports /\ r.state \in GoodStates /\ id \in DOMAIN r.state.nodes
  BY ReportParts DEF ReportsWith
<1>2. OnlyId(neighbor) \in PartialNodes /\ OnlyId(neighbor).id = neighbor
  BY OnlyIdType
<1>3. PICK n1 \in Reports : n1 = GetOrUpdateNode(r.state, OnlyId(neighbor))
  BY <1>1, <1>2, GetOrUpdateNodeGood
<1>4. n1.state \in GoodStates /\ {id, neighbor} \subseteq DOMAIN n1.state.nodes
  BY <1>1, <1>2, <1>3, GetOrUpdateNodeGood, ReportParts
<1>5. PICK cost \in LinkCosts : cost = links[neighbor]
  OBVIOUS
<1>6. PICK n2 \in Reports : /\ n2 = UpdateBothEnds(n1.state, id, neighbor, cost)
                            /\ n2.state.nodes = n1.state.nodes
  BY <1>4, UpdateBothEndsGood
<1>7. PICK next \in Reports : next = Result(n2.state, n1.updates \o n2.updates)
  BY Joined
<1>8. next.state = n2.state
  BY <1>7 DEF Result
<1>9. PICK result \in Reports : result = Result(next.state, r.updates \o next.updates)
  BY <1>1, Joined
<1>10. result.state = next.state
  BY <1>9 DEF Result
<1>11. AfterSync(r, id, links, neighbor) = result
  BY <1>3, <1>5, <1>6, <1>7, <1>9, Zenon DEF AfterSync
<1>12. id \in DOMAIN result.state.nodes
  BY <1>4, <1>6, <1>8, <1>10
<1> QED BY <1>11, <1>12 DEF ReportsWith

(* The updates of all the links of a node.                                  *)
SyncAll(state, id, links, S) ==
  ForEach(S, state,
          LAMBDA s, neighbor :
            LET n1 == GetOrUpdateNode(s, OnlyId(neighbor))
                n2 == UpdateBothEnds(n1.state, id, neighbor, links[neighbor])
            IN  Result(n2.state, n1.updates \o n2.updates))

SyncsInto(f, state, id, links, S) ==
  /\ SyncAll(state, id, links, S) = f[S] /\ f[{}] = Start(state)
  /\ \A s \in SUBSET S :
       s # {} => \E x \in s : f[s] = AfterSync(f[s \ {x}], id, links, x)

LEMMA SyncAllFold ==
  ASSUME NEW state \in GoodStates, NEW id \in DOMAIN state.nodes,
         NEW links, NEW S \in SUBSET (Nodes \ {id}),
         \A neighbor \in S : links[neighbor] \in LinkCosts,
         NEW R, R = ReportsWith(id)
  PROVE  \E f \in [SUBSET S -> R] : SyncsInto(f, state, id, links, S)
<1> DEFINE G == [p \in S \X R |-> AfterSync(p[2], id, links, p[1])]
           E(f) == f = [s \in SUBSET S |->
                          IF s = {} THEN Start(state)
                          ELSE AfterSync(f[s \ {CHOOSE x \in s : TRUE}], id, links,
                                         CHOOSE x \in s : TRUE)]
<1>1. IsFiniteSet(S) /\ id \in Nodes
  BY SubsetFinite, StateParts
<1>2. G \in [S \X R -> R] /\ Start(state) \in R
  <2>1. ASSUME NEW r \in R, NEW x \in S
        PROVE  AfterSync(r, id, links, x) \in R
    BY <1>1, AfterSyncGood
  <2>2. Start(state) \in R
    <3>1. <<>> \in Seq(Updates)
      OBVIOUS
    <3> QED BY <3>1, IsReport DEF Start, ReportsWith
  <2> QED BY <2>1, <2>2
<1>3. \E g : E(g)
  <2>1. PICK g \in [SUBSET S -> R] : FoldsInto(g, S, R, Start(state), G)
    <3> HIDE DEF G
    <3> QED BY <1>1, <1>2, FoldInto
  <2>2. \A s \in SUBSET S :
          g[s] = IF s = {} THEN Start(state)
                 ELSE AfterSync(g[s \ {CHOOSE x \in s : TRUE}], id, links, CHOOSE x \in s : TRUE)
    <3>1. \A s \in SUBSET S :
            g[s] = IF s = {} THEN Start(state)
                   ELSE G[<<CHOOSE x \in s : TRUE, g[s \ {CHOOSE x \in s : TRUE}]>>]
      BY <2>1, Zenon DEF FoldsInto
    <3>2. \A s \in SUBSET S :
            s # {} => g[s \ {CHOOSE x \in s : TRUE}] \in R /\ (CHOOSE x \in s : TRUE) \in S
      BY <2>1, Zenon DEF FoldsInto
    <3>3. \A x \in S, r \in R : G[<<x, r>>] = AfterSync(r, id, links, x)
      OBVIOUS
    <3> HIDE DEF G
    <3> QED BY <3>1, <3>2, <3>3, Zenon
  <2> QED BY <2>2
<1>4. PICK f : E(f) /\ SyncAll(state, id, links, S) = f[S]
  <2>1. E(CHOOSE f : E(f))
    <3> HIDE DEF E
    <3> QED BY <1>3
  <2> QED BY <2>1, Zenon DEF SyncAll, ForEach, FoldSet, MapThenFoldSet, AfterSync, Start
<1>5. ASSUME NEW s \in SUBSET S, s # {}
      PROVE  \E x \in s : f[s] = AfterSync(f[s \ {x}], id, links, x)
  <2>1. PICK x \in s : x = CHOOSE y \in s : TRUE
    BY <1>5
  <2> QED BY <1>4, <1>5, <2>1
<1>6. f[{}] = Start(state)
  BY <1>4
<1>7. f \in [SUBSET S -> R]
  <2>1. ASSUME NEW s \in SUBSET S, s # {}
        PROVE  \E x \in s : f[s \ {x}] \in R => f[s] = G[<<x, f[s \ {x}]>>]
    <3>1. PICK x \in s : f[s] = AfterSync(f[s \ {x}], id, links, x)
      BY <1>5, <2>1
    <3>2. f[s \ {x}] \in R => <<x, f[s \ {x}]>> \in S \X R
      OBVIOUS
    <3> QED BY <3>1, <3>2
  <2>2. Steps(f, S, Start(state), R, G)
    <3> HIDE DEF E, G
    <3> QED BY <1>6, <2>1 DEF Steps
  <2>3. \A s \in SUBSET S : f[s] \in R
    <3> HIDE DEF E, G
    <3> QED BY <1>1, <1>2, <2>2, FoldType
  <2> QED BY <1>4, <2>3
<1> HIDE DEF E, G
<1>8. SyncsInto(f, state, id, links, S)
  BY <1>4, <1>5, <1>6 DEF SyncsInto
<1> QED BY <1>7, <1>8

LEMMA SyncAllGood ==
  ASSUME NEW state \in GoodStates, NEW id \in DOMAIN state.nodes,
         NEW links, NEW S \in SUBSET (Nodes \ {id}),
         \A neighbor \in S : links[neighbor] \in LinkCosts,
         NEW R, R = ReportsWith(id)
  PROVE  SyncAll(state, id, links, S) \in R
<1>1. PICK f \in [SUBSET S -> R] : SyncsInto(f, state, id, links, S)
  BY SyncAllFold
<1>2. SyncAll(state, id, links, S) = f[S]
  BY <1>1 DEF SyncsInto
<1> QED BY <1>2

LEMMA SyncLinkGood ==
  ASSUME NEW state \in GoodStates, NEW id \in Nodes,
         NEW links, DOMAIN links \subseteq Nodes \ {id},
         \A neighbor \in DOMAIN links : links[neighbor] \in LinkCosts
  PROVE  SyncLink(state, id, links) \in Reports
<1>1. PICK r1 \in Reports : r1 = GetOrUpdateNode(state, OnlyId(id))
  BY OnlyIdType, GetOrUpdateNodeGood
<1>2. r1.state \in GoodStates /\ id \in DOMAIN r1.state.nodes
  BY <1>1, OnlyIdType, GetOrUpdateNodeGood, ReportParts
<1>3. PICK r2 \in Reports : r2 = SyncAll(r1.state, id, links, DOMAIN links)
  <2>1. PICK S, R : S = DOMAIN links /\ R = ReportsWith(id)
    OBVIOUS
  <2>2. SyncAll(r1.state, id, links, S) \in R
    BY <1>2, <2>1, SyncAllGood
  <2> QED BY <2>1, <2>2 DEF ReportsWith
<1>4. PICK old \in SUBSET Nodes : old = AllLinks(r2.state, id) \ DOMAIN links
  BY ReportParts, AllLinksNodes
<1>5. r2.state \in GoodStates /\ IsFiniteSet(old)
  BY ReportParts, SubsetFinite
<1>6. PICK r3 \in Reports : r3 = RemoveLinks(r2.state, id, old)
  BY <1>5, RemoveLinksGood
<1>7. SyncLink(state, id, links) = Result(r3.state, r1.updates \o r2.updates \o r3.updates)
  BY <1>1, <1>3, <1>4, <1>6, Zenon DEF SyncLink, SyncAll
<1>8. PICK updates \in Seq(Updates) : updates = r1.updates \o r2.updates \o r3.updates
  <2>1. r1.updates \in Seq(Updates) /\ r2.updates \in Seq(Updates) /\ r3.updates \in Seq(Updates)
    BY ReportParts
  <2>2. r1.updates \o r2.updates \o r3.updates \in Seq(Updates)
    BY <2>1
  <2> QED BY <2>2, Zenon
<1>9. Result(r3.state, updates) \in Reports
  BY ReportParts, IsReport
<1> QED BY <1>7, <1>8, <1>9

-----------------------------------------------------------------------------
(* Operations for each element of a list, from the first to the last.       *)
LEMMA Greatest ==
  ASSUME NEW n \in Nat, NEW s \in SUBSET (1..n), s # {}
  PROVE  Max(s) \in s
<1> DEFINE T == {n - x : x \in s}
<1>1. T \in SUBSET Nat /\ T # {}
  <2>1. \A x \in s : n - x \in Nat
    OBVIOUS
  <2> QED BY <2>1
<1>2. PICK least \in T : \A y \in T : least <= y
  <2> HIDE DEF T
  <2> QED BY <1>1, Least
<1>3. PICK x \in s : least = n - x
  OBVIOUS
<1>4. \A y \in s : x >= y
  <2>1. SUFFICES ASSUME NEW y \in s PROVE x >= y
    OBVIOUS
  <2>2. n - y \in T
    OBVIOUS
  <2>3. n - x <= n - y
    BY <1>2, <1>3, <2>2
  <2>4. x \in Nat /\ y \in Nat
    OBVIOUS
  <2> QED BY <2>3, <2>4
<1> QED BY <1>4, Zenon DEF Max

FoldsLeft(g, I, R, base, G) ==
  \A s \in SUBSET I :
    /\ g[s] = IF s = {} THEN base ELSE G[<<Max(s), g[s \ {Max(s)}]>>]
    /\ s # {} => g[s \ {Max(s)}] \in R /\ Max(s) \in s

LEMMA FoldLeftInto ==
  ASSUME NEW n \in Nat, NEW I, I = 1..n, NEW R, NEW base \in R, NEW G \in [I \X R -> R]
  PROVE  \E g \in [SUBSET I -> R] : FoldsLeft(g, I, R, base, G)
<1> DEFINE C == [s \in SUBSET I |-> Max(s)]
<1>1. \A s \in SUBSET I : s # {} => Max(s) \in s
  BY Greatest
<1>2. \A s \in SUBSET I : C[s] = Max(s)
  OBVIOUS
<1> HIDE DEF C
<1>3. IsFiniteSet(I)
  BY FS_Interval
<1>4. \A s \in SUBSET I : s # {} => C[s] \in s
  BY <1>1, <1>2
<1>5. PICK g \in [SUBSET I -> R] : Folds(g, I, base, C, G)
  BY <1>3, <1>4, FoldExists
<1>6. \A s \in SUBSET I :
        /\ g[s] = IF s = {} THEN base ELSE G[<<C[s], g[s \ {C[s]}]>>]
        /\ s # {} => g[s \ {C[s]}] \in R /\ C[s] \in s
  BY <1>4, <1>5 DEF Folds
<1>7. FoldsLeft(g, I, R, base, G)
  BY <1>2, <1>6 DEF FoldsLeft
<1> QED BY <1>5, <1>7

(* Such a fold passes through the first elements, one more at a time.       *)
LEMMA MaxOfInterval ==
  ASSUME NEW i \in Nat \ {0}
  PROVE  Max(1..i) = i /\ (1..i) \ {i} = 1..(i - 1)
<1>1. Max(1..i) \in 1..i /\ \A y \in 1..i : Max(1..i) >= y
  <2>1. \E x \in 1..i : \A y \in 1..i : x >= y
    <3>1. i \in 1..i /\ \A y \in 1..i : i >= y
      OBVIOUS
    <3> QED BY <3>1
  <2> QED BY <2>1, Zenon DEF Max
<1>2. PICK x \in 1..i : x = Max(1..i)
  BY <1>1
<1>3. x >= i
  BY <1>1, <1>2
<1> QED BY <1>2, <1>3

Passes(g, n, base, G) == g[0] = base /\ \A i \in 1..n : g[i] = G[<<i, g[i - 1]>>]

HasPasses(f, n, I, R, base, G) ==
  \E g \in [0..n -> R] : Passes(g, n, base, G) /\ g[n] = f[I]

FromTheLast(f, I, base, R, G) ==
  /\ f[{}] = base
  /\ \A s \in SUBSET I :
       s # {} => (f[s \ {Max(s)}] \in R => f[s] = G[<<Max(s), f[s \ {Max(s)}]>>])

LEMMA FoldLeftPasses ==
  ASSUME NEW n \in Nat, NEW I, I = 1..n, NEW R, NEW base \in R, NEW G \in [I \X R -> R], NEW f,
         FromTheLast(f, I, base, R, G)
  PROVE  HasPasses(f, n, I, R, base, G)
<1>1. Steps(f, I, base, R, G)
  <2>1. ASSUME NEW s \in SUBSET I, s # {}
        PROVE  \E x \in s : f[s \ {x}] \in R => f[s] = G[<<x, f[s \ {x}]>>]
    <3>1. PICK x \in s : x = Max(s)
      BY <2>1, Greatest
    <3> QED BY <2>1, <3>1 DEF FromTheLast
  <2> QED BY <2>1 DEF Steps, FromTheLast
<1>2. \A s \in SUBSET I : f[s] \in R
  <2>1. IsFiniteSet(I)
    BY FS_Interval
  <2> QED BY <1>1, <2>1, FoldType
<1> DEFINE g == [i \in 0..n |-> f[1..i]]
<1>3. \A i \in 0..n : 1..i \in SUBSET I
  OBVIOUS
<1>4. g \in [0..n -> R] /\ g[0] = base /\ g[n] = f[I]
  <2>1. 1..0 = {}
    OBVIOUS
  <2>2. f[1..0] = base
    BY <2>1 DEF FromTheLast
  <2> QED BY <1>2, <1>3, <2>2
<1>5. ASSUME NEW i \in 1..n
      PROVE  g[i] = G[<<i, g[i - 1]>>]
  <2>1. Max(1..i) = i /\ (1..i) \ {i} = 1..(i - 1) /\ i \in 0..n /\ i - 1 \in 0..n /\ 1..i # {}
    BY MaxOfInterval
  <2>2. f[1..i] = G[<<i, f[1..(i - 1)]>>]
    BY <1>2, <1>3, <2>1 DEF FromTheLast
  <2> QED BY <2>1, <2>2
<1> HIDE DEF g
<1>6. Passes(g, n, base, G)
  BY <1>4, <1>5 DEF Passes
<1> QED BY <1>4, <1>6 DEF HasPasses

(* A list without the entries of some types.                                *)
AfterKeeping(kept, entry, types) == IF entry.type \in types THEN kept ELSE Append(kept, entry)

KeepsOn(g, n, types, entries) ==
  /\ g[0] = <<>> /\ g[n] = OtherThan(types, entries)
  /\ \A i \in 1..n : g[i] = AfterKeeping(g[i - 1], entries[i], types)

LEMMA OtherThanPasses ==
  ASSUME NEW S, NEW entries \in Seq(S), NEW types, NEW K, K = {entry \in S : entry.type \notin types},
         NEW R, R = Seq(K)
  PROVE  \E g \in [0..Len(entries) -> R] : KeepsOn(g, Len(entries), types, entries)
<1>1. PICK n, I : n \in Nat /\ n = Len(entries) /\ I = 1..n
  OBVIOUS
<1>2. DOMAIN entries = I /\ IsFiniteSet(I) /\ \A i \in I : entries[i] \in S
  BY <1>1, FS_Interval
<1> DEFINE G == [p \in I \X R |-> AfterKeeping(p[2], entries[p[1]], types)]
           E(f) == f = [s \in SUBSET DOMAIN entries |->
                          IF s = {} THEN <<>>
                          ELSE AfterKeeping(f[s \ {Max(s)}], entries[Max(s)], types)]
<1>3. G \in [I \X R -> R] /\ <<>> \in R
  <2>1. ASSUME NEW kept \in R, NEW i \in I
        PROVE  AfterKeeping(kept, entries[i], types) \in R
    <3>1. PICK entry \in S : entry = entries[i]
      BY <1>2
    <3> QED BY <3>1 DEF AfterKeeping
  <2>2. <<>> \in R
    OBVIOUS
  <2>3. \A p \in I \X R : AfterKeeping(p[2], entries[p[1]], types) \in R
    BY <2>1
  <2> QED BY <2>2, <2>3
<1>4. \E g : E(g)
  <2>1. PICK g \in [SUBSET I -> R] : FoldsLeft(g, I, R, <<>>, G)
    <3> HIDE DEF G
    <3> QED BY <1>1, <1>3, FoldLeftInto
  <2>2. ASSUME NEW s \in SUBSET I
        PROVE  g[s] = IF s = {} THEN <<>> ELSE AfterKeeping(g[s \ {Max(s)}], entries[Max(s)], types)
    <3>1. CASE s # {}
      <4>1. g[s] = G[<<Max(s), g[s \ {Max(s)}]>>] /\ g[s \ {Max(s)}] \in R /\ Max(s) \in I
        <5> HIDE DEF G
        <5> QED BY <2>1, <3>1 DEF FoldsLeft
      <4> QED BY <3>1, <4>1
    <3> QED BY <2>1, <3>1 DEF FoldsLeft
  <2> QED BY <1>2, <2>2
<1>5. PICK f : E(f) /\ OtherThan(types, entries) = f[DOMAIN entries]
  <2>1. E(CHOOSE f : E(f))
    <3> HIDE DEF E
    <3> QED BY <1>4
  <2> QED BY <2>1, Zenon DEF OtherThan, FoldLeft, MapThenFoldSet, AfterKeeping
<1>6. ASSUME NEW s \in SUBSET I, s # {}, f[s \ {Max(s)}] \in R
      PROVE  f[s] = G[<<Max(s), f[s \ {Max(s)}]>>]
  <2>1. Max(s) \in I
    BY <1>1, <1>6, Greatest
  <2>2. f[s] = AfterKeeping(f[s \ {Max(s)}], entries[Max(s)], types)
    BY <1>2, <1>5, <1>6
  <2> QED BY <1>6, <2>1, <2>2
<1>7. f[{}] = <<>>
  BY <1>5
<1>8. FromTheLast(f, I, <<>>, R, G)
  <2> HIDE DEF E, G
  <2> QED BY <1>6, <1>7 DEF FromTheLast
<1>9. PICK g \in [0..n -> R] : Passes(g, n, <<>>, G) /\ g[n] = f[I]
  <2> HIDE DEF E, G
  <2>1. n \in Nat /\ I = 1..n
    BY <1>1
  <2>2. HasPasses(f, n, I, R, <<>>, G)
    BY <1>3, <1>8, <2>1, FoldLeftPasses
  <2> QED BY <2>2, Zenon DEF HasPasses
<1>10. ASSUME NEW i \in 1..n
       PROVE  g[i] = AfterKeeping(g[i - 1], entries[i], types)
  <2>1. g[i] = G[<<i, g[i - 1]>>]
    <3> HIDE DEF E, G
    <3> QED BY <1>9 DEF Passes
  <2>2. g[i - 1] \in R /\ i \in I
    BY <1>1
  <2> QED BY <2>1, <2>2
<1>11. g[0] = <<>> /\ g[n] = OtherThan(types, entries)
  <2> HIDE DEF E, G
  <2> QED BY <1>2, <1>5, <1>9 DEF Passes
<1> HIDE DEF E, G
<1>12. KeepsOn(g, n, types, entries)
  BY <1>10, <1>11 DEF KeepsOn
<1> QED BY <1>1, <1>12

LEMMA OtherThanType ==
  ASSUME NEW S, NEW entries \in Seq(S), NEW types, NEW K, K = {entry \in S : entry.type \notin types},
         NEW R, R = Seq(K)
  PROVE  OtherThan(types, entries) \in R
<1>1. PICK g \in [0..Len(entries) -> R] : KeepsOn(g, Len(entries), types, entries)
  BY OtherThanPasses
<1>2. OtherThan(types, entries) = g[Len(entries)] /\ Len(entries) \in 0..Len(entries)
  BY <1>1 DEF KeepsOn
<1> QED BY <1>2


-----------------------------------------------------------------------------
(* Updates that are applied to a copy.                                      *)
LEMMA ApplyUpdateGood ==
  ASSUME NEW state \in GoodStates, NEW update \in TopologyUpdateTypes
  PROVE  ApplyUpdate(state, update) \in Reports
<1>1. CASE update \in [type : {"NodeUpdated"}, node : PartialNodes]
  <2>1. ApplyUpdate(state, update) = GetOrUpdateNode(state, update.node) /\ update.node \in PartialNodes
    BY <1>1 DEF ApplyUpdate, UpdateNode
  <2> QED BY <2>1, GetOrUpdateNodeGood
<1>2. CASE update \in [type : {"NodeRemoved"}, id : Nodes]
  <2>1. ApplyUpdate(state, update) = RemoveNode(state, update.id) /\ update.id \in Nodes
    BY <1>2 DEF ApplyUpdate
  <2> QED BY <2>1, RemoveNodeGood
<1>3. CASE update \in {u \in [type : {"LinkUpdated"}, source : Nodes, destination : Nodes,
                              linkCost : LinkCosts] : u.source # u.destination}
  <2>1. /\ ApplyUpdate(state, update) =
              UpdateLink(state, OnlyId(update.source), OnlyId(update.destination), update.linkCost)
        /\ update.source \in Nodes /\ update.destination \in Nodes
        /\ update.source # update.destination /\ update.linkCost \in LinkCosts
    BY <1>3 DEF ApplyUpdate
  <2>2. PICK a \in PartialNodes, b \in PartialNodes, c \in LinkCosts :
          a = OnlyId(update.source) /\ b = OnlyId(update.destination) /\ c = update.linkCost /\ a.id # b.id
    BY <2>1, OnlyIdType
  <2>3. UpdateLink(state, a, b, c) \in Reports
    BY <2>2, UpdateLinkGood
  <2> QED BY <2>1, <2>2, <2>3
<1>4. CASE update \in [type : {"LinkRemoved"}, source : Nodes, destination : Nodes]
  <2>1. /\ ApplyUpdate(state, update) = RemoveLink(state, update.source, update.destination)
        /\ update.source \in Nodes /\ update.destination \in Nodes
    BY <1>4 DEF ApplyUpdate
  <2> QED BY <2>1, RemoveLinkGood
<1> QED BY <1>1, <1>2, <1>3, <1>4 DEF TopologyUpdateTypes

AfterUpdate(r, update) ==
  LET next == ApplyUpdate(r.state, update)
  IN  Result(next.state, r.updates \o next.updates)

AppliesOn(g, n, state, updates) ==
  /\ g[0] = Start(state) /\ g[n] = ApplyUpdates(state, updates)
  /\ \A i \in 1..n : g[i] = AfterUpdate(g[i - 1], updates[i])

LEMMA ApplyUpdatesPasses ==
  ASSUME NEW state \in GoodStates, NEW updates \in Seq(TopologyUpdateTypes)
  PROVE  \E g \in [0..Len(updates) -> Reports] : AppliesOn(g, Len(updates), state, updates)
<1>1. PICK n, I : n \in Nat /\ n = Len(updates) /\ I = 1..n
  OBVIOUS
<1>2. DOMAIN updates = I /\ IsFiniteSet(I) /\ \A i \in I : updates[i] \in TopologyUpdateTypes
  BY <1>1, FS_Interval
<1> DEFINE G == [p \in I \X Reports |-> AfterUpdate(p[2], updates[p[1]])]
           E(f) == f = [s \in SUBSET DOMAIN updates |->
                          IF s = {} THEN Start(state)
                          ELSE AfterUpdate(f[s \ {Max(s)}], updates[Max(s)])]
<1>3. G \in [I \X Reports -> Reports] /\ Start(state) \in Reports
  <2>1. ASSUME NEW r \in Reports, NEW i \in I
        PROVE  AfterUpdate(r, updates[i]) \in Reports
    <3>1. PICK x \in TopologyUpdateTypes : x = updates[i]
      BY <1>2
    <3>2. PICK next \in Reports : next = ApplyUpdate(r.state, x)
      BY ReportParts, ApplyUpdateGood
    <3> QED BY <3>1, <3>2, Joined DEF AfterUpdate
  <2>2. <<>> \in Seq(Updates)
    OBVIOUS
  <2>3. \A p \in I \X Reports : AfterUpdate(p[2], updates[p[1]]) \in Reports
    BY <2>1
  <2> QED BY <2>2, <2>3, IsReport DEF Start
<1>4. \E g : E(g)
  <2>1. PICK g \in [SUBSET I -> Reports] : FoldsLeft(g, I, Reports, Start(state), G)
    <3> HIDE DEF G
    <3> QED BY <1>1, <1>3, FoldLeftInto
  <2>2. ASSUME NEW s \in SUBSET I
        PROVE  g[s] = IF s = {} THEN Start(state) ELSE AfterUpdate(g[s \ {Max(s)}], updates[Max(s)])
    <3>1. CASE s # {}
      <4>1. g[s] = G[<<Max(s), g[s \ {Max(s)}]>>] /\ g[s \ {Max(s)}] \in Reports /\ Max(s) \in I
        <5> HIDE DEF G
        <5> QED BY <2>1, <3>1 DEF FoldsLeft
      <4> QED BY <3>1, <4>1
    <3> QED BY <2>1, <3>1 DEF FoldsLeft
  <2> QED BY <1>2, <2>2
<1>5. PICK f : E(f) /\ ApplyUpdates(state, updates) = f[DOMAIN updates]
  <2>1. E(CHOOSE f : E(f))
    <3> HIDE DEF E
    <3> QED BY <1>4
  <2> QED BY <2>1, Zenon DEF ApplyUpdates, FoldLeft, MapThenFoldSet, AfterUpdate, Start
<1>6. ASSUME NEW s \in SUBSET I, s # {}, f[s \ {Max(s)}] \in Reports
      PROVE  f[s] = G[<<Max(s), f[s \ {Max(s)}]>>]
  <2>1. Max(s) \in I
    BY <1>1, <1>6, Greatest
  <2>2. f[s] = AfterUpdate(f[s \ {Max(s)}], updates[Max(s)])
    BY <1>2, <1>5, <1>6
  <2> QED BY <1>6, <2>1, <2>2
<1>7. f[{}] = Start(state)
  BY <1>5
<1>8. FromTheLast(f, I, Start(state), Reports, G)
  <2> HIDE DEF E, G
  <2> QED BY <1>6, <1>7 DEF FromTheLast
<1>9. PICK g \in [0..n -> Reports] : Passes(g, n, Start(state), G) /\ g[n] = f[I]
  <2> HIDE DEF E, G
  <2>1. n \in Nat /\ I = 1..n
    BY <1>1
  <2>2. HasPasses(f, n, I, Reports, Start(state), G)
    BY <1>3, <1>8, <2>1, FoldLeftPasses
  <2> QED BY <2>2, Zenon DEF HasPasses
<1>10. ASSUME NEW i \in 1..n
       PROVE  g[i] = AfterUpdate(g[i - 1], updates[i])
  <2>1. g[i] = G[<<i, g[i - 1]>>]
    <3> HIDE DEF E, G
    <3> QED BY <1>9 DEF Passes
  <2>2. g[i - 1] \in Reports /\ i \in I
    BY <1>1
  <2> QED BY <2>1, <2>2
<1>11. g[0] = Start(state) /\ g[n] = ApplyUpdates(state, updates)
  <2> HIDE DEF E, G
  <2> QED BY <1>2, <1>5, <1>9 DEF Passes
<1> HIDE DEF E, G
<1>12. AppliesOn(g, n, state, updates)
  BY <1>10, <1>11 DEF AppliesOn
<1> QED BY <1>1, <1>12

LEMMA ApplyUpdatesGood ==
  ASSUME NEW state \in GoodStates, NEW updates \in Seq(TopologyUpdateTypes)
  PROVE  ApplyUpdates(state, updates) \in Reports
<1>1. PICK g \in [0..Len(updates) -> Reports] : AppliesOn(g, Len(updates), state, updates)
  BY ApplyUpdatesPasses
<1>2. ApplyUpdates(state, updates) = g[Len(updates)] /\ Len(updates) \in 0..Len(updates)
  BY <1>1 DEF AppliesOn
<1> QED BY <1>2

-----------------------------------------------------------------------------
(* What nodes tell.                                                         *)
Notifications(n) ==
  {SelfUpdated(cost) : cost \in Costs} \cup {FrameReceived}
  \cup {NeighborUpdated(m) : m \in DOMAIN LinkCost[n]}
  \cup {NeighborRemoved(m) : m \in DOMAIN LinkCost[n]}

LEMMA LinkCostType ==
  ASSUME NEW n \in Nodes
  PROVE  /\ DOMAIN LinkCost[n] \subseteq Nodes \ {n}
         /\ \A m \in DOMAIN LinkCost[n] : LinkCost[n][m] \in LinkCosts
BY ObserverAssumption DEF LinkCosts

LEMMA OnNotificationEntryGood ==
  ASSUME NEW state \in GoodStates, NEW n \in Nodes, NEW entry \in Notifications(n)
  PROVE  OnNotificationEntry(state, n, entry) \in Reports
<1>1. CASE entry \in {SelfUpdated(cost) : cost \in Costs}
  <2>1. PICK cost \in Costs : entry = SelfUpdated(cost)
    BY <1>1
  <2>2. PICK a \in PartialNodes : a = PartialNode(n, cost, None)
    BY DEF PartialNode, PartialNodes
  <2>3. OnNotificationEntry(state, n, entry) = GetOrUpdateNode(state, a)
    BY <2>1, <2>2 DEF OnNotificationEntry, SelfUpdated, UpdateNode
  <2> QED BY <2>3, GetOrUpdateNodeGood
<1>2. CASE entry = FrameReceived
  <2>1. OnNotificationEntry(state, n, entry) = Result(state, <<FrameReceived>>)
    BY <1>2 DEF OnNotificationEntry, FrameReceived
  <2>2. <<FrameReceived>> \in Seq(Updates)
    <3>1. FrameReceived \in Updates
      BY DEF Updates
    <3> QED BY <3>1
  <2> QED BY <2>1, <2>2, IsReport
<1>3. CASE entry \in {NeighborUpdated(m) : m \in DOMAIN LinkCost[n]}
  <2>1. PICK m \in DOMAIN LinkCost[n] : entry = NeighborUpdated(m)
    BY <1>3
  <2>2. m \in Nodes /\ m # n /\ LinkCost[n][m] \in LinkCosts
    BY LinkCostType
  <2>3. PICK a \in PartialNodes, b \in PartialNodes, c \in LinkCosts :
          a = OnlyId(n) /\ b = OnlyId(m) /\ c = LinkCost[n][m] /\ a.id # b.id
    BY <2>2, OnlyIdType
  <2>4. UpdateLink(state, a, b, c) \in Reports
    BY <2>3, UpdateLinkGood
  <2>5. OnNotificationEntry(state, n, entry) = UpdateLink(state, OnlyId(n), OnlyId(m), LinkCost[n][m])
    BY <2>1 DEF OnNotificationEntry, NeighborUpdated
  <2> QED BY <2>3, <2>4, <2>5
<1>4. CASE entry \in {NeighborRemoved(m) : m \in DOMAIN LinkCost[n]}
  <2>1. PICK m \in DOMAIN LinkCost[n] : entry = NeighborRemoved(m)
    BY <1>4
  <2>2. m \in Nodes
    BY LinkCostType
  <2>3. OnNotificationEntry(state, n, entry) = RemoveLink(state, n, m)
    BY <2>1 DEF OnNotificationEntry, NeighborRemoved
  <2> QED BY <2>2, <2>3, RemoveLinkGood
<1> QED BY <1>1, <1>2, <1>3, <1>4 DEF Notifications

EntriesTaken(state, source, entries) ==
  FoldLeft(LAMBDA result, entry :
             LET next == OnNotificationEntry(result.state, source, entry)
             IN  Result(next.state, result.updates \o next.updates),
           Result(state, <<>>), entries)

AfterEntry(r, source, entry) ==
  LET next == OnNotificationEntry(r.state, source, entry)
  IN  Result(next.state, r.updates \o next.updates)

TakesOn(g, n, state, source, entries) ==
  /\ g[0] = Start(state) /\ g[n] = EntriesTaken(state, source, entries)
  /\ \A i \in 1..n : g[i] = AfterEntry(g[i - 1], source, entries[i])

LEMMA EntriesTakenPasses ==
  ASSUME NEW state \in GoodStates, NEW source \in Nodes, NEW entries \in Seq(Notifications(source))
  PROVE  \E g \in [0..Len(entries) -> Reports] : TakesOn(g, Len(entries), state, source, entries)
<1>1. PICK n, I : n \in Nat /\ n = Len(entries) /\ I = 1..n
  OBVIOUS
<1>2. DOMAIN entries = I /\ IsFiniteSet(I) /\ \A i \in I : entries[i] \in Notifications(source)
  BY <1>1, FS_Interval
<1> DEFINE G == [p \in I \X Reports |-> AfterEntry(p[2], source, entries[p[1]])]
           E(f) == f = [s \in SUBSET DOMAIN entries |->
                          IF s = {} THEN Start(state)
                          ELSE AfterEntry(f[s \ {Max(s)}], source, entries[Max(s)])]
<1>3. G \in [I \X Reports -> Reports] /\ Start(state) \in Reports
  <2>1. ASSUME NEW r \in Reports, NEW i \in I
        PROVE  AfterEntry(r, source, entries[i]) \in Reports
    <3>1. PICK x \in Notifications(source) : x = entries[i]
      BY <1>2
    <3>2. PICK next \in Reports : next = OnNotificationEntry(r.state, source, x)
      BY ReportParts, OnNotificationEntryGood
    <3> QED BY <3>1, <3>2, Joined DEF AfterEntry
  <2>2. <<>> \in Seq(Updates)
    OBVIOUS
  <2>3. \A p \in I \X Reports : AfterEntry(p[2], source, entries[p[1]]) \in Reports
    BY <2>1
  <2> QED BY <2>2, <2>3, IsReport DEF Start
<1>4. \E g : E(g)
  <2>1. PICK g \in [SUBSET I -> Reports] : FoldsLeft(g, I, Reports, Start(state), G)
    <3> HIDE DEF G
    <3> QED BY <1>1, <1>3, FoldLeftInto
  <2>2. ASSUME NEW s \in SUBSET I
        PROVE  g[s] = IF s = {} THEN Start(state) ELSE AfterEntry(g[s \ {Max(s)}], source, entries[Max(s)])
    <3>1. CASE s # {}
      <4>1. g[s] = G[<<Max(s), g[s \ {Max(s)}]>>] /\ g[s \ {Max(s)}] \in Reports /\ Max(s) \in I
        <5> HIDE DEF G
        <5> QED BY <2>1, <3>1 DEF FoldsLeft
      <4> QED BY <3>1, <4>1
    <3> QED BY <2>1, <3>1 DEF FoldsLeft
  <2> QED BY <1>2, <2>2
<1>5. PICK f : E(f) /\ EntriesTaken(state, source, entries) = f[DOMAIN entries]
  <2>1. E(CHOOSE f : E(f))
    <3> HIDE DEF E
    <3> QED BY <1>4
  <2> QED BY <2>1, Zenon DEF EntriesTaken, FoldLeft, MapThenFoldSet, AfterEntry, Start
<1>6. ASSUME NEW s \in SUBSET I, s # {}, f[s \ {Max(s)}] \in Reports
      PROVE  f[s] = G[<<Max(s), f[s \ {Max(s)}]>>]
  <2>1. Max(s) \in I
    BY <1>1, <1>6, Greatest
  <2>2. f[s] = AfterEntry(f[s \ {Max(s)}], source, entries[Max(s)])
    BY <1>2, <1>5, <1>6
  <2> QED BY <1>6, <2>1, <2>2
<1>7. f[{}] = Start(state)
  BY <1>5
<1>8. FromTheLast(f, I, Start(state), Reports, G)
  <2> HIDE DEF E, G
  <2> QED BY <1>6, <1>7 DEF FromTheLast
<1>9. PICK g \in [0..n -> Reports] : Passes(g, n, Start(state), G) /\ g[n] = f[I]
  <2> HIDE DEF E, G
  <2>1. n \in Nat /\ I = 1..n
    BY <1>1
  <2>2. HasPasses(f, n, I, Reports, Start(state), G)
    BY <1>3, <1>8, <2>1, FoldLeftPasses
  <2> QED BY <2>2, Zenon DEF HasPasses
<1>10. ASSUME NEW i \in 1..n
       PROVE  g[i] = AfterEntry(g[i - 1], source, entries[i])
  <2>1. g[i] = G[<<i, g[i - 1]>>]
    <3> HIDE DEF E, G
    <3> QED BY <1>9 DEF Passes
  <2>2. g[i - 1] \in Reports /\ i \in I
    BY <1>1
  <2> QED BY <2>1, <2>2
<1>11. g[0] = Start(state) /\ g[n] = EntriesTaken(state, source, entries)
  <2> HIDE DEF E, G
  <2> QED BY <1>2, <1>5, <1>9 DEF Passes
<1> HIDE DEF E, G
<1>12. TakesOn(g, n, state, source, entries)
  BY <1>10, <1>11 DEF TakesOn
<1> QED BY <1>1, <1>12

LEMMA EntriesTakenGood ==
  ASSUME NEW state \in GoodStates, NEW source \in Nodes, NEW entries \in Seq(Notifications(source))
  PROVE  EntriesTaken(state, source, entries) \in Reports
<1>1. PICK g \in [0..Len(entries) -> Reports] : TakesOn(g, Len(entries), state, source, entries)
  BY EntriesTakenPasses
<1>2. EntriesTaken(state, source, entries) = g[Len(entries)] /\ Len(entries) \in 0..Len(entries)
  BY <1>1 DEF TakesOn
<1> QED BY <1>2

NotificationFrames(n) ==
  [type : {"Notification"}, source : {n}, entries : Seq(Notifications(n))]
SyncFrames(n) ==
  [type : {"Sync"}, source : {n}, cost : Costs, neighbors : SUBSET DOMAIN LinkCost[n]]
NodeFrames == UNION {NotificationFrames(n) \cup SyncFrames(n) : n \in Nodes}

LEMMA SyncGood ==
  ASSUME NEW state \in GoodStates, NEW frame, NEW n \in Nodes,
         frame.source = n, frame.cost \in Costs, frame.neighbors \in SUBSET DOMAIN LinkCost[n]
  PROVE  OnReceiveNodeSyncFrame(state, frame) \in Reports
<1>1. PICK a \in PartialNodes : a = PartialNode(n, frame.cost, None)
  BY DEF PartialNode, PartialNodes
<1>2. PICK r1 \in Reports : r1 = UpdateNode(state, a)
  BY GetOrUpdateNodeGood DEF UpdateNode
<1>3. PICK links : links = [m \in frame.neighbors |-> LinkCost[n][m]]
  OBVIOUS
<1>4. DOMAIN links \subseteq Nodes \ {n} /\ \A m \in DOMAIN links : links[m] \in LinkCosts
  BY <1>3, LinkCostType
<1>5. PICK r2 \in Reports : r2 = SyncLink(r1.state, n, links)
  BY <1>4, ReportParts, SyncLinkGood
<1>6. OnReceiveNodeSyncFrame(state, frame) = Result(r2.state, r1.updates \o r2.updates)
  BY <1>1, <1>2, <1>3, <1>5, Zenon DEF OnReceiveNodeSyncFrame
<1> QED BY <1>6, Joined

LEMMA TakenGood ==
  ASSUME NEW state \in GoodStates, NEW frame \in NodeFrames
  PROVE  Taken(state, frame) \in Reports
<1>1. PICK n \in Nodes : frame \in NotificationFrames(n) \cup SyncFrames(n)
  BY DEF NodeFrames
<1>2. CASE frame \in SyncFrames(n)
  <2>1. /\ frame.type = "Sync" /\ frame.source = n /\ frame.cost \in Costs
        /\ frame.neighbors \in SUBSET DOMAIN LinkCost[n]
    BY <1>2 DEF SyncFrames
  <2>2. Taken(state, frame) = OnReceiveNodeSyncFrame(state, frame)
    BY <2>1 DEF Taken
  <2> QED BY <2>1, <2>2, SyncGood
<1>3. CASE frame \in NotificationFrames(n)
  <2>1. frame.type = "Notification" /\ frame.source = n /\ frame.entries \in Seq(Notifications(n))
    BY <1>3 DEF NotificationFrames
  <2>2. Taken(state, frame) = EntriesTaken(state, frame.source, frame.entries)
    BY <2>1 DEF Taken, OnReceiveNodeNotificationFrame, EntriesTaken
  <2> QED BY <2>1, <2>2, EntriesTakenGood
<1> QED BY <1>1, <1>2, <1>3

-----------------------------------------------------------------------------
(* Everything that a state says, for a client that is new.                  *)
LEMMA ImageFinite ==
  ASSUME NEW S, IsFiniteSet(S), NEW f
  PROVE  IsFiniteSet({f[x] : x \in S})
<1> DEFINE T == {f[x] : x \in S}
           g == [x \in S |-> f[x]]
<1>1. g \in Surjection(S, T)
  BY DEF Surjection
<1> QED BY <1>1, FS_Surjection

LEMMA SeqSubset ==
  ASSUME NEW S, NEW T, S \subseteq T, NEW s \in Seq(S)
  PROVE  s \in Seq(T)
OBVIOUS

(* The updates that a dump holds.                                           *)
NodesOf(state) == {NodeUpdated(state.nodes[id]) : id \in DOMAIN state.nodes}
LinksOf(state) == {LinkUpdated(link[1], link[2], state.strong[link]) : link \in DOMAIN state.strong}

LEMMA DumpParts ==
  ASSUME NEW state \in GoodStates
  PROVE  /\ IsFiniteSet(NodesOf(state)) /\ NodesOf(state) \subseteq Entries
         /\ IsFiniteSet(LinksOf(state)) /\ LinksOf(state) \subseteq Entries
         /\ DumpAsUpdates(state) = Listed(NodesOf(state)) \o Listed(LinksOf(state))
<1> DEFINE A == NodesOf(state)
           B == LinksOf(state)
<1>1. IsFiniteSet(A)
  <2> DEFINE f == [id \in DOMAIN state.nodes |-> NodeUpdated(state.nodes[id])]
  <2>1. A = {f[id] : id \in DOMAIN state.nodes}
    BY DEF NodesOf
  <2>2. IsFiniteSet(DOMAIN state.nodes)
    BY StateParts, SubsetFinite
  <2> HIDE DEF f, A
  <2> QED BY <2>1, <2>2, ImageFinite
<1>2. IsFiniteSet(B)
  <2> DEFINE f == [link \in DOMAIN state.strong |-> LinkUpdated(link[1], link[2], state.strong[link])]
  <2>1. B = {f[link] : link \in DOMAIN state.strong}
    BY DEF LinksOf
  <2>2. IsFiniteSet(DOMAIN state.strong)
    <3>1. DOMAIN state.strong \subseteq Nodes \X Nodes
      BY StateParts DEF Links
    <3>2. IsFiniteSet(Nodes \X Nodes)
      BY ObserverAssumption, FS_Product
    <3> QED BY <3>1, <3>2, FS_Subset
  <2> HIDE DEF f, B
  <2> QED BY <2>1, <2>2, ImageFinite
<1>3. A \subseteq Entries
  <2>1. \A id \in DOMAIN state.nodes : state.nodes[id] \in PartialNodes
    BY StateParts, MapFacts
  <2> QED BY <2>1 DEF NodesOf, NodeUpdated, Entries, Updates, TopologyUpdateTypes
<1>4. B \subseteq Entries
  <2>1. ASSUME NEW link \in DOMAIN state.strong
        PROVE  LinkUpdated(link[1], link[2], state.strong[link]) \in Entries
    <3>1. state.strong[link] \in LinkCosts
      BY StateParts, MapFacts
    <3>2. link \in Links
      BY StateParts
    <3>3. link[1] \in Nodes /\ link[2] \in Nodes /\ link[1] # link[2]
      BY <3>2 DEF Links
    <3> QED BY <3>1, <3>3 DEF LinkUpdated, Entries, Updates, TopologyUpdateTypes
  <2> QED BY <2>1 DEF LinksOf
<1>5. DumpAsUpdates(state) = Listed(A) \o Listed(B)
  BY DEF DumpAsUpdates, NodesOf, LinksOf
<1> QED BY <1>1, <1>2, <1>3, <1>4, <1>5

LEMMA DumpType ==
  ASSUME NEW state \in GoodStates
  PROVE  DumpAsUpdates(state) \in Seq(Entries)
<1>1. PICK A, B : A = NodesOf(state) /\ B = LinksOf(state)
  OBVIOUS
<1>2. Listed(A) \in Seq(Entries) /\ Listed(B) \in Seq(Entries)
  BY <1>1, DumpParts, ListedType, SeqSubset
<1>3. DumpAsUpdates(state) = Listed(A) \o Listed(B)
  BY <1>1, DumpParts
<1> QED BY <1>2, <1>3, ConcatProperties

LEMMA IntoEntriesType ==
  ASSUME NEW updates \in Seq(Updates)
  PROVE  IntoNotificationEntries(updates) \in Seq(Entries)
<1>1. PICK K, R : K = {u \in Updates : u.type \notin {"NodeRemoved"}} /\ R = Seq(K)
  OBVIOUS
<1>2. OtherThan({"NodeRemoved"}, updates) \in R
  BY <1>1, OtherThanType
<1>3. K = Entries
  BY <1>1 DEF Entries
<1> QED BY <1>1, <1>2, <1>3 DEF IntoNotificationEntries

LEMMA TopologyUpdatesType ==
  ASSUME NEW entries \in Seq(Entries)
  PROVE  /\ TopologyUpdates(entries) \in Seq(TopologyEntries)
         /\ TopologyUpdates(entries) \in Seq(TopologyUpdateTypes)
<1>1. PICK K, R : K = {u \in Entries : u.type \notin {"FrameReceived"}} /\ R = Seq(K)
  OBVIOUS
<1>2. OtherThan({"FrameReceived"}, entries) \in R
  BY <1>1, OtherThanType
<1>3. K = TopologyEntries /\ TopologyEntries \subseteq TopologyUpdateTypes
  BY <1>1 DEF TopologyEntries, Entries, Updates, FrameReceived
<1>4. OtherThan({"FrameReceived"}, entries) \in Seq(TopologyUpdateTypes)
  BY <1>1, <1>2, <1>3, SeqSubset
<1> QED BY <1>1, <1>2, <1>3, <1>4 DEF TopologyUpdates

LEMMA PruneLaterType ==
  ASSUME NEW state \in GoodStates, NEW prunes \in Seq(SUBSET Nodes)
  PROVE  PruneLater(prunes, state) \in Seq(SUBSET Nodes)
<1>1. PICK unreachable : unreachable = UnreachableNodes(state, Sink)
  OBVIOUS
<1>2. unreachable \in SUBSET Nodes
  BY <1>1, StateParts DEF UnreachableNodes
<1> QED BY <1>1, <1>2 DEF PruneLater

LEMMA PrunedGood ==
  ASSUME NEW state \in GoodStates, NEW unreachable \in SUBSET Nodes
  PROVE  Pruned(state, unreachable) \in GoodStates
<1>1. PICK S \in SUBSET Nodes : S = unreachable \cap UnreachableNodes(state, Sink)
  OBVIOUS
<1>2. RemoveNodes(state, S).state \in GoodStates
  BY RemoveNodesGood, ReportParts
<1> QED BY <1>1, <1>2 DEF Pruned

LEMMA RemoveAtType ==
  ASSUME NEW S, NEW s \in Seq(S), NEW i \in DOMAIN s
  PROVE  RemoveAt(s, i) \in Seq(S)
<1>1. i \in 1..Len(s) /\ Len(s) \in Nat
  OBVIOUS
<1>2. SubSeq(s, 1, i - 1) \in Seq(S)
  BY <1>1, SubSeqProperties
<1>3. SubSeq(s, i + 1, Len(s)) \in Seq(S)
  BY <1>1, SubSeqProperties
<1> QED BY <1>2, <1>3, ConcatProperties DEF RemoveAt

-----------------------------------------------------------------------------
(* A network that has settled.                                              *)
SettledFrame(n) == [source |-> n, cost |-> FirstCost, neighbors |-> Neighbors(SettledLinks, n)]

LEMMA NeighborsType ==
  ASSUME NEW n \in Nodes, NEW links \in {FreshLinks, SettledLinks}
  PROVE  Neighbors(links, n) \in SUBSET DOMAIN LinkCost[n]
<1>1. ASSUME NEW m \in Neighbors(links, n)
      PROVE  m \in DOMAIN LinkCost[n]
  <2>1. PICK link \in FreshLinks \cup SettledLinks : link = <<n, m>> \/ link = <<m, n>>
    BY DEF Neighbors
  <2>2. link[1] \in DOMAIN LinkCost[link[2]] /\ link[2] \in DOMAIN LinkCost[link[1]]
    BY ObserverAssumption
  <2> QED BY <2>1, <2>2
<1> QED BY <1>1

LEMMA SettledStateGood == SettledState \in GoodStates
<1> DEFINE Step(n, state) == OnReceiveNodeSyncFrame(state, SettledFrame(n)).state
           G == [p \in Nodes \X GoodStates |-> Step(p[1], p[2])]
           E(f) == f = [s \in SUBSET Nodes |->
                          IF s = {} THEN NewNetworkState
                          ELSE Step(CHOOSE x \in s : TRUE, f[s \ {CHOOSE x \in s : TRUE}])]
<1>1. IsFiniteSet(Nodes) /\ NewNetworkState \in GoodStates
  BY ObserverAssumption, NewStateGood
<1>2. G \in [Nodes \X GoodStates -> GoodStates]
  <2>1. ASSUME NEW n \in Nodes, NEW state \in GoodStates
        PROVE  Step(n, state) \in GoodStates
    <3>1. PICK frame : frame = SettledFrame(n)
      OBVIOUS
    <3>2. /\ frame.source = n /\ frame.cost \in Costs
          /\ frame.neighbors \in SUBSET DOMAIN LinkCost[n]
      BY <3>1, NeighborsType, ObserverAssumption DEF SettledFrame
    <3>3. OnReceiveNodeSyncFrame(state, frame).state \in GoodStates
      BY <3>2, SyncGood, ReportParts
    <3> QED BY <3>1, <3>3
  <2> HIDE DEF Step
  <2> QED BY <2>1
<1>3. \E g : E(g)
  <2> HIDE DEF Step
  <2>1. PICK g \in [SUBSET Nodes -> GoodStates] : FoldsInto(g, Nodes, GoodStates, NewNetworkState, G)
    <3> HIDE DEF G
    <3> QED BY <1>1, <1>2, FoldInto
  <2>2. \A s \in SUBSET Nodes :
          g[s] = IF s = {} THEN NewNetworkState
                 ELSE Step(CHOOSE x \in s : TRUE, g[s \ {CHOOSE x \in s : TRUE}])
    BY <2>1 DEF FoldsInto
  <2> QED BY <2>2
<1>4. PICK f : E(f) /\ SettledState = f[Nodes]
  <2>1. E(CHOOSE f : E(f))
    <3> HIDE DEF E
    <3> QED BY <1>3
  <2> QED BY <2>1, Zenon DEF SettledState, FoldSet, MapThenFoldSet, SettledFrame
<1> HIDE DEF Step
<1>5. ASSUME NEW s \in SUBSET Nodes, s # {}
      PROVE  \E x \in s : f[s \ {x}] \in GoodStates => f[s] = G[<<x, f[s \ {x}]>>]
  <2>1. PICK x \in s : x = CHOOSE y \in s : TRUE
    BY <1>5
  <2>2. f[s] = Step(x, f[s \ {x}])
    BY <1>4, <1>5, <2>1
  <2>3. f[s \ {x}] \in GoodStates => <<x, f[s \ {x}]>> \in Nodes \X GoodStates
    OBVIOUS
  <2> QED BY <2>2, <2>3
<1>6. f[{}] = NewNetworkState
  BY <1>4
<1>7. Steps(f, Nodes, NewNetworkState, GoodStates, G)
  <2> HIDE DEF E, G
  <2> QED BY <1>5, <1>6 DEF Steps
<1> HIDE DEF E, G
<1>8. \A s \in SUBSET Nodes : f[s] \in GoodStates
  BY <1>1, <1>2, <1>7, FoldType
<1> QED BY <1>4, <1>8

-----------------------------------------------------------------------------
(* The type invariant.  The states of the sink and of its client are good   *)
(* because everything on its way to them is about nodes that may be linked. *)
NodeStates(n) ==
  [table : SUBSET DOMAIN LinkCost[n], cost : Costs, subscribed : BOOLEAN,
   task : {"waiting", "current", "stale"}, timer : BOOLEAN, buffer : Seq(Notifications(n))]
SinkStates ==
  [state : GoodStates, buffer : Seq(Entries), timer : BOOLEAN, prunes : Seq(SUBSET Nodes),
   subscribed : BOOLEAN, jobs : Seq(Seq(Entries))]
ClientStates ==
  [launched : BOOLEAN, state : GoodStates, heard : BOOLEAN, prunes : Seq(SUBSET Nodes)]

NodesOK ==
  /\ node = [n \in Nodes |-> node[n]]
  /\ \A n \in Nodes : node[n] \in NodeStates(n)

TypeOK ==
  /\ NodesOK
  /\ toSink \in SUBSET NodeFrames
  /\ sink \in SinkStates
  /\ client \in ClientStates
  /\ toClient \in Seq(Seq(Entries))
  /\ synced \in SUBSET Nodes
  /\ flawed \in SUBSET {"raced", "missed", "overtaken"}

LEMMA FreshNodeType ==
  ASSUME NEW n \in Nodes
  PROVE  FreshNode(n) \in NodeStates(n) /\ SettledNode(n) \in NodeStates(n)
<1>1. PICK table \in SUBSET DOMAIN LinkCost[n] : table = Neighbors(FreshLinks, n)
  BY NeighborsType
<1>2. PICK A : A = {NeighborUpdated(m) : m \in table}
  OBVIOUS
<1>3. IsFiniteSet(A)
  <2>1. IsFiniteSet(table)
    BY LinkCostType, SubsetFinite
  <2>2. PICK f : f = [m \in table |-> NeighborUpdated(m)]
    OBVIOUS
  <2>3. A = {f[m] : m \in table}
    BY <1>2, <2>2
  <2> QED BY <2>1, <2>3, ImageFinite
<1>4. A \subseteq Notifications(n)
  BY <1>2 DEF Notifications
<1>5. PICK known \in Seq(Notifications(n)) : known = Listed(A)
  BY <1>3, <1>4, ListedType, SeqSubset
<1>6. <<SelfUpdated(FirstCost)>> \in Seq(Notifications(n)) /\ FirstCost \in Costs
  BY ObserverAssumption DEF Notifications
<1>7. PICK buffer \in Seq(Notifications(n)) : buffer = <<SelfUpdated(FirstCost)>> \o known
  BY <1>6, ConcatProperties
<1>8. FreshNode(n) = [table |-> table, cost |-> FirstCost, subscribed |-> FALSE,
                      task |-> "waiting", timer |-> FALSE, buffer |-> buffer]
  BY <1>1, <1>2, <1>5, <1>7, Zenon DEF FreshNode
<1>9. Neighbors(SettledLinks, n) \in SUBSET DOMAIN LinkCost[n] /\ <<>> \in Seq(Notifications(n))
  BY NeighborsType
<1>10. FreshNode(n) \in NodeStates(n)
  BY <1>6, <1>8 DEF NodeStates
<1>11. SettledNode(n) \in NodeStates(n)
  BY <1>6, <1>9 DEF NodeStates, SettledNode
<1> QED BY <1>10, <1>11

LEMMA InitTypeOK == Init => TypeOK
<1> SUFFICES ASSUME Init PROVE TypeOK
  OBVIOUS
<1>1. PICK launched \in BOOLEAN :
       /\ node = [n \in Nodes |-> IF launched THEN SettledNode(n) ELSE FreshNode(n)]
       /\ sink = [state |-> IF launched THEN SettledState ELSE NewNetworkState,
                  buffer |-> <<>>, timer |-> FALSE, prunes |-> <<>>, subscribed |-> FALSE, jobs |-> <<>>]
       /\ client = [launched |-> launched, state |-> NewNetworkState, heard |-> FALSE, prunes |-> <<>>]
  BY Zenon DEF Init
<1>2. NodesOK
  <2>1. \A n \in Nodes : node[n] = SettledNode(n) \/ node[n] = FreshNode(n)
    BY <1>1
  <2>2. \A n \in Nodes : node[n] \in NodeStates(n)
    BY <2>1, FreshNodeType
  <2>3. node = [n \in Nodes |-> node[n]]
    BY <1>1
  <2> QED BY <2>2, <2>3 DEF NodesOK
<1>3. \A S : <<>> \in Seq(S)
  OBVIOUS
<1>4. sink \in SinkStates
  <2>1. PICK state \in GoodStates : state = IF launched THEN SettledState ELSE NewNetworkState
    BY NewStateGood, SettledStateGood
  <2>2. sink = [state |-> state, buffer |-> <<>>, timer |-> FALSE, prunes |-> <<>>,
                subscribed |-> FALSE, jobs |-> <<>>]
    BY <1>1, <2>1
  <2> QED BY <1>3, <2>2 DEF SinkStates
<1>5. client \in ClientStates
  BY <1>1, <1>3, NewStateGood DEF ClientStates
<1>6. toSink = {} /\ toClient = <<>> /\ synced = {} /\ flawed = {}
  BY DEF Init
<1> QED BY <1>2, <1>3, <1>4, <1>5, <1>6 DEF TypeOK

(* Steps of a node.                                                         *)
LEMMA NodeReplaced ==
  ASSUME NodesOK, NEW n \in Nodes, NEW state \in NodeStates(n), node' = [node EXCEPT ![n] = state]
  PROVE  NodesOK'
<1>1. node' = [m \in Nodes |-> IF m = n THEN state ELSE node[m]]
  BY DEF NodesOK
<1>2. ASSUME NEW m \in Nodes
      PROVE  node'[m] \in NodeStates(m)
  <2>1. CASE m = n
    BY <1>1, <2>1
  <2>2. CASE m # n
    <3>1. node'[m] = node[m]
      BY <1>1, <2>2
    <3> QED BY <3>1 DEF NodesOK
  <2> QED BY <2>1, <2>2
<1>3. node' = [m \in Nodes |-> node'[m]]
  BY <1>1
<1>4. \A m \in Nodes : (node[m] \in NodeStates(m))'
  BY <1>2 DEF NodeStates, Notifications, SelfUpdated, NeighborUpdated, NeighborRemoved, FrameReceived
<1> QED BY <1>3, <1>4, Zenon DEF NodesOK

LEMMA OthersUnchanged ==
  ASSUME TypeOK, NodesOK', toSink' \in SUBSET NodeFrames,
         UNCHANGED <<sink, client, toClient, flawed>>, synced' \in SUBSET Nodes
  PROVE  TypeOK'
<1>1. /\ sink \in SinkStates /\ client \in ClientStates /\ toClient \in Seq(Seq(Entries))
      /\ flawed \in SUBSET {"raced", "missed", "overtaken"}
  BY DEF TypeOK
<1>2. /\ sink' \in SinkStates /\ client' \in ClientStates /\ toClient' \in Seq(Seq(Entries))
      /\ flawed' \in SUBSET {"raced", "missed", "overtaken"}
  BY <1>1
<1> QED BY <1>2 DEF TypeOK

LEMMA NotifyTypeOK ==
  ASSUME TypeOK, NEW n \in Nodes, NEW state \in NodeStates(n),
         NEW notification \in Notifications(n), Notify(n, state, notification)
  PROVE  TypeOK'
<1>1. PICK buffer \in Seq(Notifications(n)) : buffer = Append(state.buffer, notification)
  <2>1. state.buffer \in Seq(Notifications(n))
    BY DEF NodeStates
  <2> QED BY <2>1, AppendProperties
<1>2. PICK timer \in BOOLEAN : timer = IF Listening(state) THEN TRUE ELSE state.timer
  BY DEF NodeStates
<1>3. Emitted(state, notification) = [state EXCEPT !.buffer = buffer, !.timer = timer]
  BY <1>1, <1>2, Zenon DEF Emitted
<1>4. Emitted(state, notification) \in NodeStates(n)
  BY <1>3 DEF NodeStates
<1>5. node' = [node EXCEPT ![n] = Emitted(state, notification)]
  BY DEF Notify
<1>6. NodesOK'
  BY <1>4, <1>5, NodeReplaced DEF TypeOK
<1> QED BY <1>6, OthersUnchanged DEF Notify, TypeOK

LEMMA NodeType ==
  ASSUME TypeOK, NEW n \in Nodes
  PROVE  node[n] \in NodeStates(n) /\ node[n].buffer \in Seq(Notifications(n))
<1>1. node[n] \in NodeStates(n)
  BY DEF TypeOK, NodesOK
<1> QED BY <1>1 DEF NodeStates

LEMMA NeighborTypeOK ==
  ASSUME TypeOK, NEW n \in Nodes, NEW m \in DOMAIN LinkCost[n],
         AddNeighbor(n, m) \/ RemoveNeighbor(n, m)
  PROVE  TypeOK'
<1>1. node[n] \in NodeStates(n)
  BY NodeType
<1>2. NeighborUpdated(m) \in Notifications(n) /\ NeighborRemoved(m) \in Notifications(n)
  BY DEF Notifications
<1>3. CASE AddNeighbor(n, m)
  <2>1. PICK state \in NodeStates(n) : state = [node[n] EXCEPT !.table = @ \cup {m}]
    BY <1>1 DEF NodeStates
  <2> QED BY <1>2, <1>3, <2>1, NotifyTypeOK DEF AddNeighbor
<1>4. CASE RemoveNeighbor(n, m)
  <2>1. PICK state \in NodeStates(n) : state = [node[n] EXCEPT !.table = @ \ {m}]
    BY <1>1 DEF NodeStates
  <2> QED BY <1>2, <1>4, <2>1, NotifyTypeOK DEF RemoveNeighbor
<1> QED BY <1>3, <1>4

LEMMA ChangeCostTypeOK ==
  ASSUME TypeOK, NEW n \in Nodes, NEW cost \in Costs, ChangeCost(n, cost)
  PROVE  TypeOK'
<1>1. SelfUpdated(cost) \in Notifications(n)
  BY DEF Notifications
<1>2. PICK state \in NodeStates(n) : state = [node[n] EXCEPT !.cost = cost]
  BY NodeType DEF NodeStates
<1> QED BY <1>1, <1>2, NotifyTypeOK DEF ChangeCost

LEMMA ReceiveFrameTypeOK ==
  ASSUME TypeOK, NEW n \in Nodes, ReceiveFrame(n)
  PROVE  TypeOK'
<1>1. FrameReceived \in Notifications(n)
  BY DEF Notifications
<1> QED BY <1>1, NodeType, NotifyTypeOK DEF ReceiveFrame

LEMMA SubscribeTypeOK ==
  ASSUME TypeOK, NEW n \in Nodes, Subscribe(n)
  PROVE  TypeOK'
<1>1. PICK timer \in BOOLEAN : timer = IF node[n].buffer # <<>> THEN TRUE ELSE node[n].timer
  BY NodeType DEF NodeStates
<1>2. PICK task \in {"current", "stale"} : task = IF node[n].task = "waiting" THEN "current" ELSE "stale"
  OBVIOUS
<1>3. Subscribed(node[n]) = [node[n] EXCEPT !.subscribed = TRUE, !.task = task, !.timer = timer]
  BY <1>1, <1>2, Zenon DEF Subscribed
<1>4. PICK state \in NodeStates(n) : state = Subscribed(node[n])
  BY <1>3, NodeType DEF NodeStates
<1>5. node' = [node EXCEPT ![n] = state]
  BY <1>4 DEF Subscribe
<1>6. NodesOK'
  BY <1>5, NodeReplaced DEF TypeOK
<1> QED BY <1>6, OthersUnchanged DEF Subscribe, TypeOK

LEMMA ExpireSubscriberTypeOK ==
  ASSUME TypeOK, NEW n \in Nodes, ExpireSubscriber(n)
  PROVE  TypeOK'
<1>1. PICK task \in {"waiting", "current", "stale"} :
        task = IF node[n].task = "current" THEN "waiting" ELSE node[n].task
  BY NodeType DEF NodeStates
<1>2. PICK state \in NodeStates(n) : state = [node[n] EXCEPT !.subscribed = FALSE, !.task = task]
  BY NodeType DEF NodeStates
<1>3. node' = [node EXCEPT ![n] = state]
  <2>1. node' = [node EXCEPT ![n] = [node[n] EXCEPT !.subscribed = FALSE, !.task = task]]
    BY <1>1, NodeType DEF ExpireSubscriber, NodeStates, TypeOK, NodesOK
  <2> QED BY <1>2, <2>1
<1>4. NodesOK'
  BY <1>3, NodeReplaced DEF TypeOK
<1> QED BY <1>4, OthersUnchanged DEF ExpireSubscriber, TypeOK

LEMMA SendToSinkType ==
  ASSUME TypeOK, NEW n \in Nodes, NEW frame \in NotificationFrames(n) \cup SyncFrames(n),
         SendToSink(n, frame)
  PROVE  toSink' \in SUBSET NodeFrames
<1>1. frame \in NodeFrames /\ toSink \in SUBSET NodeFrames
  BY DEF NodeFrames, TypeOK
<1>2. toSink' = toSink \cup {frame} \/ toSink' = toSink
  BY DEF SendToSink
<1> QED BY <1>1, <1>2

LEMMA NotifySinkTypeOK ==
  ASSUME TypeOK, NEW n \in Nodes, NotifySink(n)
  PROVE  TypeOK'
<1>1. PICK state \in NodeStates(n) : state = [node[n] EXCEPT !.timer = FALSE, !.buffer = <<>>]
  <2>1. <<>> \in Seq(Notifications(n))
    OBVIOUS
  <2> QED BY <2>1, NodeType DEF NodeStates
<1>2. node' = [node EXCEPT ![n] = state]
  <2>1. node' = [node EXCEPT ![n] = [node[n] EXCEPT !.timer = FALSE, !.buffer = <<>>]]
    BY NodeType DEF NotifySink, NodeStates, TypeOK, NodesOK
  <2> QED BY <1>1, <2>1
<1>3. NodesOK'
  BY <1>2, NodeReplaced DEF TypeOK
<1>4. toSink' \in SUBSET NodeFrames
  <2>1. PICK frame \in NotificationFrames(n) : frame = NotificationFrame(n, node[n].buffer)
    BY NodeType DEF NotificationFrame, NotificationFrames
  <2>2. SendToSink(n, frame) \/ toSink' = toSink
    BY <2>1 DEF NotifySink
  <2> QED BY <2>2, SendToSinkType DEF TypeOK
<1> QED BY <1>3, <1>4, OthersUnchanged DEF NotifySink, TypeOK

LEMMA SyncTypeOK ==
  ASSUME TypeOK, NEW n \in Nodes, Sync(n)
  PROVE  TypeOK'
<1>1. PICK frame \in SyncFrames(n) : frame = SyncFrame(n)
  BY NodeType DEF SyncFrame, SyncFrames, NodeStates
<1>2. toSink' \in SUBSET NodeFrames
  BY <1>1, SendToSinkType DEF Sync
<1>3. node' = node /\ UNCHANGED <<sink, client, toClient, synced, flawed>>
  BY DEF Sync
<1>4. NodesOK'
  BY <1>3 DEF TypeOK, NodesOK, NodeStates, Notifications
<1> QED BY <1>2, <1>3, <1>4, OthersUnchanged DEF TypeOK

(* Steps of the sink and of the client.                                     *)
LEMMA NodesUnchanged ==
  ASSUME TypeOK, node' = node
  PROVE  NodesOK'
<1>1. node = [n \in Nodes |-> node[n]] /\ \A n \in Nodes : node[n] \in NodeStates(n)
  BY DEF TypeOK, NodesOK
<1>2. node' = [n \in Nodes |-> node'[n]] /\ \A n \in Nodes : (node[n] \in NodeStates(n))'
  BY <1>1 DEF NodeStates, Notifications, SelfUpdated, NeighborUpdated, NeighborRemoved, FrameReceived
<1> QED BY <1>2, Zenon DEF NodesOK

LEMMA SinkParts ==
  ASSUME TypeOK
  PROVE  /\ sink.state \in GoodStates /\ sink.buffer \in Seq(Entries) /\ sink.timer \in BOOLEAN
         /\ sink.prunes \in Seq(SUBSET Nodes) /\ sink.jobs \in Seq(Seq(Entries))
         /\ client.state \in GoodStates /\ client.prunes \in Seq(SUBSET Nodes)
<1>1. sink \in SinkStates /\ client \in ClientStates
  BY DEF TypeOK
<1> QED BY <1>1 DEF SinkStates, ClientStates

LEMMA LoseTypeOK ==
  ASSUME TypeOK, NEW frame \in toSink, Lose(frame)
  PROVE  TypeOK'
<1>1. NodesOK' /\ toSink' \in SUBSET NodeFrames
  BY NodesUnchanged DEF Lose, TypeOK
<1> QED BY <1>1, OthersUnchanged DEF Lose, TypeOK

LEMMA ReceiveTypeOK ==
  ASSUME TypeOK, NEW frame \in toSink, Receive(frame)
  PROVE  TypeOK'
<1>1. frame \in NodeFrames /\ sink \in SinkStates
  BY DEF TypeOK
<1>2. PICK result \in Reports : result = Taken(sink.state, frame)
  BY <1>1, SinkParts, TakenGood
<1>3. PICK entries \in Seq(Entries) : entries = IntoNotificationEntries(result.updates)
  BY ReportParts, IntoEntriesType
<1>4. PICK buffer \in Seq(Entries) : buffer = Told(sink.buffer, entries)
  <2>1. Told(sink.buffer, entries) = sink.buffer \o entries \/ Told(sink.buffer, entries) = sink.buffer
    BY DEF Told
  <2>2. sink.buffer \o entries \in Seq(Entries)
    BY SinkParts, ConcatProperties
  <2> QED BY <2>1, <2>2, SinkParts
<1>5. PICK prunes \in Seq(SUBSET Nodes) : prunes = PruneLater(sink.prunes, result.state)
  BY SinkParts, ReportParts, PruneLaterType
<1>6. PICK timer \in BOOLEAN : timer = (sink.timer \/ Told(<<>>, entries) # <<>>)
  OBVIOUS
<1>7. sink' = [sink EXCEPT !.state = result.state, !.buffer = buffer, !.timer = timer, !.prunes = prunes]
  BY <1>2, <1>3, <1>4, <1>5, <1>6, Zenon DEF Receive
<1>8. sink' \in SinkStates
  <2>1. result.state \in GoodStates
    BY ReportParts
  <2> QED BY <1>1, <1>7, <2>1 DEF SinkStates
<1>9. node' = node /\ client' = client /\ toClient' = toClient
  BY DEF Receive
<1>10. toSink' \in SUBSET NodeFrames
  BY DEF Receive, TypeOK
<1>11. synced' \in SUBSET Nodes
  <2>1. frame.source \in Nodes
    BY <1>1 DEF NodeFrames, NotificationFrames, SyncFrames
  <2>2. synced' = synced \cup {frame.source} \/ synced' = {}
    BY DEF Receive
  <2> QED BY <2>1, <2>2 DEF TypeOK
<1>12. flawed' \in SUBSET {"raced", "missed", "overtaken"}
  <2>1. flawed' = flawed \cup {"raced"} \/ flawed' = flawed \cup {}
    BY DEF Receive
  <2> QED BY <2>1 DEF TypeOK
<1>13. NodesOK'
  BY <1>9, NodesUnchanged
<1> QED BY <1>8, <1>9, <1>10, <1>11, <1>12, <1>13 DEF TypeOK

(* A step that changes the sink, or its client, and what is between them.   *)
LEMMA NodesAside ==
  ASSUME TypeOK, UNCHANGED <<node, toSink>>, synced' \in SUBSET synced, sink' \in SinkStates,
         client' \in ClientStates, toClient' \in Seq(Seq(Entries)),
         NEW flaws \in SUBSET {"raced", "missed", "overtaken"}, flawed' = flawed \cup flaws
  PROVE  TypeOK'
<1>1. NodesOK'
  BY NodesUnchanged
<1>2. toSink' \in SUBSET NodeFrames /\ synced' \in SUBSET Nodes
      /\ flawed' \in SUBSET {"raced", "missed", "overtaken"}
  BY DEF TypeOK
<1> QED BY <1>1, <1>2 DEF TypeOK

LEMMA PruneSinkTypeOK == ASSUME TypeOK, PruneSink PROVE TypeOK'
<1>1. sink \in SinkStates /\ client' \in ClientStates /\ toClient' \in Seq(Seq(Entries))
  BY DEF TypeOK, PruneSink
<1>2. Head(sink.prunes) \in SUBSET Nodes /\ Tail(sink.prunes) \in Seq(SUBSET Nodes)
  BY SinkParts DEF PruneSink
<1>3. PICK state \in GoodStates : state = Pruned(sink.state, Head(sink.prunes))
  BY <1>2, SinkParts, PrunedGood
<1>4. sink' = [sink EXCEPT !.state = state, !.prunes = Tail(sink.prunes)]
  BY <1>3, Zenon DEF PruneSink
<1>5. sink' \in SinkStates
  BY <1>1, <1>2, <1>4 DEF SinkStates
<1>6. PICK flaws \in SUBSET {"raced", "missed", "overtaken"} : flawed' = flawed \cup flaws
  <2>1. flawed' = flawed \cup {} \/ flawed' = flawed \cup {"raced"}
    BY DEF PruneSink
  <2> QED BY <2>1
<1> QED BY <1>1, <1>5, <1>6, NodesAside DEF PruneSink

LEMMA SubscriptionTypeOK == ASSUME TypeOK, ReceiveNetworkSubscription PROVE TypeOK'
<1>1. /\ sink \in SinkStates /\ client' \in ClientStates /\ toClient' \in Seq(Seq(Entries))
      /\ flawed' = flawed \cup {}
  BY DEF TypeOK, ReceiveNetworkSubscription
<1>2. PICK entries \in Seq(Entries) : entries = DumpAsUpdates(sink.state)
  BY SinkParts, DumpType
<1>3. PICK jobs \in Seq(Seq(Entries)) :
        jobs = IF entries = <<>> THEN sink.jobs ELSE Append(sink.jobs, entries)
  BY SinkParts, AppendProperties
<1>4. sink' = [sink EXCEPT !.subscribed = TRUE, !.jobs = jobs]
  BY <1>2, <1>3, Zenon DEF ReceiveNetworkSubscription
<1>5. sink' \in SinkStates
  BY <1>1, <1>4 DEF SinkStates
<1> QED BY <1>1, <1>5, NodesAside DEF ReceiveNetworkSubscription

LEMMA ExpireClientTypeOK == ASSUME TypeOK, ExpireClient PROVE TypeOK'
<1>1. /\ sink \in SinkStates /\ client' \in ClientStates /\ toClient' \in Seq(Seq(Entries))
      /\ flawed' = flawed \cup {} /\ sink' = [sink EXCEPT !.subscribed = FALSE]
  BY DEF TypeOK, ExpireClient
<1>2. sink' \in SinkStates
  BY <1>1 DEF SinkStates
<1> QED BY <1>1, <1>2, NodesAside DEF ExpireClient

LEMMA NotifyClientTypeOK == ASSUME TypeOK, NotifyClient PROVE TypeOK'
<1>1. sink \in SinkStates /\ client' \in ClientStates /\ toClient' \in Seq(Seq(Entries))
  BY DEF TypeOK, NotifyClient
<1>2. PICK jobs \in Seq(Seq(Entries)) :
        jobs = IF sink.subscribed THEN Append(sink.jobs, sink.buffer) ELSE sink.jobs
  BY SinkParts, AppendProperties
<1>3. sink' = [sink EXCEPT !.timer = FALSE, !.buffer = <<>>, !.jobs = jobs]
  BY <1>2, Zenon DEF NotifyClient
<1>4. sink' \in SinkStates
  <2>1. <<>> \in Seq(Entries)
    OBVIOUS
  <2> QED BY <1>1, <1>3, <2>1 DEF SinkStates
<1>5. PICK flaws \in SUBSET {"raced", "missed", "overtaken"} : flawed' = flawed \cup flaws
  <2>1. flawed' = flawed \cup {} \/ flawed' = flawed \cup {"missed"}
    BY DEF NotifyClient
  <2> QED BY <2>1
<1> QED BY <1>1, <1>4, <1>5, NodesAside DEF NotifyClient

LEMMA SendFrameTypeOK ==
  ASSUME TypeOK, NEW i \in DOMAIN sink.jobs, SendFrame(i)
  PROVE  TypeOK'
<1>1. sink \in SinkStates /\ client' \in ClientStates
  BY DEF TypeOK, SendFrame
<1>2. PICK job \in Seq(Entries) : job = sink.jobs[i]
  BY SinkParts
<1>3. PICK rest \in Seq(Entries) : rest = SubSeq(job, FrameSize + 1, Len(job))
  <2>1. FrameSize \in Nat /\ Len(job) \in Nat
    BY ObserverAssumption
  <2>2. PICK k \in Int, l \in Int : k = FrameSize + 1 /\ l = Len(job)
    BY <2>1
  <2>3. \A x \in k..l : job[x] \in Entries
    BY <2>1, <2>2
  <2>4. SubSeq(job, k, l) \in Seq(Entries)
    BY <2>3, SubSeqProperties
  <2> QED BY <2>2, <2>4
<1>4. PICK frame \in Seq(Entries) :
        frame = SubSeq(job, 1, IF Len(job) < FrameSize THEN Len(job) ELSE FrameSize)
  <2>1. PICK k \in 0..Len(job) : k = IF Len(job) < FrameSize THEN Len(job) ELSE FrameSize
    BY ObserverAssumption, LenProperties
  <2>2. SubSeq(job, 1, k) \in Seq(Entries)
    BY <2>1, SubSeqProperties
  <2> QED BY <2>1, <2>2
<1>5. PICK jobs \in Seq(Seq(Entries)) :
        jobs = IF rest = <<>> THEN RemoveAt(sink.jobs, i) ELSE [sink.jobs EXCEPT ![i] = rest]
  <2>1. RemoveAt(sink.jobs, i) \in Seq(Seq(Entries))
    BY SinkParts, RemoveAtType
  <2>2. [sink.jobs EXCEPT ![i] = rest] \in Seq(Seq(Entries))
    BY SinkParts, ExceptSeq
  <2> QED BY <2>1, <2>2
<1>6. sink' = [sink EXCEPT !.jobs = jobs] /\ toClient' = Append(toClient, frame)
  BY <1>2, <1>3, <1>4, <1>5, Zenon DEF SendFrame
<1>7. sink' \in SinkStates
  BY <1>1, <1>6 DEF SinkStates
<1>8. toClient' \in Seq(Seq(Entries))
  BY <1>6, AppendProperties DEF TypeOK
<1>9. PICK flaws \in SUBSET {"raced", "missed", "overtaken"} : flawed' = flawed \cup flaws
  <2>1. flawed' = flawed \cup {} \/ flawed' = flawed \cup {"overtaken"}
    BY DEF SendFrame
  <2> QED BY <2>1
<1> QED BY <1>1, <1>7, <1>8, <1>9, NodesAside DEF SendFrame

LEMMA NotificationTypeOK == ASSUME TypeOK, ReceiveNetworkNotification PROVE TypeOK'
<1>1. /\ client \in ClientStates /\ sink' \in SinkStates /\ flawed' = flawed \cup {}
      /\ toClient \in Seq(Seq(Entries)) /\ toClient # <<>>
  BY DEF TypeOK, ReceiveNetworkNotification
<1>2. Head(toClient) \in Seq(Entries) /\ Tail(toClient) \in Seq(Seq(Entries))
  BY <1>1
<1>3. PICK updates \in Seq(TopologyUpdateTypes) : updates = TopologyUpdates(Head(toClient))
  BY <1>2, TopologyUpdatesType
<1>4. PICK copy \in GoodStates : copy = ApplyUpdates(client.state, updates).state
  BY SinkParts, ApplyUpdatesGood, ReportParts
<1>5. PICK prunes \in Seq(SUBSET Nodes) : prunes = PruneLater(client.prunes, copy)
  BY SinkParts, PruneLaterType
<1>6. /\ client' = [client EXCEPT !.heard = TRUE, !.state = copy, !.prunes = prunes]
      /\ toClient' = Tail(toClient)
  BY <1>3, <1>4, <1>5, Zenon DEF ReceiveNetworkNotification
<1>7. client' \in ClientStates
  BY <1>1, <1>6 DEF ClientStates
<1> QED BY <1>1, <1>2, <1>6, <1>7, NodesAside DEF ReceiveNetworkNotification

LEMMA PruneCopyTypeOK == ASSUME TypeOK, PruneCopy PROVE TypeOK'
<1>1. client \in ClientStates /\ sink' \in SinkStates /\ toClient' \in Seq(Seq(Entries))
  BY DEF TypeOK, PruneCopy
<1>2. Head(client.prunes) \in SUBSET Nodes /\ Tail(client.prunes) \in Seq(SUBSET Nodes)
  BY SinkParts DEF PruneCopy
<1>3. PICK copy \in GoodStates : copy = Pruned(client.state, Head(client.prunes))
  BY <1>2, SinkParts, PrunedGood
<1>4. client' = [client EXCEPT !.state = copy, !.prunes = Tail(client.prunes)]
  BY <1>3, Zenon DEF PruneCopy
<1>5. client' \in ClientStates
  BY <1>1, <1>2, <1>4 DEF ClientStates
<1>6. PICK flaws \in SUBSET {"raced", "missed", "overtaken"} : flawed' = flawed \cup flaws
  <2>1. flawed' = flawed \cup {} \/ flawed' = flawed \cup {"raced"}
    BY DEF PruneCopy
  <2> QED BY <2>1
<1> QED BY <1>1, <1>5, <1>6, NodesAside DEF PruneCopy

LEMMA NextTypeOK == TypeOK /\ [Next]_vars => TypeOK'
<1> SUFFICES ASSUME TypeOK, [Next]_vars PROVE TypeOK'
  OBVIOUS
<1>1. ASSUME NEW n \in Nodes, NEW m \in DOMAIN LinkCost[n], AddNeighbor(n, m) \/ RemoveNeighbor(n, m)
      PROVE  TypeOK'
  BY <1>1, NeighborTypeOK
<1>2. ASSUME NEW n \in Nodes, NEW cost \in Costs, ChangeCost(n, cost) PROVE TypeOK'
  BY <1>2, ChangeCostTypeOK
<1>3. ASSUME NEW n \in Nodes,
             ReceiveFrame(n) \/ Subscribe(n) \/ ExpireSubscriber(n) \/ NotifySink(n) \/ Sync(n)
      PROVE  TypeOK'
  BY <1>3, ReceiveFrameTypeOK, SubscribeTypeOK, ExpireSubscriberTypeOK, NotifySinkTypeOK, SyncTypeOK
<1>4. ASSUME NEW frame \in toSink, Lose(frame) \/ Receive(frame) PROVE TypeOK'
  BY <1>4, LoseTypeOK, ReceiveTypeOK
<1>5. CASE PruneSink \/ ReceiveNetworkSubscription \/ ExpireClient \/ NotifyClient
  BY <1>5, PruneSinkTypeOK, SubscriptionTypeOK, ExpireClientTypeOK, NotifyClientTypeOK
<1>6. ASSUME NEW i \in DOMAIN sink.jobs, SendFrame(i) PROVE TypeOK'
  BY <1>6, SendFrameTypeOK
<1>7. CASE ReceiveNetworkNotification \/ PruneCopy
  BY <1>7, NotificationTypeOK, PruneCopyTypeOK
<1>8. CASE UNCHANGED vars
  <2>1. /\ UNCHANGED <<node, toSink, sink, client, toClient, synced, flawed>>
        /\ sink \in SinkStates /\ client \in ClientStates /\ toClient \in Seq(Seq(Entries))
    BY <1>8 DEF vars, TypeOK
  <2>2. sink' \in SinkStates /\ client' \in ClientStates /\ toClient' \in Seq(Seq(Entries))
        /\ flawed' = flawed \cup {}
    BY <2>1
  <2> QED BY <2>1, <2>2, NodesAside
<1> QED BY <1>1, <1>2, <1>3, <1>4, <1>5, <1>6, <1>7, <1>8, Zenon DEF Next

(* In every network, and however the steps of nodes, sink and client        *)
(* interleave, what each keeps and all that is on its way are of the types  *)
(* of the code; and the sink and its client know each link at both ends.    *)
THEOREM ObserverTypeCorrect == Spec => []TypeOK
BY InitTypeOK, NextTypeOK, PTL DEF Spec

(* In every network, whatever order updates, removals, prunes and dumps come*)
(* in: sink and client keep a link at both its ends, at one cost, and only  *)
(* between nodes they know, so that dumpAsUpdates() does not throw.         *)
THEOREM LinksStayMutual == Spec => []LinksMutual
<1>1. TypeOK => LinksMutual
  BY SinkParts, StateParts DEF LinksMutual
<1> QED BY <1>1, InitTypeOK, NextTypeOK, PTL DEF Spec

-----------------------------------------------------------------------------
(* What the sink knows of a node that has synced: a sync makes the links of *)
(* a node what its table says, and leaves those of the others alone.        *)
Ends(state) == DOMAIN state.strong \cup DOMAIN state.weak

LEMMA EndsSymmetric ==
  ASSUME NEW state \in GoodStates, NEW n, NEW m, <<n, m>> \in Ends(state)
  PROVE  <<m, n>> \in Ends(state)
<1>1. Reversed(<<n, m>>) = <<m, n>>
  BY DEF Reversed
<1> QED BY <1>1, StateParts DEF Ends, Mutual

LEMMA EndsAreLinks ==
  ASSUME NEW state \in GoodStates, NEW id
  PROVE  /\ Ends(state) \subseteq Links
         /\ AllLinks(state, id) = {m \in Nodes : <<id, m>> \in Ends(state)}
<1>1. Ends(state) \subseteq Links
  BY StateParts DEF Ends
<1>2. ASSUME NEW m \in AllLinks(state, id)
      PROVE  m \in Nodes /\ <<id, m>> \in Ends(state)
  <2>1. PICK link \in Ends(state) : link[1] = id /\ link[2] = m
    BY DEF AllLinks, Ends
  <2>2. link = <<id, m>> /\ m \in Nodes
    BY <1>1, <2>1 DEF Links
  <2> QED BY <2>1, <2>2
<1>3. ASSUME NEW m \in Nodes, <<id, m>> \in Ends(state)
      PROVE  m \in AllLinks(state, id)
  <2>1. PICK link \in Ends(state) : link = <<id, m>>
    BY <1>3
  <2>2. link[1] = id /\ link[2] = m
    BY <2>1
  <2> QED BY <2>2 DEF AllLinks, Ends
<1> QED BY <1>1, <1>2, <1>3

(* Nodes are not forgotten, nor what they cost.                             *)
Keeps(new, old) ==
  /\ DOMAIN old.nodes \subseteq DOMAIN new.nodes
  /\ \A id \in DOMAIN old.nodes : new.nodes[id].cost = old.nodes[id].cost

LEMMA GetOrUpdateNodeKeeps ==
  ASSUME NEW state \in GoodStates, NEW n \in PartialNodes
  PROVE  LET r == GetOrUpdateNode(state, n)
         IN  /\ Ends(r.state) = Ends(state)
             /\ n.cost = None => Keeps(r.state, state)
             /\ n.cost # None =>
                  /\ r.state.nodes[n.id].cost = n.cost
                  /\ \A id \in DOMAIN state.nodes \ {n.id} : r.state.nodes[id] = state.nodes[id]
<1>1. PICK r \in Reports : r = GetOrUpdateNode(state, n)
  BY GetOrUpdateNodeGood
<1>2. /\ SameLinks(r.state, state)
      /\ DOMAIN r.state.nodes = DOMAIN state.nodes \cup {n.id}
  BY <1>1, GetOrUpdateNodeGood
<1>3. PICK merged :
        merged = IF n.id \notin DOMAIN state.nodes THEN n ELSE Merged(state.nodes[n.id], n)
  OBVIOUS
<1>4. r.state.nodes = Set(state.nodes, n.id, merged)
  <2>1. r.state = [state EXCEPT !.nodes = Set(@, n.id, merged)]
    BY <1>1, <1>3 DEF GetOrUpdateNode, Result
  <2> QED BY <2>1, StateParts DEF NetworkStates
<1>5. /\ \A id \in DOMAIN state.nodes \ {n.id} : r.state.nodes[id] = state.nodes[id]
      /\ r.state.nodes[n.id] = merged
  BY <1>4 DEF Set
<1>6. n.cost # None => merged.cost = n.cost
  BY <1>3 DEF Merged, Known, PartialNode
<1>7. n.cost = None /\ n.id \in DOMAIN state.nodes => merged.cost = state.nodes[n.id].cost
  BY <1>3 DEF Merged, Known, PartialNode
<1>8. n.cost = None => Keeps(r.state, state)
  BY <1>2, <1>5, <1>7 DEF Keeps
<1>9. Ends(r.state) = Ends(state)
  BY <1>2 DEF Ends, SameLinks
<1> QED BY <1>1, <1>5, <1>6, <1>8, <1>9

LEMMA UpdateBothEndsLinks ==
  ASSUME NEW state \in GoodStates, NEW id1 \in Nodes, NEW id2 \in Nodes, NEW linkCost
  PROVE  Ends(UpdateBothEnds(state, id1, id2, linkCost).state) =
           Ends(state) \cup {<<id1, id2>>, <<id2, id1>>}
<1>1. PICK p \in GoodStates : /\ p = Prioritized(state, id1, id2)
                              /\ p.strong = state.strong /\ p.weak = state.weak
  BY PrioritizedGood
<1>2. PICK link : link = Stronger(p, id1, id2)
  OBVIOUS
<1>3. {link, Reversed(link)} = {<<id1, id2>>, <<id2, id1>>}
  BY <1>2 DEF Stronger, Reversed
<1>4. PICK strong, weak : /\ strong = Set(p.strong, link, linkCost)
                          /\ weak = Set(p.weak, Reversed(link), linkCost)
  OBVIOUS
<1>5. DOMAIN strong = DOMAIN state.strong \cup {link} /\ DOMAIN weak = DOMAIN state.weak \cup {Reversed(link)}
  BY <1>1, <1>4 DEF Set
<1>6. UpdateBothEnds(state, id1, id2, linkCost).state = [p EXCEPT !.strong = strong, !.weak = weak]
  BY <1>1, <1>2, <1>4 DEF UpdateBothEnds, Result
<1>7. /\ UpdateBothEnds(state, id1, id2, linkCost).state.strong = strong
      /\ UpdateBothEnds(state, id1, id2, linkCost).state.weak = weak
  BY <1>6, StateParts DEF NetworkStates
<1> QED BY <1>3, <1>5, <1>7 DEF Ends

(* A state without some of the nodes, and without their links.              *)
Gone(new, old, S) ==
  /\ DOMAIN new.nodes = DOMAIN old.nodes \ S
  /\ \A id \in DOMAIN new.nodes : new.nodes[id] = old.nodes[id]
  /\ \A n, m \in Nodes : <<n, m>> \in Ends(new) <=> (<<n, m>> \in Ends(old) /\ n \notin S /\ m \notin S)
  /\ DOMAIN new.strong = {link \in DOMAIN old.strong : link[1] \notin S /\ link[2] \notin S}
  /\ \A link \in DOMAIN new.strong : new.strong[link] = old.strong[link]

LEMMA RemoveNodeGone ==
  ASSUME NEW state \in GoodStates, NEW id \in Nodes
  PROVE  Gone(RemoveNode(state, id).state, state, {id})
<1>1. PICK others \in SUBSET Nodes : others = AllLinks(state, id)
  BY AllLinksNodes
<1>2. others = {m \in Nodes : <<id, m>> \in Ends(state)}
  BY <1>1, EndsAreLinks
<1>3. CASE id \in DOMAIN state.nodes
  <2>1. PICK r \in Reports : r = RemoveLinks(state, id, others)
                             /\ Without(r.state, state, LinksBetween(id, others))
    BY SubsetFinite, RemoveLinksGood
  <2>2. PICK new : new = RemoveNode(state, id).state
    OBVIOUS
  <2>3. PICK nodes : nodes = Delete(r.state.nodes, id)
    OBVIOUS
  <2>4. new = [r.state EXCEPT !.nodes = nodes]
    BY <1>1, <1>3, <2>1, <2>2, <2>3 DEF RemoveNode, Result
  <2>5. r.state \in NetworkStates
    BY ReportParts, StateParts
  <2>6. new.nodes = nodes /\ new.strong = r.state.strong /\ new.weak = r.state.weak
    BY <2>4, <2>5 DEF NetworkStates
  <2>7. /\ DOMAIN nodes = DOMAIN state.nodes \ {id}
        /\ \A x \in DOMAIN nodes : nodes[x] = state.nodes[x]
    BY <2>1, <2>3 DEF Delete, Without
  <2>8. Ends(new) = Ends(state) \ LinksBetween(id, others)
    BY <2>1, <2>6 DEF Ends, Without
  <2>9. ASSUME NEW n \in Nodes, NEW m \in Nodes, <<n, m>> \in Ends(state)
        PROVE  <<n, m>> \in LinksBetween(id, others) <=> n = id \/ m = id
    <3>1. CASE n = id
      <4>1. m \in others
        BY <1>2, <2>9, <3>1
      <4> QED BY <3>1, <4>1 DEF LinksBetween
    <3>2. CASE m = id
      <4>1. n \in others
        BY <1>2, <2>9, <3>2, EndsSymmetric
      <4> QED BY <3>2, <4>1 DEF LinksBetween
    <3>3. CASE n # id /\ m # id
      BY <3>3 DEF LinksBetween
    <3> QED BY <3>1, <3>2, <3>3
  <2>10. /\ DOMAIN new.strong = {link \in DOMAIN state.strong : link[1] # id /\ link[2] # id}
         /\ \A link \in DOMAIN new.strong : new.strong[link] = state.strong[link]
    <3>1. ASSUME NEW link \in DOMAIN state.strong
          PROVE  link \in LinksBetween(id, others) <=> link[1] = id \/ link[2] = id
      <4>1. link \in Ends(state) /\ link \in Links
        BY StateParts DEF Ends
      <4>2. PICK n \in Nodes, m \in Nodes : link = <<n, m>>
        BY <4>1 DEF Links
      <4> QED BY <2>9, <4>1, <4>2
    <3>2. /\ DOMAIN new.strong = DOMAIN state.strong \ LinksBetween(id, others)
          /\ \A link \in DOMAIN new.strong : new.strong[link] = state.strong[link]
      BY <2>1, <2>6 DEF Without
    <3> QED BY <3>1, <3>2
  <2> QED BY <2>2, <2>6, <2>7, <2>8, <2>9, <2>10 DEF Gone
<1>4. CASE id \notin DOMAIN state.nodes
  <2>1. RemoveNode(state, id).state = state
    BY <1>4 DEF RemoveNode, Result
  <2>2. ASSUME NEW n \in Nodes, NEW m \in Nodes, <<n, m>> \in Ends(state)
        PROVE  n # id /\ m # id
    <3>1. <<n, m>> \in DOMAIN state.strong \/ <<m, n>> \in DOMAIN state.strong
      <4>1. Reversed(<<n, m>>) = <<m, n>>
        BY DEF Reversed
      <4> QED BY <2>2, <4>1, StateParts DEF Ends, Mutual
    <3>2. {n, m} \subseteq DOMAIN state.nodes
      <4>1. \A link \in DOMAIN state.strong : {link[1], link[2]} \subseteq DOMAIN state.nodes
        BY StateParts DEF Mutual
      <4> QED BY <3>1, <4>1
    <3> QED BY <1>4, <3>2
  <2>3. \A link \in DOMAIN state.strong : link[1] # id /\ link[2] # id
    BY <1>4, StateParts DEF Mutual
  <2> QED BY <1>4, <2>1, <2>2, <2>3 DEF Gone
<1> QED BY <1>3, <1>4

LEMMA GoneMore ==
  ASSUME NEW a, NEW b, NEW c, NEW S1, NEW S2, Gone(b, a, S1), Gone(c, b, S2)
  PROVE  Gone(c, a, S1 \cup S2)
BY DEF Gone

LEMMA RemoveNodesGone ==
  ASSUME NEW state \in GoodStates, NEW S \in SUBSET Nodes
  PROVE  Gone(RemoveNodes(state, S).state, state, S)
<1>1. PICK f \in [SUBSET S -> Reports] : RemovesInto(f, state, S)
  BY RemoveNodesFold
<1> DEFINE T == {s \in SUBSET S : ~Gone(f[s].state, state, s)}
<1>2. {} \notin T
  <2>1. f[{}].state = state
    BY <1>1 DEF RemovesInto, Start, Result
  <2>2. Gone(state, state, {})
    BY DEF Gone
  <2> QED BY <2>1, <2>2
<1>3. ASSUME NEW s \in T
      PROVE  \E x \in s : s \ {x} \in T
  <2>1. s \in SUBSET S /\ s # {}
    BY <1>2
  <2>2. PICK x \in s : f[s] = AfterRemoveNode(f[s \ {x}], x)
    BY <1>1, <2>1 DEF RemovesInto
  <2>3. PICK before \in GoodStates : before = f[s \ {x}].state
    BY <2>1, ReportParts
  <2>4. PICK after, rest : after = f[s].state /\ rest = s \ {x}
    OBVIOUS
  <2>5. after = RemoveNode(before, x).state
    BY <2>2, <2>3, <2>4 DEF AfterRemoveNode, Result
  <2>6. Gone(after, before, {x})
    BY <2>1, <2>5, RemoveNodeGone
  <2>7. Gone(before, state, rest) => Gone(after, state, rest \cup {x})
    BY <2>6, GoneMore
  <2>8. rest \cup {x} = s
    BY <2>4
  <2> QED BY <2>1, <2>3, <2>4, <2>7, <2>8
<1>4. T = {}
  BY <1>2, <1>3, SubsetFinite, SetInduction
<1>5. Gone(f[S].state, state, S)
  BY <1>4
<1> QED BY <1>1, <1>5 DEF RemovesInto

-----------------------------------------------------------------------------
(* A sync of a node.                                                        *)
Adds(new, old, links) == Keeps(new, old) /\ Ends(new) = Ends(old) \cup links

LEMMA AddsMore ==
  ASSUME NEW a, NEW b, NEW c, NEW L1, NEW L2, Adds(b, a, L1), Adds(c, b, L2)
  PROVE  Adds(c, a, L1 \cup L2)
<1>1. Ends(c) = Ends(a) \cup (L1 \cup L2)
  BY DEF Adds
<1>2. Keeps(c, a)
  BY DEF Adds, Keeps
<1> QED BY <1>1, <1>2 DEF Adds

LEMMA AfterSyncAdds ==
  ASSUME NEW id \in Nodes, NEW neighbor \in Nodes \ {id}, NEW links, links[neighbor] \in LinkCosts,
         NEW r \in ReportsWith(id)
  PROVE  Adds(AfterSync(r, id, links, neighbor).state, r.state, LinksBetween(id, {neighbor}))
<1>1. r.state \in GoodStates /\ id \in DOMAIN r.state.nodes
  BY ReportParts DEF ReportsWith
<1>2. OnlyId(neighbor) \in PartialNodes /\ OnlyId(neighbor).id = neighbor /\ OnlyId(neighbor).cost = None
  BY OnlyIdType DEF OnlyId, PartialNode
<1>3. PICK n1 \in Reports : n1 = GetOrUpdateNode(r.state, OnlyId(neighbor))
  BY <1>1, <1>2, GetOrUpdateNodeGood
<1>4. n1.state \in GoodStates /\ {id, neighbor} \subseteq DOMAIN n1.state.nodes
  BY <1>1, <1>2, <1>3, GetOrUpdateNodeGood, ReportParts
<1>5. PICK cost \in LinkCosts : cost = links[neighbor]
  OBVIOUS
<1>6. PICK n2 \in Reports : /\ n2 = UpdateBothEnds(n1.state, id, neighbor, cost)
                            /\ n2.state.nodes = n1.state.nodes
  BY <1>4, UpdateBothEndsGood
<1>7. Ends(n1.state) = Ends(r.state) /\ Keeps(n1.state, r.state)
  BY <1>1, <1>2, <1>3, GetOrUpdateNodeKeeps
<1>8. Ends(n2.state) = Ends(n1.state) \cup {<<id, neighbor>>, <<neighbor, id>>}
  BY <1>4, <1>6, UpdateBothEndsLinks
<1>9. PICK after : after = n2.state
  OBVIOUS
<1>10. AfterSync(r, id, links, neighbor).state = after
  BY <1>3, <1>5, <1>6, <1>9 DEF AfterSync, Result
<1>11. LinksBetween(id, {neighbor}) = {<<id, neighbor>>, <<neighbor, id>>}
  BY DEF LinksBetween
<1>12. Keeps(after, r.state)
  BY <1>6, <1>7, <1>9 DEF Keeps
<1> QED BY <1>7, <1>8, <1>9, <1>10, <1>11, <1>12 DEF Adds

LEMMA SyncAllAdds ==
  ASSUME NEW state \in GoodStates, NEW id \in DOMAIN state.nodes,
         NEW links, NEW S \in SUBSET (Nodes \ {id}),
         \A neighbor \in S : links[neighbor] \in LinkCosts
  PROVE  Adds(SyncAll(state, id, links, S).state, state, LinksBetween(id, S))
<1>1. PICK R : R = ReportsWith(id)
  OBVIOUS
<1>2. PICK f \in [SUBSET S -> R] : SyncsInto(f, state, id, links, S)
  BY <1>1, SyncAllFold
<1>3. id \in Nodes
  BY StateParts
<1> DEFINE T == {s \in SUBSET S : ~Adds(f[s].state, state, LinksBetween(id, s))}
<1>4. {} \notin T
  <2>1. f[{}].state = state
    BY <1>2 DEF SyncsInto, Start, Result
  <2>2. Adds(state, state, LinksBetween(id, {}))
    BY DEF Adds, Keeps, LinksBetween
  <2> QED BY <2>1, <2>2
<1>5. ASSUME NEW s \in T
      PROVE  \E x \in s : s \ {x} \in T
  <2>1. s \in SUBSET S /\ s # {}
    BY <1>4
  <2>2. PICK x \in s : f[s] = AfterSync(f[s \ {x}], id, links, x)
    BY <1>2, <2>1 DEF SyncsInto
  <2>3. PICK before \in ReportsWith(id) : before = f[s \ {x}]
    BY <1>1, <2>1
  <2>4. PICK after, rest, L1, L2 :
          /\ after = f[s].state /\ rest = s \ {x}
          /\ L1 = LinksBetween(id, rest) /\ L2 = LinksBetween(id, {x})
    OBVIOUS
  <2>5. x \in Nodes \ {id} /\ links[x] \in LinkCosts
    BY <2>1
  <2>6. Adds(after, before.state, L2)
    BY <1>3, <2>2, <2>3, <2>4, <2>5, AfterSyncAdds
  <2>7. Adds(before.state, state, L1) => Adds(after, state, L1 \cup L2)
    BY <2>6, AddsMore
  <2>8. L1 \cup L2 = LinksBetween(id, s)
    BY <2>4 DEF LinksBetween
  <2>9. rest \in SUBSET S /\ f[rest] = before
    BY <2>1, <2>3, <2>4
  <2> QED BY <2>1, <2>4, <2>7, <2>8, <2>9
<1>6. T = {}
  BY <1>4, <1>5, SubsetFinite, SetInduction
<1>7. Adds(f[S].state, state, LinksBetween(id, S))
  BY <1>6
<1> QED BY <1>2, <1>7 DEF SyncsInto

(* After the sync of a node its links are those of its table; those of the  *)
(* other nodes among themselves, and what the others cost, are as before.   *)
Synced(new, old, id, table) ==
  /\ id \in DOMAIN new.nodes
  /\ \A n \in DOMAIN old.nodes \ {id} : n \in DOMAIN new.nodes /\ new.nodes[n].cost = old.nodes[n].cost
  /\ \A m \in Nodes : <<id, m>> \in Ends(new) <=> m \in table
  /\ \A n, m \in Nodes \ {id} : <<n, m>> \in Ends(new) <=> <<n, m>> \in Ends(old)

LEMMA SyncLinkExact ==
  ASSUME NEW state \in GoodStates, NEW id \in DOMAIN state.nodes,
         NEW links, DOMAIN links \subseteq Nodes \ {id},
         \A neighbor \in DOMAIN links : links[neighbor] \in LinkCosts
  PROVE  LET new == SyncLink(state, id, links).state
         IN  Keeps(new, state) /\ Synced(new, state, id, DOMAIN links)
<1>1. id \in Nodes /\ OnlyId(id) \in PartialNodes /\ OnlyId(id).id = id /\ OnlyId(id).cost = None
  BY StateParts, OnlyIdType DEF OnlyId, PartialNode
<1>2. PICK r1 \in Reports : r1 = GetOrUpdateNode(state, OnlyId(id))
  BY <1>1, GetOrUpdateNodeGood
<1>3. r1.state \in GoodStates /\ id \in DOMAIN r1.state.nodes
  BY <1>1, <1>2, GetOrUpdateNodeGood, ReportParts
<1>4. Ends(r1.state) = Ends(state) /\ Keeps(r1.state, state)
  BY <1>1, <1>2, GetOrUpdateNodeKeeps
<1>5. PICK S : S = DOMAIN links
  OBVIOUS
<1>6. PICK r2 \in Reports : r2 = SyncAll(r1.state, id, links, S)
  <2>1. PICK R : R = ReportsWith(id)
    OBVIOUS
  <2>2. SyncAll(r1.state, id, links, S) \in R
    BY <1>3, <1>5, <2>1, SyncAllGood
  <2> QED BY <2>1, <2>2 DEF ReportsWith
<1>7. Adds(r2.state, r1.state, LinksBetween(id, S))
  BY <1>3, <1>5, <1>6, SyncAllAdds
<1>8. PICK old \in SUBSET Nodes : old = AllLinks(r2.state, id) \ S
  BY ReportParts, AllLinksNodes
<1>9. r2.state \in GoodStates /\ IsFiniteSet(old)
  BY ReportParts, SubsetFinite
<1>10. PICK r3 \in Reports : r3 = RemoveLinks(r2.state, id, old)
                             /\ Without(r3.state, r2.state, LinksBetween(id, old))
  BY <1>1, <1>9, RemoveLinksGood
<1>11. SyncLink(state, id, links).state = r3.state
  BY <1>2, <1>5, <1>6, <1>8, <1>10, Zenon DEF SyncLink, SyncAll, Result
<1>12. PICK E0, E2, E3 : E0 = Ends(state) /\ E2 = Ends(r2.state) /\ E3 = Ends(r3.state)
  OBVIOUS
<1>13. E2 = E0 \cup LinksBetween(id, S) /\ E3 = E2 \ LinksBetween(id, old)
  <2>1. E2 = E0 \cup LinksBetween(id, S)
    BY <1>4, <1>7, <1>12 DEF Adds
  <2>2. E3 = E2 \ LinksBetween(id, old)
    BY <1>10, <1>12 DEF Ends, Without
  <2> QED BY <2>1, <2>2
<1>14. old = {m \in Nodes : <<id, m>> \in E2} \ S /\ id \notin old
  <2>1. AllLinks(r2.state, id) = {m \in Nodes : <<id, m>> \in E2} /\ E2 \subseteq Links
    BY <1>9, <1>12, EndsAreLinks
  <2>2. <<id, id>> \notin Links
    BY DEF Links
  <2> QED BY <1>8, <2>1, <2>2
<1>15. ASSUME NEW m \in Nodes
       PROVE  <<id, m>> \in E3 <=> m \in S
  <2>1. CASE m \in S
    <3>1. <<id, m>> \in LinksBetween(id, S)
      BY <2>1 DEF LinksBetween
    <3>2. <<id, m>> \notin LinksBetween(id, old)
      BY <1>14, <2>1 DEF LinksBetween
    <3> QED BY <1>13, <2>1, <3>1, <3>2
  <2>2. CASE m \notin S
    <3>1. <<id, m>> \in E2 => <<id, m>> \in LinksBetween(id, old)
      BY <1>14, <2>2 DEF LinksBetween
    <3> QED BY <1>13, <2>2, <3>1
  <2> QED BY <2>1, <2>2
<1>16. \A n, m \in Nodes \ {id} : <<n, m>> \in E3 <=> <<n, m>> \in E0
  <2>1. \A n, m \in Nodes \ {id} :
          <<n, m>> \notin LinksBetween(id, S) /\ <<n, m>> \notin LinksBetween(id, old)
    BY DEF LinksBetween
  <2> QED BY <1>13, <2>1
<1>17. Keeps(r3.state, state)
  <2>1. r3.state.nodes = r2.state.nodes
    BY <1>10 DEF Without
  <2>2. Keeps(r2.state, state)
    BY <1>4, <1>7 DEF Adds, Keeps
  <2> QED BY <2>1, <2>2 DEF Keeps
<1>18. Synced(r3.state, state, id, S)
  BY <1>12, <1>15, <1>16, <1>17 DEF Synced, Keeps
<1> QED BY <1>5, <1>11, <1>17, <1>18

LEMMA SyncFrameExact ==
  ASSUME NEW state \in GoodStates, NEW frame, NEW n \in Nodes,
         frame.source = n, frame.cost \in Costs, frame.neighbors \in SUBSET DOMAIN LinkCost[n]
  PROVE  LET new == OnReceiveNodeSyncFrame(state, frame).state
         IN  Synced(new, state, n, frame.neighbors) /\ new.nodes[n].cost = frame.cost
<1>1. PICK a \in PartialNodes : a = PartialNode(n, frame.cost, None)
  BY DEF PartialNode, PartialNodes
<1>2. a.id = n /\ a.cost = frame.cost /\ a.cost # None
  BY <1>1, ObserverAssumption DEF PartialNode
<1>3. PICK r1 \in Reports : r1 = UpdateNode(state, a) /\ r1 = GetOrUpdateNode(state, a)
  BY GetOrUpdateNodeGood DEF UpdateNode
<1>4. r1.state \in GoodStates /\ DOMAIN r1.state.nodes = DOMAIN state.nodes \cup {n}
  BY <1>2, <1>3, GetOrUpdateNodeGood, ReportParts
<1>5. /\ Ends(r1.state) = Ends(state) /\ r1.state.nodes[n].cost = frame.cost
      /\ \A id \in DOMAIN state.nodes \ {n} : r1.state.nodes[id] = state.nodes[id]
  BY <1>2, <1>3, GetOrUpdateNodeKeeps
<1>6. PICK links : links = [m \in frame.neighbors |-> LinkCost[n][m]]
  OBVIOUS
<1>7. /\ DOMAIN links = frame.neighbors
      /\ DOMAIN links \subseteq Nodes \ {n} /\ \A m \in DOMAIN links : links[m] \in LinkCosts
  BY <1>6, LinkCostType
<1>8. PICK new : new = SyncLink(r1.state, n, links).state
  OBVIOUS
<1>9. Keeps(new, r1.state) /\ Synced(new, r1.state, n, frame.neighbors)
  BY <1>4, <1>7, <1>8, SyncLinkExact
<1>10. OnReceiveNodeSyncFrame(state, frame).state = new
  BY <1>1, <1>3, <1>6, <1>8 DEF OnReceiveNodeSyncFrame, Result
<1>11. new.nodes[n].cost = frame.cost
  BY <1>4, <1>5, <1>9 DEF Keeps
<1>12. Synced(new, state, n, frame.neighbors)
  BY <1>4, <1>5, <1>9 DEF Keeps, Synced
<1> QED BY <1>10, <1>11, <1>12

-----------------------------------------------------------------------------
(* What the sink knows of the nodes whose syncs it has taken: that they are *)
(* there, what they cost, and which links between two of them there are; a  *)
(* link of one of them is in its table, or another of them told of it.      *)
Caught(state, nodes, S) ==
  \A n \in S :
    /\ n \in DOMAIN state.nodes /\ state.nodes[n].cost = nodes[n].cost
    /\ \A m \in Nodes :
         <<n, m>> \in Ends(state) => m \in nodes[n].table \/ (m \in S /\ n \in nodes[m].table)
    /\ \A m \in S : (m \in nodes[n].table /\ n \in nodes[m].table) => <<n, m>> \in Ends(state)

SyncedAreCaught == Caught(sink.state, node, synced)

LEMMA CaughtSynced ==
  ASSUME NEW new \in GoodStates, NEW state \in GoodStates, NEW nodes, NEW S \in SUBSET Nodes,
         NEW id \in Nodes, NEW table, table = nodes[id].table,
         \A n \in Nodes : n \notin nodes[n].table,
         Caught(state, nodes, S), Synced(new, state, id, table),
         new.nodes[id].cost = nodes[id].cost
  PROVE  Caught(new, nodes, S \cup {id})
<1>1. ASSUME NEW m \in Nodes
      PROVE  /\ <<id, m>> \in Ends(new) <=> m \in table
             /\ <<m, id>> \in Ends(new) <=> m \in table
  <2>1. <<id, m>> \in Ends(new) <=> m \in table
    BY DEF Synced
  <2>2. <<id, m>> \in Ends(new) <=> <<m, id>> \in Ends(new)
    BY EndsSymmetric
  <2> QED BY <2>1, <2>2
<1>2. \A n, m \in Nodes \ {id} : <<n, m>> \in Ends(new) <=> <<n, m>> \in Ends(state)
  BY DEF Synced
<1>3. ASSUME NEW n \in S \cup {id}
      PROVE  n \in DOMAIN new.nodes /\ new.nodes[n].cost = nodes[n].cost
  BY DEF Caught, Synced
<1>4. ASSUME NEW n \in S \cup {id}, NEW m \in Nodes, <<n, m>> \in Ends(new)
      PROVE  m \in nodes[n].table \/ (m \in S \cup {id} /\ n \in nodes[m].table)
  <2>1. CASE n = id
    BY <1>1, <1>4, <2>1
  <2>2. CASE n # id /\ m = id
    BY <1>1, <1>4, <2>2
  <2>3. CASE n # id /\ m # id
    BY <1>2, <1>4, <2>3 DEF Caught
  <2> QED BY <2>1, <2>2, <2>3
<1>5. ASSUME NEW n \in S \cup {id}, NEW m \in S \cup {id}, m \in nodes[n].table, n \in nodes[m].table
      PROVE  <<n, m>> \in Ends(new)
  <2>1. CASE n = id
    BY <1>1, <1>5, <2>1
  <2>2. CASE n # id /\ m = id
    BY <1>1, <1>5, <2>2
  <2>3. CASE n # id /\ m # id
    BY <1>2, <1>5, <2>3 DEF Caught
  <2> QED BY <2>1, <2>2, <2>3
<1> QED BY <1>3, <1>4, <1>5 DEF Caught

LEMMA CaughtGone ==
  ASSUME NEW new, NEW state, NEW nodes, NEW S \in SUBSET Nodes, NEW R,
         Caught(state, nodes, S), Gone(new, state, R)
  PROVE  Caught(new, nodes, S \cap DOMAIN new.nodes)
<1>1. \A n \in DOMAIN new.nodes : n \notin R /\ new.nodes[n] = state.nodes[n]
  BY DEF Gone
<1>2. \A n, m \in Nodes : <<n, m>> \in Ends(new) <=> (<<n, m>> \in Ends(state) /\ n \notin R /\ m \notin R)
  BY DEF Gone
<1>3. ASSUME NEW n \in S \cap DOMAIN new.nodes, NEW m \in Nodes, <<n, m>> \in Ends(new)
      PROVE  m \in nodes[n].table \/ (m \in S \cap DOMAIN new.nodes /\ n \in nodes[m].table)
  <2>1. <<n, m>> \in Ends(state) /\ m \notin R
    BY <1>2, <1>3
  <2>2. m \in nodes[n].table \/ (m \in S /\ n \in nodes[m].table)
    BY <2>1 DEF Caught
  <2>3. m \in S => m \in DOMAIN new.nodes
    BY <2>1 DEF Caught, Gone
  <2> QED BY <2>2, <2>3
<1>4. ASSUME NEW n \in S \cap DOMAIN new.nodes, NEW m \in S \cap DOMAIN new.nodes,
             m \in nodes[n].table, n \in nodes[m].table
      PROVE  <<n, m>> \in Ends(new)
  BY <1>1, <1>2, <1>4 DEF Caught
<1>5. \A n \in S \cap DOMAIN new.nodes : new.nodes[n].cost = nodes[n].cost
  BY <1>1 DEF Caught
<1> QED BY <1>3, <1>4, <1>5 DEF Caught

SameTables(new, old) == \A n \in Nodes : new[n].table = old[n].table /\ new[n].cost = old[n].cost

LEMMA CaughtUnmoved ==
  ASSUME TypeOK, SyncedAreCaught, synced' = synced, sink'.state = sink.state,
         SameTables(node', node)
  PROVE  SyncedAreCaught'
<1>1. Caught(sink.state, node, synced) /\ synced \in SUBSET Nodes
  BY DEF SyncedAreCaught, TypeOK
<1>2. PICK state, before, after, S :
        state = sink.state /\ before = node /\ after = node' /\ S = synced
  OBVIOUS
<1>3. Caught(state, after, S)
  BY <1>1, <1>2 DEF Caught, SameTables
<1>4. Caught(sink'.state, node', synced')
  BY <1>2, <1>3
<1> QED BY <1>4, Zenon DEF SyncedAreCaught, Caught, Ends

LEMMA NotifyCaught ==
  ASSUME NEW n, NEW state, NEW notification, Notify(n, state, notification)
  PROVE  SyncedAreCaught'
<1>1. synced' = {}
  BY DEF Notify
<1> QED BY <1>1 DEF SyncedAreCaught, Caught

LEMMA NodeStepCaught ==
  ASSUME TypeOK, SyncedAreCaught, NEW n \in Nodes,
         Subscribe(n) \/ ExpireSubscriber(n) \/ NotifySink(n) \/ Sync(n)
  PROVE  SyncedAreCaught'
<1>1. synced' = synced /\ sink' = sink
  BY DEF Subscribe, ExpireSubscriber, NotifySink, Sync
<1>2. node[n] \in NodeStates(n) /\ node = [m \in Nodes |-> node[m]]
  BY NodeType DEF TypeOK, NodesOK
<1>3. \/ node' = node
      \/ node' = [node EXCEPT ![n] = node'[n]] /\ node'[n].table = node[n].table
                                               /\ node'[n].cost = node[n].cost
  <2>1. CASE Subscribe(n)
    BY <1>2, <2>1 DEF Subscribe, Subscribed, NodeStates
  <2>2. CASE ExpireSubscriber(n)
    BY <1>2, <2>2 DEF ExpireSubscriber, NodeStates
  <2>3. CASE NotifySink(n)
    BY <1>2, <2>3 DEF NotifySink, NodeStates
  <2>4. CASE Sync(n)
    BY <2>4 DEF Sync
  <2> QED BY <2>1, <2>2, <2>3, <2>4
<1>4. SameTables(node', node)
  BY <1>2, <1>3 DEF SameTables
<1> QED BY <1>1, <1>4, CaughtUnmoved

LEMMA ClientStepCaught ==
  ASSUME TypeOK, SyncedAreCaught,
         \/ \E frame \in toSink : Lose(frame)
         \/ ReceiveNetworkSubscription \/ ExpireClient \/ NotifyClient
         \/ \E i \in DOMAIN sink.jobs : SendFrame(i)
         \/ ReceiveNetworkNotification \/ PruneCopy \/ UNCHANGED vars
  PROVE  SyncedAreCaught'
<1>1. synced' = synced /\ node' = node
  BY DEF Lose, ReceiveNetworkSubscription, ExpireClient, NotifyClient, SendFrame,
         ReceiveNetworkNotification, PruneCopy, vars
<1>2. sink \in SinkStates
  BY DEF TypeOK
<1>3. sink'.state = sink.state
  <2>1. CASE ReceiveNetworkSubscription
    BY <1>2, <2>1 DEF ReceiveNetworkSubscription, SinkStates
  <2>2. CASE ExpireClient
    BY <1>2, <2>2 DEF ExpireClient, SinkStates
  <2>3. CASE NotifyClient
    BY <1>2, <2>3 DEF NotifyClient, SinkStates
  <2>4. ASSUME NEW i \in DOMAIN sink.jobs, SendFrame(i)
        PROVE  sink'.state = sink.state
    BY <1>2, <2>4 DEF SendFrame, SinkStates
  <2>5. CASE \/ \E frame \in toSink : Lose(frame)
             \/ ReceiveNetworkNotification \/ PruneCopy \/ UNCHANGED vars
    BY <2>5 DEF Lose, ReceiveNetworkNotification, PruneCopy, vars
  <2> QED BY <2>1, <2>2, <2>3, <2>4, <2>5
<1>4. SameTables(node', node)
  BY <1>1 DEF SameTables
<1> QED BY <1>1, <1>3, <1>4, CaughtUnmoved

LEMMA PruneSinkCaught ==
  ASSUME TypeOK, SyncedAreCaught, PruneSink
  PROVE  SyncedAreCaught'
<1>1. Head(sink.prunes) \in SUBSET Nodes /\ sink.state \in GoodStates /\ sink \in SinkStates
  BY SinkParts DEF PruneSink, TypeOK
<1>2. PICK S \in SUBSET Nodes : S = Head(sink.prunes) \cap UnreachableNodes(sink.state, Sink)
  BY <1>1
<1>3. PICK new : new = RemoveNodes(sink.state, S).state
  OBVIOUS
<1>4. Gone(new, sink.state, S)
  BY <1>1, <1>3, RemoveNodesGone
<1>5. sink'.state = new
  <2>1. Pruned(sink.state, Head(sink.prunes)) = new
    BY <1>2, <1>3, Zenon DEF Pruned
  <2> QED BY <1>1, <2>1 DEF PruneSink, SinkStates
<1>6. synced' = synced \cap DOMAIN new.nodes /\ node' = node
  BY <1>5 DEF PruneSink
<1>7. PICK old, nodes, T : old = sink.state /\ nodes = node /\ T = synced
  OBVIOUS
<1>8. Caught(old, nodes, T) /\ T \in SUBSET Nodes /\ Gone(new, old, S)
  BY <1>4, <1>7 DEF SyncedAreCaught, TypeOK
<1>9. Caught(new, nodes, T \cap DOMAIN new.nodes)
  BY <1>8, CaughtGone
<1>10. Caught(sink'.state, node', synced')
  BY <1>5, <1>6, <1>7, <1>9
<1> QED BY <1>10, Zenon DEF SyncedAreCaught, Caught, Ends

LEMMA ReceiveCaught ==
  ASSUME TypeOK, SyncedAreCaught, NEW frame \in toSink, Receive(frame)
  PROVE  SyncedAreCaught'
<1>1. CASE frame # SyncFrame(frame.source)
  <2>1. synced' = {}
    BY <1>1 DEF Receive
  <2> QED BY <2>1 DEF SyncedAreCaught, Caught
<1>2. CASE frame = SyncFrame(frame.source)
  <2>1. frame \in NodeFrames /\ sink \in SinkStates /\ sink.state \in GoodStates
    BY SinkParts DEF TypeOK
  <2>2. PICK id \in Nodes : frame.source = id
    BY <2>1 DEF NodeFrames, NotificationFrames, SyncFrames
  <2>3. /\ frame.type = "Sync" /\ frame.cost = node[id].cost /\ frame.neighbors = node[id].table
    BY <1>2, <2>2 DEF SyncFrame
  <2>4. frame.cost \in Costs /\ frame.neighbors \in SUBSET DOMAIN LinkCost[id]
    BY <2>3, NodeType DEF NodeStates
  <2>5. PICK new : new = OnReceiveNodeSyncFrame(sink.state, frame).state
    OBVIOUS
  <2>6. Synced(new, sink.state, id, frame.neighbors) /\ new.nodes[id].cost = frame.cost
    BY <2>1, <2>2, <2>4, <2>5, SyncFrameExact
  <2>7. new \in GoodStates
    BY <2>1, <2>2, <2>4, <2>5, SyncGood, ReportParts
  <2>8. sink'.state = new
    <3>1. Taken(sink.state, frame).state = new
      BY <2>3, <2>5 DEF Taken
    <3> QED BY <2>1, <3>1 DEF Receive, SinkStates
  <2>9. synced' = synced \cup {id} /\ node' = node
    BY <1>2, <2>2 DEF Receive
  <2>10. PICK old, nodes, T : old = sink.state /\ nodes = node /\ T = synced
    OBVIOUS
  <2>11. old \in GoodStates /\ Caught(old, nodes, T) /\ T \in SUBSET Nodes
    BY <2>1, <2>10 DEF SyncedAreCaught, TypeOK
  <2>12. \A n \in Nodes : n \notin nodes[n].table
    <3>1. \A n \in Nodes : node[n].table \subseteq Nodes \ {n}
      BY NodeType, ObserverAssumption DEF NodeStates
    <3> QED BY <2>10, <3>1
  <2>13. PICK table : table = nodes[id].table
    OBVIOUS
  <2>14. Synced(new, old, id, table) /\ new.nodes[id].cost = nodes[id].cost
    BY <2>3, <2>6, <2>10, <2>13
  <2>15. Caught(new, nodes, T \cup {id})
    BY <2>7, <2>11, <2>12, <2>13, <2>14, CaughtSynced
  <2>16. Caught(sink'.state, node', synced')
    BY <2>8, <2>9, <2>10, <2>15
  <2> QED BY <2>16, Zenon DEF SyncedAreCaught, Caught, Ends
<1> QED BY <1>1, <1>2

LEMMA InitCaught == Init => SyncedAreCaught
BY DEF Init, SyncedAreCaught, Caught

LEMMA NextCaught == TypeOK /\ SyncedAreCaught /\ [Next]_vars => SyncedAreCaught'
<1> SUFFICES ASSUME TypeOK, SyncedAreCaught, [Next]_vars PROVE SyncedAreCaught'
  OBVIOUS
<1>1. ASSUME NEW n \in Nodes,
             \/ \E m \in DOMAIN LinkCost[n] : AddNeighbor(n, m) \/ RemoveNeighbor(n, m)
             \/ \E cost \in Costs : ChangeCost(n, cost)
             \/ ReceiveFrame(n)
      PROVE  SyncedAreCaught'
  BY <1>1, NotifyCaught DEF AddNeighbor, RemoveNeighbor, ChangeCost, ReceiveFrame
<1>2. ASSUME NEW n \in Nodes, Subscribe(n) \/ ExpireSubscriber(n) \/ NotifySink(n) \/ Sync(n)
      PROVE  SyncedAreCaught'
  BY <1>2, NodeStepCaught
<1>3. ASSUME NEW frame \in toSink, Receive(frame) PROVE SyncedAreCaught'
  BY <1>3, ReceiveCaught
<1>4. CASE PruneSink
  BY <1>4, PruneSinkCaught
<1>5. CASE \/ \E frame \in toSink : Lose(frame)
           \/ ReceiveNetworkSubscription \/ ExpireClient \/ NotifyClient
           \/ \E i \in DOMAIN sink.jobs : SendFrame(i)
           \/ ReceiveNetworkNotification \/ PruneCopy \/ UNCHANGED vars
  BY <1>5, ClientStepCaught
<1> QED BY <1>1, <1>2, <1>3, <1>4, <1>5, Zenon DEF Next

-----------------------------------------------------------------------------
(* A search in rounds finds, in as many rounds as there are nodes, all that *)
(* can be found.                                                            *)
Searches(f, N, first, H) == f[0] = first /\ \A i \in 1..N : f[i] = H[f[i - 1]]

LEMMA SearchExists ==
  ASSUME NEW N \in Nat, NEW R, NEW first \in R, NEW H \in [R -> R]
  PROVE  \E f \in [0..N -> R] : Searches(f, N, first, H)
<1>1. PICK I : I = 1..N
  OBVIOUS
<1> DEFINE G == [p \in I \X R |-> H[p[2]]]
<1>2. G \in [I \X R -> R]
  OBVIOUS
<1>3. PICK g \in [SUBSET I -> R] : FoldsLeft(g, I, R, first, G)
  <2> HIDE DEF G
  <2> QED BY <1>1, <1>2, FoldLeftInto
<1> DEFINE f == [i \in 0..N |-> g[1..i]]
<1>4. g[1..0] = first
  <2>1. 1..0 = {}
    OBVIOUS
  <2> HIDE DEF G
  <2> QED BY <1>3, <2>1 DEF FoldsLeft
<1>5. ASSUME NEW i \in 1..N
      PROVE  g[1..i] = H[g[1..(i - 1)]]
  <2>1. 1..i \in SUBSET I /\ 1..i # {} /\ 1..(i - 1) \in SUBSET I /\ i \in I
    <3>1. \A x \in 1..i : x \in 1..N
      OBVIOUS
    <3>2. \A x \in 1..(i - 1) : x \in 1..N
      OBVIOUS
    <3>3. i \in 1..i
      OBVIOUS
    <3> QED BY <1>1, <3>1, <3>2, <3>3
  <2>2. Max(1..i) = i /\ (1..i) \ {i} = 1..(i - 1)
    BY MaxOfInterval
  <2>3. g[1..i] = G[<<i, g[1..(i - 1)]>>] /\ g[1..(i - 1)] \in R
    <3>1. g[1..i] = G[<<Max(1..i), g[(1..i) \ {Max(1..i)}]>>]
      <4> HIDE DEF G
      <4> QED BY <1>3, <2>1 DEF FoldsLeft
    <3> HIDE DEF G
    <3> QED BY <2>1, <2>2, <3>1
  <2> QED BY <2>1, <2>3
<1>6. \A i \in 0..N : g[1..i] \in R
  <2> HIDE DEF f, G
  <2>1. ASSUME NEW i \in 0..N
        PROVE  1..i \in SUBSET I
    <3>1. i \in Int /\ i <= N
      OBVIOUS
    <3>2. \A x \in 1..i : x \in 1..N
      BY <3>1
    <3> QED BY <1>1, <3>2
  <2> QED BY <2>1
<1>7. f \in [0..N -> R]
  BY <1>6
<1>8. \A i \in 1..N : f[i] = H[f[i - 1]]
  <2>1. \A i \in 1..N : i \in 0..N /\ i - 1 \in 0..N
    OBVIOUS
  <2> HIDE DEF G
  <2> QED BY <1>5, <2>1
<1>9. f[0] = first
  BY <1>4
<1> HIDE DEF f
<1> QED BY <1>7, <1>8, <1>9 DEF Searches

GrowingSearch(f, V, N, first, H) ==
  /\ H \in [SUBSET V -> SUBSET V] /\ \A S \in SUBSET V : S \subseteq H[S]
  /\ first \in SUBSET V /\ first # {}
  /\ f \in [0..N -> SUBSET V] /\ Searches(f, N, first, H)

LEMMA SearchEnds ==
  ASSUME NEW V, IsFiniteSet(V), NEW N \in Nat, N = Cardinality(V), NEW first, NEW H, NEW f,
         GrowingSearch(f, V, N, first, H)
  PROVE  H[f[N]] = f[N]
<1>0. /\ H \in [SUBSET V -> SUBSET V] /\ (\A S \in SUBSET V : S \subseteq H[S])
      /\ first \in SUBSET V /\ first # {}
      /\ f \in [0..N -> SUBSET V] /\ Searches(f, N, first, H)
  BY DEF GrowingSearch
<1>1. \A i \in 0..N : IsFiniteSet(f[i]) /\ Cardinality(f[i]) \in Nat /\ Cardinality(f[i]) <= N
  BY <1>0, FS_Subset, FS_CardinalityType
<1> DEFINE Grown(i) == H[f[i]] = f[i] \/ Cardinality(f[i]) > i
           T == {i \in 0..N : ~Grown(i)}
<1>2. Grown(0)
  <2>1. f[0] = first /\ 0 \in 0..N
    BY <1>0 DEF Searches
  <2>2. PICK x \in first : TRUE
    BY <1>0
  <2>3. {x} \subseteq first /\ Cardinality({x}) = 1
    BY FS_Singleton
  <2>4. Cardinality({x}) <= Cardinality(first)
    BY <1>1, <2>1, <2>3, FS_Subset
  <2> QED BY <1>1, <2>1, <2>3, <2>4
<1>3. ASSUME NEW i \in 1..N, Grown(i - 1)
      PROVE  Grown(i)
  <2>1. i - 1 \in 0..N /\ i \in 0..N /\ f[i] = H[f[i - 1]]
    BY <1>0 DEF Searches
  <2>2. CASE H[f[i - 1]] = f[i - 1]
    BY <2>1, <2>2
  <2>3. CASE H[f[i - 1]] # f[i - 1]
    <3>1. Cardinality(f[i - 1]) >= i
      BY <1>1, <1>3, <2>1, <2>3
    <3>2. f[i - 1] \in SUBSET V /\ f[i] \in SUBSET V
      BY <1>0, <2>1
    <3>3. f[i - 1] \subseteq f[i]
      BY <1>0, <2>1, <3>2
    <3>4. PICK x \in f[i] : x \notin f[i - 1]
      BY <2>1, <2>3, <3>2, <3>3
    <3>5. f[i - 1] \cup {x} \subseteq f[i]
      BY <3>3
    <3>6. Cardinality(f[i - 1] \cup {x}) = Cardinality(f[i - 1]) + 1
      BY <1>1, <2>1, <3>4, FS_AddElement
    <3>7. Cardinality(f[i - 1] \cup {x}) <= Cardinality(f[i])
      BY <1>1, <2>1, <3>5, FS_Subset
    <3>8. Cardinality(f[i]) > i
      BY <1>1, <2>1, <3>1, <3>6, <3>7
    <3> QED BY <3>8
  <2> QED BY <2>2, <2>3
<1>4. ASSUME NEW i \in T
      PROVE  i - 1 \in T
  <2>1. i \in 1..N /\ i - 1 \in 0..N
    BY <1>2
  <2> HIDE DEF Grown
  <2> QED BY <1>3, <2>1
<1>5. T = {}
  <2>1. T \in SUBSET (0..N) /\ 0 \notin T
    BY <1>2
  <2> HIDE DEF T
  <2> QED BY <1>4, <2>1, Upward
<1>6. Grown(N)
  BY <1>5
<1> QED BY <1>1, <1>6

LEMMA SearchFinds ==
  ASSUME NEW V, NEW N \in Nat, NEW H, NEW first, NEW f, Searches(f, N, first, H),
         NEW P, first \subseteq P, \A S \in SUBSET P : H[S] \subseteq P
  PROVE  f[N] \subseteq P
<1> DEFINE T == {i \in 0..N : ~(f[i] \subseteq P)}
<1>1. 0 \notin T
  BY DEF Searches
<1>2. ASSUME NEW i \in T
      PROVE  i - 1 \in T
  <2>1. i \in 1..N /\ i - 1 \in 0..N
    BY <1>1
  <2>2. f[i] = H[f[i - 1]]
    BY <2>1 DEF Searches
  <2> QED BY <2>1, <2>2
<1>3. T = {}
  <2>1. T \in SUBSET (0..N)
    OBVIOUS
  <2> HIDE DEF T
  <2> QED BY <1>1, <1>2, <2>1, Upward
<1> QED BY <1>3

-----------------------------------------------------------------------------
(* The search that follows who hears whom.                                  *)
Heard(near) == near \cup {m \in Nodes : \E k \in near : Hears(k, m)}

LEMMA ConnectedRounds ==
  ASSUME NEW N \in Nat, N = Cardinality(Nodes), NEW H, H = [near \in SUBSET Nodes |-> Heard(near)]
  PROVE  \E f \in [0..N -> SUBSET Nodes] :
           Searches(f, N, {Sink}, H) /\ \A n : Connected(n) <=> n \in f[N]
<1> DEFINE F(f) == f = [i \in 0..Cardinality(Nodes) |-> IF i = 0 THEN {Sink}
                          ELSE f[i - 1] \cup {m \in Nodes : \E k \in f[i - 1] : Hears(k, m)}]
<1>1. PICK R, first : R = SUBSET Nodes /\ first = {Sink}
  OBVIOUS
<1>2. H \in [R -> R] /\ first \in R /\ \A near \in R : H[near] = Heard(near)
  BY <1>1, ObserverAssumption DEF Heard
<1>3. \E f : F(f)
  <2>1. PICK f \in [0..N -> R] : Searches(f, N, first, H)
    BY <1>2, SearchExists
  <2>2. \A i \in 0..N : f[i] = IF i = 0 THEN {Sink}
                               ELSE f[i - 1] \cup {m \in Nodes : \E k \in f[i - 1] : Hears(k, m)}
    <3>1. \A i \in 0..N : i # 0 => i \in 1..N /\ i - 1 \in 0..N
      OBVIOUS
    <3>2. f[0] = {Sink}
      BY <1>1, <2>1 DEF Searches
    <3>3. ASSUME NEW i \in 0..N, i # 0
          PROVE  f[i] = f[i - 1] \cup {m \in Nodes : \E k \in f[i - 1] : Hears(k, m)}
      <4>1. f[i] = H[f[i - 1]] /\ f[i - 1] \in R
        BY <2>1, <3>1, <3>3 DEF Searches
      <4>2. f[i] = Heard(f[i - 1])
        BY <1>2, <4>1
      <4> QED BY <4>2 DEF Heard
    <3> QED BY <3>2, <3>3
  <2>3. F(f)
    BY <2>1, <2>2
  <2> HIDE DEF F
  <2> QED BY <2>3
<1>4. F(CHOOSE f : F(f))
  <2> HIDE DEF F
  <2> QED BY <1>3
<1>5. PICK f : F(f) /\ \A n : Connected(n) <=> n \in f[N]
  <2>1. \A n : Connected(n) <=> n \in (CHOOSE f : F(f))[Cardinality(Nodes)]
    BY Zenon DEF Connected
  <2>2. PICK f : f = CHOOSE h : F(h)
    OBVIOUS
  <2> HIDE DEF F
  <2> QED BY <1>4, <2>1, <2>2
<1>6. f[0] = first /\ \A i \in 1..N : f[i] = Heard(f[i - 1])
  <2>1. \A i \in 0..N : f[i] = IF i = 0 THEN {Sink}
                               ELSE f[i - 1] \cup {m \in Nodes : \E k \in f[i - 1] : Hears(k, m)}
    BY <1>5
  <2>2. 0 \in 0..N /\ \A i \in 1..N : i \in 0..N /\ i # 0
    OBVIOUS
  <2> HIDE DEF F
  <2> QED BY <1>1, <2>1, <2>2 DEF Heard
<1>7. \A i \in 0..N : f[i] \in R
  <2> DEFINE T == {i \in 0..N : f[i] \notin R}
  <2>1. 0 \notin T
    BY <1>2, <1>6
  <2>2. ASSUME NEW i \in T
        PROVE  i - 1 \in T
    <3>1. i \in 1..N /\ i - 1 \in 0..N /\ f[i] = Heard(f[i - 1])
      BY <1>6, <2>1
    <3>2. f[i - 1] \in R => f[i] \in R
      BY <1>1, <3>1 DEF Heard
    <3> QED BY <3>1, <3>2
  <2>3. T \in SUBSET (0..N)
    OBVIOUS
  <2>4. T = {}
    <3> HIDE DEF T
    <3> QED BY <2>1, <2>2, <2>3, Upward
  <2> QED BY <2>4
<1>8. f \in [0..N -> R]
  <2>1. f = [i \in 0..N |-> f[i]]
    BY <1>5
  <2> HIDE DEF F
  <2> QED BY <1>7, <2>1
<1>9. Searches(f, N, first, H)
  <2>1. \A i \in 1..N : i - 1 \in 0..N
    OBVIOUS
  <2> HIDE DEF F
  <2> QED BY <1>2, <1>6, <1>7, <2>1 DEF Searches
<1> HIDE DEF F
<1> QED BY <1>1, <1>5, <1>8, <1>9

LEMMA ConnectedClosed ==
  ASSUME NEW n, NEW m \in Nodes, Connected(n), Hears(n, m)
  PROVE  Connected(m)
<1>1. PICK N \in Nat : N = Cardinality(Nodes)
  BY ObserverAssumption, FS_CardinalityType
<1>2. PICK H : H = [near \in SUBSET Nodes |-> Heard(near)]
  OBVIOUS
<1>3. PICK f \in [0..N -> SUBSET Nodes] : Searches(f, N, {Sink}, H) /\ \A x : Connected(x) <=> x \in f[N]
  BY <1>1, <1>2, ConnectedRounds
<1>4. H \in [SUBSET Nodes -> SUBSET Nodes] /\ \A S \in SUBSET Nodes : S \subseteq H[S] /\ H[S] = Heard(S)
  BY <1>2 DEF Heard
<1>5. H[f[N]] = f[N]
  <2>1. GrowingSearch(f, Nodes, N, {Sink}, H)
    BY <1>3, <1>4, ObserverAssumption DEF GrowingSearch
  <2> QED BY <1>1, <2>1, ObserverAssumption, SearchEnds
<1>6. Heard(f[N]) = f[N] /\ n \in f[N]
  <2>1. f[N] \in SUBSET Nodes
    OBVIOUS
  <2> QED BY <1>3, <1>4, <1>5, <2>1
<1>7. m \in f[N]
  BY <1>6 DEF Heard
<1> QED BY <1>3, <1>7

LEMMA CaughtUp == TypeOK /\ SyncedAreCaught => SinkCatchesUp
<1> SUFFICES ASSUME TypeOK, SyncedAreCaught, Agreed, ConnectedNodes \subseteq synced
             PROVE  KnowsTheNetwork
  BY DEF SinkCatchesUp
<1>1. Caught(sink.state, node, synced) /\ sink.state \in GoodStates
  BY SinkParts DEF SyncedAreCaught
<1>2. ASSUME NEW n \in ConnectedNodes
      PROVE  /\ n \in DOMAIN sink.state.nodes /\ sink.state.nodes[n].cost = node[n].cost
             /\ AllLinks(sink.state, n) = node[n].table
  <2>1. n \in Nodes /\ Connected(n) /\ n \in synced
    BY DEF ConnectedNodes
  <2>2. n \in DOMAIN sink.state.nodes /\ sink.state.nodes[n].cost = node[n].cost
    BY <1>1, <2>1 DEF Caught
  <2>3. AllLinks(sink.state, n) = {m \in Nodes : <<n, m>> \in Ends(sink.state)}
    BY <1>1, EndsAreLinks
  <2>4. ASSUME NEW m \in Nodes, <<n, m>> \in Ends(sink.state)
        PROVE  m \in node[n].table
    <3>1. m \in node[n].table \/ n \in node[m].table
      BY <1>1, <2>1, <2>4 DEF Caught
    <3> QED BY <2>1, <3>1 DEF Agreed
  <2>5. ASSUME NEW m \in node[n].table
        PROVE  m \in Nodes /\ <<n, m>> \in Ends(sink.state)
    <3>1. m \in Nodes
      BY <2>1, NodeType, LinkCostType DEF NodeStates
    <3>2. n \in node[m].table
      BY <2>1, <3>1 DEF Agreed
    <3>3. Hears(n, m)
      BY <3>2 DEF Hears
    <3>4. m \in synced
      <4>1. Connected(m)
        BY <2>1, <3>1, <3>3, ConnectedClosed
      <4> QED BY <3>1, <4>1 DEF ConnectedNodes
    <3> QED BY <1>1, <2>1, <3>1, <3>2, <3>4 DEF Caught
  <2>6. AllLinks(sink.state, n) = node[n].table
    BY <2>3, <2>4, <2>5
  <2> QED BY <2>2, <2>6
<1> QED BY <1>2 DEF KnowsTheNetwork

(* In every network: once every connected node has synced since the network *)
(* last changed, and both ends of its links agree, the sink knows the links *)
(* and costs of all that is connected to it, whatever was lost before, and  *)
(* whatever it has removed since and not heard of again.                    *)
THEOREM SinkCatchesUpAlways == Spec => []SinkCatchesUp
<1>1. Init => TypeOK /\ SyncedAreCaught
  BY InitTypeOK, InitCaught
<1>2. TypeOK /\ SyncedAreCaught /\ [Next]_vars => (TypeOK /\ SyncedAreCaught)'
  BY NextTypeOK, NextCaught
<1> QED BY <1>1, <1>2, CaughtUp, PTL DEF Spec
-----------------------------------------------------------------------------
(* What is known about a pair of nodes, as a set of at most one element: the*)
(* cost of a node for n = m, and else the cost of the link between the two. *)
About(state, n, m) ==
  IF n = m THEN {state.nodes[id].cost : id \in {n} \cap DOMAIN state.nodes}
  ELSE {state.strong[link] : link \in {<<n, m>>, <<m, n>>} \cap DOMAIN state.strong}

(* What an update says about a pair, whatever was known before; and whether *)
(* it creates a node, of which no more is known.                            *)
Fixes(update, n, m) ==
  \/ n = m /\ update.type = "NodeUpdated" /\ update.node.id = n /\ update.node.cost # None
  \/ n # m /\ update.type \in {"LinkUpdated", "LinkRemoved"} /\ {update.source, update.destination} = {n, m}
Fixed(update, n, m) ==
  IF n = m THEN {update.node.cost}
  ELSE IF update.type = "LinkUpdated" THEN {update.linkCost} ELSE {}
Creates(update, n, m) ==
  /\ n = m
  /\ \/ update.type = "NodeUpdated" /\ update.node.id = n
     \/ update.type = "LinkUpdated" /\ n \in {update.source, update.destination}

Said(v, update, n, m) ==
  IF Fixes(update, n, m) THEN Fixed(update, n, m)
  ELSE IF Creates(update, n, m) /\ v = {} THEN {None} ELSE v

(* The same of a list of updates: the last one that fixes it counts.        *)
Fixing(updates, n, m) == {i \in DOMAIN updates : Fixes(updates[i], n, m)}
Creating(updates, n, m) == \E i \in DOMAIN updates : Creates(updates[i], n, m)
Value(v, updates, n, m) ==
  IF Fixing(updates, n, m) # {} THEN Fixed(updates[Max(Fixing(updates, n, m))], n, m)
  ELSE IF v = {} /\ Creating(updates, n, m) THEN {None} ELSE v

LEMMA LastFixing ==
  ASSUME NEW updates \in Seq(Updates), NEW n, NEW m, NEW i \in Fixing(updates, n, m),
         \A j \in Fixing(updates, n, m) : j <= i
  PROVE  \A v : Value(v, updates, n, m) = Fixed(updates[i], n, m)
<1>1. Fixing(updates, n, m) \in SUBSET (1..Len(updates)) /\ Len(updates) \in Nat
  BY DEF Fixing
<1>2. PICK k : k = Max(Fixing(updates, n, m))
  OBVIOUS
<1>3. k \in Fixing(updates, n, m)
  BY <1>1, <1>2, Greatest
<1>4. k >= i
  <2>1. \E x \in Fixing(updates, n, m) : \A y \in Fixing(updates, n, m) : x >= y
    BY <1>1
  <2>2. \A y \in Fixing(updates, n, m) : Max(Fixing(updates, n, m)) >= y
    BY <2>1, Zenon DEF Max
  <2> QED BY <1>2, <2>2
<1>5. k = i
  BY <1>1, <1>3, <1>4
<1> QED BY <1>2, <1>3, <1>5 DEF Value

LEMMA HasLast ==
  ASSUME NEW updates \in Seq(Updates), NEW n, NEW m, Fixing(updates, n, m) # {}
  PROVE  \E i \in Fixing(updates, n, m) : \A j \in Fixing(updates, n, m) : j <= i
<1>1. PICK N \in Nat : N = Len(updates)
  OBVIOUS
<1>2. PICK s \in SUBSET (1..N) : s = Fixing(updates, n, m)
  <2>1. DOMAIN updates = 1..N
    BY <1>1
  <2>2. Fixing(updates, n, m) \in SUBSET (1..N)
    BY <2>1 DEF Fixing
  <2> QED BY <2>2
<1> DEFINE T == {N - i : i \in s}
<1>3. T \in SUBSET Nat /\ T # {}
  <2>1. \A i \in s : N - i \in Nat
    OBVIOUS
  <2> QED BY <1>2, <2>1
<1>4. PICK least \in T : \A y \in T : least <= y
  <2> HIDE DEF T
  <2> QED BY <1>3, Least
<1>5. PICK i \in s : least = N - i
  OBVIOUS
<1>6. ASSUME NEW j \in s PROVE j <= i
  <2>1. N - i <= N - j
    BY <1>4, <1>5
  <2> QED BY <2>1
<1> QED BY <1>2, <1>6

LEMMA NothingFixed ==
  ASSUME NEW updates, NEW n, NEW m, Fixing(updates, n, m) = {}
  PROVE  \A v : Value(v, updates, n, m) =
                  IF v = {} /\ Creating(updates, n, m) THEN {None} ELSE v
BY DEF Value

LEMMA ValueEmpty == \A v, n, m : Value(v, <<>>, n, m) = v
<1>1. DOMAIN <<>> = {}
  OBVIOUS
<1> QED BY <1>1 DEF Value, Fixing, Creating

LEMMA ValueOne ==
  ASSUME NEW update \in Updates, NEW n, NEW m
  PROVE  \A v : Value(v, <<update>>, n, m) = Said(v, update, n, m)
<1>1. PICK us \in Seq(Updates) : us = <<update>>
  <2>1. <<update>> \in Seq(Updates)
    OBVIOUS
  <2> QED BY <2>1
<1>2. DOMAIN us = {1} /\ us[1] = update
  BY <1>1
<1>3. CASE Fixes(update, n, m)
  <2>1. Fixing(us, n, m) = {1}
    BY <1>2, <1>3 DEF Fixing
  <2>2. PICK i \in Fixing(us, n, m) : i = 1 /\ \A j \in Fixing(us, n, m) : j <= i
    BY <2>1
  <2>3. \A v : Value(v, us, n, m) = Fixed(us[i], n, m)
    BY <2>2, LastFixing
  <2> QED BY <1>1, <1>2, <1>3, <2>2, <2>3 DEF Said
<1>4. CASE ~Fixes(update, n, m)
  <2>1. Fixing(us, n, m) = {}
    BY <1>2, <1>4 DEF Fixing
  <2>2. \A v : Value(v, us, n, m) =
                  IF v = {} /\ Creating(us, n, m) THEN {None} ELSE v
    BY <2>1, NothingFixed
  <2>3. Creating(us, n, m) <=> Creates(update, n, m)
    BY <1>2 DEF Creating
  <2> QED BY <1>1, <1>4, <2>2, <2>3, Zenon DEF Said
<1> QED BY <1>3, <1>4

(* One list after the other.                                                *)
LEMMA ValueConcat ==
  ASSUME NEW a \in Seq(Updates), NEW b \in Seq(Updates), NEW n, NEW m
  PROVE  \A v : Value(v, a \o b, n, m) = Value(Value(v, a, n, m), b, n, m)
<1>1. PICK c \in Seq(Updates) : c = a \o b
  <2>1. a \o b \in Seq(Updates)
    BY ConcatProperties
  <2> QED BY <2>1
<1>2. /\ DOMAIN a = 1..Len(a) /\ DOMAIN b = 1..Len(b) /\ Len(a) \in Nat /\ Len(b) \in Nat
      /\ DOMAIN c = 1..(Len(a) + Len(b))
      /\ \A i \in 1..Len(a) : c[i] = a[i]
      /\ \A i \in 1..Len(b) : c[Len(a) + i] = b[i]
  BY <1>1, ConcatProperties
<1>3. \A i \in DOMAIN c : i \in DOMAIN a \/ \E j \in DOMAIN b : i = Len(a) + j
  <2> SUFFICES ASSUME NEW i \in DOMAIN c, i \notin DOMAIN a PROVE \E j \in DOMAIN b : i = Len(a) + j
    OBVIOUS
  <2>1. i - Len(a) \in DOMAIN b /\ i = Len(a) + (i - Len(a))
    BY <1>2
  <2> QED BY <2>1
<1>4. CASE Fixing(b, n, m) # {}
  <2>1. PICK j \in Fixing(b, n, m) : \A k \in Fixing(b, n, m) : k <= j
    BY <1>4, HasLast
  <2>2. j \in DOMAIN b /\ Len(a) + j \in Fixing(c, n, m) /\ c[Len(a) + j] = b[j]
    BY <1>2 DEF Fixing
  <2>3. ASSUME NEW i \in Fixing(c, n, m)
        PROVE  i <= Len(a) + j
    <3>1. CASE i \in DOMAIN a
      BY <1>2, <2>2, <3>1
    <3>2. ASSUME NEW k \in DOMAIN b, i = Len(a) + k
          PROVE  i <= Len(a) + j
      <4>1. k \in Fixing(b, n, m)
        BY <1>2, <3>2 DEF Fixing
      <4> QED BY <1>2, <2>1, <2>2, <3>2, <4>1
    <3> QED BY <1>3, <3>1, <3>2 DEF Fixing
  <2>4. \A v : Value(v, c, n, m) = Fixed(b[j], n, m)
    <3>1. PICK i \in Fixing(c, n, m) : i = Len(a) + j /\ c[i] = b[j]
      BY <2>2
    <3> QED BY <2>3, <3>1, LastFixing
  <2>5. \A v : Value(v, b, n, m) = Fixed(b[j], n, m)
    BY <2>1, LastFixing
  <2> QED BY <1>1, <2>4, <2>5
<1>5. CASE Fixing(b, n, m) = {} /\ Fixing(a, n, m) # {}
  <2>1. PICK i \in Fixing(a, n, m) : \A k \in Fixing(a, n, m) : k <= i
    BY <1>5, HasLast
  <2>2. i \in DOMAIN a /\ i \in Fixing(c, n, m) /\ c[i] = a[i] /\ Fixes(a[i], n, m)
    BY <1>2 DEF Fixing
  <2>3. Fixing(c, n, m) = Fixing(a, n, m)
    <3>1. ASSUME NEW k \in Fixing(c, n, m) PROVE k \in Fixing(a, n, m)
      <4>1. k \in DOMAIN a
        BY <1>2, <1>3, <1>5 DEF Fixing
      <4> QED BY <1>2, <4>1 DEF Fixing
    <3>2. ASSUME NEW k \in Fixing(a, n, m) PROVE k \in Fixing(c, n, m)
      BY <1>2 DEF Fixing
    <3> QED BY <3>1, <3>2
  <2>4. \A v : Value(v, c, n, m) = Fixed(a[i], n, m)
    BY <2>1, <2>2, <2>3, LastFixing
  <2>5. \A v : Value(v, a, n, m) = Fixed(a[i], n, m)
    BY <2>1, LastFixing
  <2>6. Value(Fixed(a[i], n, m), b, n, m) = Fixed(a[i], n, m)
    <3>1. CASE n = m
      <4>1. Fixed(a[i], n, m) # {}
        BY <3>1 DEF Fixed
      <4> QED BY <1>5, <4>1, NothingFixed
    <3>2. CASE n # m
      <4>1. ~Creating(b, n, m)
        BY <3>2 DEF Creating, Creates
      <4> QED BY <1>5, <4>1, NothingFixed
    <3> QED BY <3>1, <3>2
  <2> QED BY <1>1, <2>4, <2>5, <2>6
<1>6. CASE Fixing(b, n, m) = {} /\ Fixing(a, n, m) = {}
  <2>1. Fixing(c, n, m) = {}
    BY <1>2, <1>3, <1>6 DEF Fixing
  <2>2. Creating(c, n, m) <=> Creating(a, n, m) \/ Creating(b, n, m)
    <3>1. \A i \in DOMAIN a : i \in DOMAIN c
      BY <1>2
    <3>2. \A i \in DOMAIN b : Len(a) + i \in DOMAIN c
      BY <1>2
    <3> QED BY <1>2, <1>3, <3>1, <3>2 DEF Creating
  <2>3. /\ \A v : Value(v, a, n, m) = IF v = {} /\ Creating(a, n, m) THEN {None} ELSE v
        /\ \A v : Value(v, b, n, m) = IF v = {} /\ Creating(b, n, m) THEN {None} ELSE v
        /\ \A v : Value(v, c, n, m) = IF v = {} /\ Creating(c, n, m) THEN {None} ELSE v
    BY <1>6, <2>1, NothingFixed
  <2>4. ASSUME NEW v
        PROVE  Value(v, c, n, m) = Value(Value(v, a, n, m), b, n, m)
    <3>1. Value(v, a, n, m) = IF v = {} /\ Creating(a, n, m) THEN {None} ELSE v
      BY <2>3
    <3>2. Value(Value(v, a, n, m), b, n, m) =
            IF Value(v, a, n, m) = {} /\ Creating(b, n, m) THEN {None} ELSE Value(v, a, n, m)
      BY <2>3
    <3>3. Value(v, c, n, m) = IF v = {} /\ (Creating(a, n, m) \/ Creating(b, n, m)) THEN {None} ELSE v
      BY <2>2, <2>3
    <3> QED BY <3>1, <3>2, <3>3
  <2> QED BY <1>1, <2>4
<1> QED BY <1>4, <1>5, <1>6

(* To hear a list twice says no more than to hear it once.                  *)
LEMMA ValueTwice ==
  ASSUME NEW updates \in Seq(Updates), NEW n, NEW m
  PROVE  \A v : Value(Value(v, updates, n, m), updates, n, m) = Value(v, updates, n, m)
<1>1. CASE Fixing(updates, n, m) # {}
  BY <1>1 DEF Value
<1>2. CASE Fixing(updates, n, m) = {}
  BY <1>2, NothingFixed
<1> QED BY <1>1, <1>2

-----------------------------------------------------------------------------
(* An operation accounts for what it does by the updates it returns.        *)
Does(new, old, update) ==
  \A n, m \in Nodes : About(new, n, m) = Said(About(old, n, m), update, n, m)
SameAbout(new, old) == \A n, m \in Nodes : About(new, n, m) = About(old, n, m)
Reported(r, old, update) ==
  /\ Does(r.state, old, update)
  /\ r.updates = <<update>> \/ (r.updates = <<>> /\ SameAbout(r.state, old))
Accounts(r, old) ==
  \A n, m \in Nodes : About(r.state, n, m) = Value(About(old, n, m), r.updates, n, m)

LEMMA ReportedAccounts ==
  ASSUME NEW r, NEW old, NEW update \in Updates, Reported(r, old, update)
  PROVE  Accounts(r, old)
<1>1. CASE r.updates = <<update>>
  <2>1. \A n, m, v : Value(v, r.updates, n, m) = Said(v, update, n, m)
    BY <1>1, ValueOne
  <2> QED BY <2>1 DEF Reported, Accounts, Does
<1>2. CASE r.updates = <<>> /\ SameAbout(r.state, old)
  <2>1. \A n, m, v : Value(v, r.updates, n, m) = v
    BY <1>2, ValueEmpty
  <2> QED BY <1>2, <2>1 DEF Accounts, SameAbout
<1> QED BY <1>1, <1>2 DEF Reported

LEMMA NothingAccounts ==
  ASSUME NEW r, NEW old, r.updates = <<>>, SameAbout(r.state, old)
  PROVE  Accounts(r, old)
BY ValueEmpty DEF Accounts, SameAbout

LEMMA AccountsMore ==
  ASSUME NEW old, NEW r1 \in Reports, NEW r2 \in Reports, Accounts(r1, old), Accounts(r2, r1.state)
  PROVE  Accounts(Result(r2.state, r1.updates \o r2.updates), old)
<1>1. PICK a \in Seq(Updates), b \in Seq(Updates) : a = r1.updates /\ b = r2.updates
  BY ReportParts
<1>2. PICK r : r = Result(r2.state, r1.updates \o r2.updates)
  OBVIOUS
<1>3. r.state = r2.state /\ r.updates = a \o b
  BY <1>1, <1>2 DEF Result
<1>4. ASSUME NEW n \in Nodes, NEW m \in Nodes
      PROVE  About(r.state, n, m) = Value(About(old, n, m), r.updates, n, m)
  <2>1. About(r1.state, n, m) = Value(About(old, n, m), a, n, m)
    BY <1>1 DEF Accounts
  <2>2. About(r2.state, n, m) = Value(About(r1.state, n, m), b, n, m)
    BY <1>1 DEF Accounts
  <2>3. \A v : Value(v, a \o b, n, m) = Value(Value(v, a, n, m), b, n, m)
    BY ValueConcat
  <2> QED BY <1>3, <2>1, <2>2, <2>3
<1> QED BY <1>2, <1>4 DEF Accounts

LEMMA AccountsMost ==
  ASSUME NEW old, NEW r1 \in Reports, NEW r2 \in Reports, NEW r3 \in Reports,
         Accounts(r1, old), Accounts(r2, r1.state), Accounts(r3, r2.state)
  PROVE  Accounts(Result(r3.state, r1.updates \o r2.updates \o r3.updates), old)
<1>1. PICK r \in Reports : r = Result(r2.state, r1.updates \o r2.updates)
  BY Joined
<1>2. r.state = r2.state /\ r.updates = r1.updates \o r2.updates
  BY <1>1 DEF Result
<1>3. Accounts(r, old)
  BY <1>1, AccountsMore
<1>4. Accounts(Result(r3.state, r.updates \o r3.updates), old)
  BY <1>2, <1>3, AccountsMore
<1> QED BY <1>2, <1>4

(* What a state knows.                                                      *)
LEMMA AboutNode ==
  ASSUME NEW state, NEW n
  PROVE  /\ n \in DOMAIN state.nodes => About(state, n, n) = {state.nodes[n].cost}
         /\ n \notin DOMAIN state.nodes => About(state, n, n) = {}
BY DEF About

LEMMA AboutLink ==
  ASSUME NEW state \in GoodStates, NEW n, NEW m, n # m
  PROVE  /\ \A link \in DOMAIN state.strong :
              link = <<n, m>> \/ link = <<m, n>> => About(state, n, m) = {state.strong[link]}
         /\ <<n, m>> \notin DOMAIN state.strong /\ <<m, n>> \notin DOMAIN state.strong =>
              About(state, n, m) = {}
         /\ About(state, n, m) = About(state, m, n)
<1>1. Reversed(<<n, m>>) = <<m, n>> /\ Reversed(<<m, n>>) = <<n, m>>
  BY DEF Reversed
<1>2. ~(<<n, m>> \in DOMAIN state.strong /\ <<m, n>> \in DOMAIN state.strong)
  BY <1>1, StateParts DEF Mutual
<1>3. ASSUME NEW link \in DOMAIN state.strong, link = <<n, m>> \/ link = <<m, n>>
      PROVE  About(state, n, m) = {state.strong[link]}
  <2>1. {<<n, m>>, <<m, n>>} \cap DOMAIN state.strong = {link}
    BY <1>2, <1>3
  <2> QED BY <2>1 DEF About
<1>4. {<<n, m>>, <<m, n>>} = {<<m, n>>, <<n, m>>}
  OBVIOUS
<1> QED BY <1>3, <1>4 DEF About

(* Of a node that it does not know it knows nothing.                        *)
LEMMA AboutUnknown ==
  ASSUME NEW state \in GoodStates, NEW n \in Nodes, n \notin DOMAIN state.nodes, NEW m \in Nodes
  PROVE  About(state, n, m) = {} /\ About(state, m, n) = {}
<1>1. \A link \in DOMAIN state.strong : link[1] # n /\ link[2] # n
  BY StateParts DEF Mutual
<1>2. <<n, m>> \notin DOMAIN state.strong /\ <<m, n>> \notin DOMAIN state.strong
  BY <1>1
<1> QED BY <1>2, AboutNode, AboutLink

LEMMA GetOrUpdateNodeReported ==
  ASSUME NEW state \in GoodStates, NEW x \in PartialNodes
  PROVE  Reported(GetOrUpdateNode(state, x), state, NodeUpdated(x))
<1>1. PICK r \in Reports : r = GetOrUpdateNode(state, x)
  BY GetOrUpdateNodeGood
<1>2. /\ r.state \in GoodStates /\ SameLinks(r.state, state)
      /\ DOMAIN r.state.nodes = DOMAIN state.nodes \cup {x.id} /\ x.id \in Nodes
  BY <1>1, GetOrUpdateNodeGood, ReportParts DEF PartialNodes
<1>3. PICK merged : merged = IF x.id \notin DOMAIN state.nodes THEN x ELSE Merged(state.nodes[x.id], x)
  OBVIOUS
<1>4. r = Result([state EXCEPT !.nodes = Set(@, x.id, merged)],
                 IF x.id \notin DOMAIN state.nodes \/ merged # state.nodes[x.id]
                 THEN <<NodeUpdated(x)>> ELSE <<>>)
  BY <1>1, <1>3 DEF GetOrUpdateNode
<1>5. r.state.nodes = Set(state.nodes, x.id, merged)
  <2>1. r.state = [state EXCEPT !.nodes = Set(@, x.id, merged)]
    BY <1>4 DEF Result
  <2> QED BY <2>1, StateParts DEF NetworkStates
<1>6. /\ \A id \in DOMAIN state.nodes \ {x.id} : r.state.nodes[id] = state.nodes[id]
      /\ r.state.nodes[x.id] = merged
  BY <1>5 DEF Set
<1>7. merged.cost = IF x.id \in DOMAIN state.nodes /\ x.cost = None THEN state.nodes[x.id].cost ELSE x.cost
  BY <1>3 DEF Merged, Known, PartialNode
<1>8. ASSUME NEW n \in Nodes, NEW m \in Nodes, n # m \/ n # x.id
      PROVE  About(r.state, n, m) = About(state, n, m)
  <2>1. CASE n = m
    <3>1. n # x.id
      BY <1>8, <2>1
    <3>2. n \in DOMAIN r.state.nodes <=> n \in DOMAIN state.nodes
      BY <1>2, <3>1
    <3>3. n \in DOMAIN state.nodes => r.state.nodes[n] = state.nodes[n]
      BY <1>6, <3>1
    <3> QED BY <2>1, <3>2, <3>3, AboutNode
  <2>2. CASE n # m
    BY <1>2, <2>2 DEF About, SameLinks
  <2> QED BY <2>1, <2>2
<1>9. About(r.state, x.id, x.id) = {merged.cost}
  BY <1>2, <1>6, AboutNode
<1>10. NodeUpdated(x).type = "NodeUpdated" /\ NodeUpdated(x).node = x
  BY DEF NodeUpdated
<1>11. ASSUME NEW n \in Nodes, NEW m \in Nodes, n # m \/ n # x.id, NEW v
       PROVE  Said(v, NodeUpdated(x), n, m) = v
  BY <1>10, <1>11 DEF Said, Fixes, Creates
<1>12. Said(About(state, x.id, x.id), NodeUpdated(x), x.id, x.id) = {merged.cost}
  <2>1. CASE x.cost # None
    <3>1. Fixes(NodeUpdated(x), x.id, x.id)
      BY <1>10, <2>1 DEF Fixes
    <3> QED BY <1>7, <1>10, <2>1, <3>1 DEF Said, Fixed
  <2>2. CASE x.cost = None /\ x.id \in DOMAIN state.nodes
    <3>1. ~Fixes(NodeUpdated(x), x.id, x.id)
      BY <1>10, <2>2 DEF Fixes
    <3>2. About(state, x.id, x.id) = {merged.cost}
      BY <1>7, <2>2, AboutNode
    <3> QED BY <3>1, <3>2 DEF Said
  <2>3. CASE x.cost = None /\ x.id \notin DOMAIN state.nodes
    <3>1. ~Fixes(NodeUpdated(x), x.id, x.id) /\ Creates(NodeUpdated(x), x.id, x.id)
      BY <1>10, <2>3 DEF Fixes, Creates
    <3>2. About(state, x.id, x.id) = {} /\ merged.cost = None
      BY <1>7, <2>3, AboutNode
    <3> QED BY <3>1, <3>2 DEF Said
  <2> QED BY <2>1, <2>2, <2>3
<1>13. Does(r.state, state, NodeUpdated(x))
  <2>1. ASSUME NEW n \in Nodes, NEW m \in Nodes
        PROVE  About(r.state, n, m) = Said(About(state, n, m), NodeUpdated(x), n, m)
    <3>1. CASE n # m \/ n # x.id
      BY <1>8, <1>11, <3>1
    <3>2. CASE n = m /\ n = x.id
      BY <1>9, <1>12, <3>2
    <3> QED BY <3>1, <3>2
  <2> QED BY <2>1 DEF Does
<1>14. r.updates = <<NodeUpdated(x)>> \/ (r.updates = <<>> /\ SameAbout(r.state, state))
  <2>1. CASE x.id \notin DOMAIN state.nodes \/ merged # state.nodes[x.id]
    BY <1>4, <2>1 DEF Result
  <2>2. CASE x.id \in DOMAIN state.nodes /\ merged = state.nodes[x.id]
    <3>1. r.updates = <<>>
      BY <1>4, <2>2 DEF Result
    <3>2. About(state, x.id, x.id) = {merged.cost}
      BY <2>2, AboutNode
    <3>3. SameAbout(r.state, state)
      <4>1. ASSUME NEW n \in Nodes, NEW m \in Nodes
            PROVE  About(r.state, n, m) = About(state, n, m)
        BY <1>8, <1>9, <3>2
      <4> QED BY <4>1 DEF SameAbout
    <3> QED BY <3>1, <3>3
  <2> QED BY <2>1, <2>2
<1> QED BY <1>1, <1>13, <1>14 DEF Reported

(* The update of a link does not say which of its ends is the stronger.     *)
LEMMA SaidEitherWay ==
  ASSUME NEW a, NEW b, NEW cost, NEW n, NEW m, NEW v
  PROVE  Said(v, LinkUpdated(a, b, cost), n, m) = Said(v, LinkUpdated(b, a, cost), n, m)
<1>1. PICK u, w : u = LinkUpdated(a, b, cost) /\ w = LinkUpdated(b, a, cost)
  OBVIOUS
<1>2. /\ u.type = "LinkUpdated" /\ u.source = a /\ u.destination = b /\ u.linkCost = cost
      /\ w.type = "LinkUpdated" /\ w.source = b /\ w.destination = a /\ w.linkCost = cost
  BY <1>1 DEF LinkUpdated
<1>3. {a, b} = {b, a}
  OBVIOUS
<1>4. Fixes(u, n, m) <=> Fixes(w, n, m)
  BY <1>2, <1>3 DEF Fixes
<1>5. Creates(u, n, m) <=> Creates(w, n, m)
  BY <1>2, <1>3 DEF Creates
<1>6. Fixes(u, n, m) => Fixed(u, n, m) = Fixed(w, n, m)
  BY <1>2 DEF Fixes, Fixed
<1> QED BY <1>1, <1>4, <1>5, <1>6 DEF Said

LEMMA SaidOfLink ==
  ASSUME NEW a, NEW b, NEW cost, NEW n, NEW m, NEW v
  PROVE  Said(v, LinkUpdated(a, b, cost), n, m) =
           IF n = m THEN (IF n \in {a, b} /\ v = {} THEN {None} ELSE v)
           ELSE IF {a, b} = {n, m} THEN {cost} ELSE v
BY DEF Said, Fixes, Fixed, Creates, LinkUpdated

LEMMA UpdateBothEndsReported ==
  ASSUME NEW state \in GoodStates, NEW id1 \in Nodes, NEW id2 \in Nodes, id1 # id2,
         {id1, id2} \subseteq DOMAIN state.nodes, NEW linkCost \in LinkCosts
  PROVE  LET r == UpdateBothEnds(state, id1, id2, linkCost)
         IN  /\ Does(r.state, state, LinkUpdated(id1, id2, linkCost))
             /\ Accounts(r, state)
<1>1. PICK r \in Reports : r = UpdateBothEnds(state, id1, id2, linkCost) /\ r.state.nodes = state.nodes
  BY UpdateBothEndsGood
<1>2. PICK p \in GoodStates : /\ p = Prioritized(state, id1, id2) /\ p.nodes = state.nodes
                              /\ p.strong = state.strong /\ p.weak = state.weak
  BY PrioritizedGood
<1>3. PICK link : link = Stronger(p, id1, id2)
  OBVIOUS
<1>4. link \in {<<id1, id2>>, <<id2, id1>>} /\ link = <<link[1], link[2]>> /\ link \in Links
  BY <1>3 DEF Stronger, Links
<1>5. r = Result([p EXCEPT !.strong = Set(@, link, linkCost), !.weak = Set(@, Reversed(link), linkCost)],
                 IF link \notin DOMAIN p.strong \/ p.strong[link] # linkCost
                 THEN <<LinkUpdated(link[1], link[2], linkCost)>> ELSE <<>>)
  BY <1>1, <1>2, <1>3 DEF UpdateBothEnds
<1>6. /\ DOMAIN r.state.strong = DOMAIN state.strong \cup {link} /\ r.state.strong[link] = linkCost
      /\ \A l \in DOMAIN state.strong \ {link} : r.state.strong[l] = state.strong[l]
  <2>1. r.state = [p EXCEPT !.strong = Set(@, link, linkCost), !.weak = Set(@, Reversed(link), linkCost)]
    BY <1>5 DEF Result
  <2>2. r.state.strong = Set(state.strong, link, linkCost)
    BY <1>2, <2>1, StateParts DEF NetworkStates
  <2> QED BY <2>2 DEF Set
<1>7. r.state \in GoodStates
  BY ReportParts
<1>8. ASSUME NEW n \in Nodes, NEW m \in Nodes
      PROVE  About(r.state, n, m) = IF n # m /\ {id1, id2} = {n, m} THEN {linkCost} ELSE About(state, n, m)
  <2>1. CASE n = m
    BY <1>1, <2>1 DEF About
  <2>2. CASE n # m /\ {id1, id2} = {n, m}
    <3>1. link = <<n, m>> \/ link = <<m, n>>
      BY <1>4, <2>2
    <3>2. PICK s \in GoodStates : s = r.state
      BY <1>7
    <3>3. link \in DOMAIN s.strong /\ s.strong[link] = linkCost
      BY <1>6, <3>2
    <3>4. About(s, n, m) = {s.strong[link]}
      BY <2>2, <3>1, <3>3, AboutLink
    <3> QED BY <2>2, <3>2, <3>3, <3>4
  <2>3. CASE n # m /\ {id1, id2} # {n, m}
    <3>1. link # <<n, m>> /\ link # <<m, n>>
      BY <1>4, <2>3
    <3>2. {<<n, m>>, <<m, n>>} \cap DOMAIN r.state.strong = {<<n, m>>, <<m, n>>} \cap DOMAIN state.strong
      BY <1>6, <3>1
    <3>3. \A l \in {<<n, m>>, <<m, n>>} \cap DOMAIN state.strong : r.state.strong[l] = state.strong[l]
      BY <1>6, <3>1
    <3> QED BY <2>3, <3>2, <3>3 DEF About
  <2> QED BY <2>1, <2>2, <2>3
<1>9. ASSUME NEW n \in Nodes, n \in {id1, id2}
      PROVE  About(state, n, n) # {}
  BY <1>9, AboutNode
<1>10. Does(r.state, state, LinkUpdated(id1, id2, linkCost))
  <2>1. ASSUME NEW n \in Nodes, NEW m \in Nodes
        PROVE  About(r.state, n, m) = Said(About(state, n, m), LinkUpdated(id1, id2, linkCost), n, m)
    <3>1. PICK v, w : v = About(state, n, m) /\ w = About(r.state, n, m)
      OBVIOUS
    <3>2. w = IF n # m /\ {id1, id2} = {n, m} THEN {linkCost} ELSE v
      BY <1>8, <3>1
    <3>3. n = m /\ n \in {id1, id2} => v # {}
      BY <1>9, <3>1
    <3>4. Said(v, LinkUpdated(id1, id2, linkCost), n, m) =
            IF n = m THEN (IF n \in {id1, id2} /\ v = {} THEN {None} ELSE v)
            ELSE IF {id1, id2} = {n, m} THEN {linkCost} ELSE v
      BY SaidOfLink
    <3>5. Said(v, LinkUpdated(id1, id2, linkCost), n, m) = w
      BY <3>2, <3>3, <3>4
    <3> QED BY <3>1, <3>5
  <2> QED BY <2>1 DEF Does
<1>11. LinkUpdated(link[1], link[2], linkCost) \in Updates
  BY <1>4 DEF Links, LinkUpdated, Updates, TopologyUpdateTypes
<1>12. Reported(r, state, LinkUpdated(link[1], link[2], linkCost))
  <2>1. Does(r.state, state, LinkUpdated(link[1], link[2], linkCost))
    <3>1. (link[1] = id1 /\ link[2] = id2) \/ (link[1] = id2 /\ link[2] = id1)
      BY <1>4
    <3>2. CASE link[1] = id1 /\ link[2] = id2
      BY <1>10, <3>2
    <3>3. CASE link[1] = id2 /\ link[2] = id1
      BY <1>10, <3>3, SaidEitherWay DEF Does
    <3> QED BY <3>1, <3>2, <3>3
  <2>2. CASE link \notin DOMAIN p.strong \/ p.strong[link] # linkCost
    <3>1. r.updates = <<LinkUpdated(link[1], link[2], linkCost)>>
      BY <1>5, <2>2 DEF Result
    <3> QED BY <2>1, <3>1 DEF Reported
  <2>3. CASE link \in DOMAIN p.strong /\ p.strong[link] = linkCost
    <3>1. r.updates = <<>>
      BY <1>5, <2>3 DEF Result
    <3>2. r.state.strong = state.strong
      <4>1. r.state.strong \in [DOMAIN r.state.strong -> LinkCosts] /\ state.strong \in [DOMAIN state.strong -> LinkCosts]
        BY <1>7, StateParts, MapFacts
      <4>2. DOMAIN r.state.strong = DOMAIN state.strong
        BY <1>2, <1>6, <2>3
      <4>3. \A l \in DOMAIN state.strong : r.state.strong[l] = state.strong[l]
        BY <1>2, <1>6, <2>3
      <4> QED BY <4>1, <4>2, <4>3
    <3>3. SameAbout(r.state, state)
      BY <1>1, <3>2 DEF SameAbout, About
    <3> QED BY <2>1, <3>1, <3>3 DEF Reported
  <2> QED BY <2>2, <2>3
<1>13. Accounts(r, state)
  BY <1>11, <1>12, ReportedAccounts
<1> QED BY <1>1, <1>10, <1>13

LEMMA SaidOfNode ==
  ASSUME NEW id, NEW n, NEW m, NEW v
  PROVE  Said(v, NodeUpdated(OnlyId(id)), n, m) = IF n = m /\ n = id /\ v = {} THEN {None} ELSE v
BY DEF Said, Fixes, Creates, NodeUpdated, OnlyId, PartialNode

(* What is done to a link does not depend on what is known of its ends.     *)
LEMMA UpdateLinkReported ==
  ASSUME NEW state \in GoodStates, NEW id1 \in Nodes, NEW id2 \in Nodes, id1 # id2,
         NEW linkCost \in LinkCosts
  PROVE  LET r == UpdateLink(state, OnlyId(id1), OnlyId(id2), linkCost)
         IN  /\ Does(r.state, state, LinkUpdated(id1, id2, linkCost))
             /\ Accounts(r, state)
<1>1. /\ OnlyId(id1) \in PartialNodes /\ OnlyId(id1).id = id1
      /\ OnlyId(id2) \in PartialNodes /\ OnlyId(id2).id = id2
  BY OnlyIdType
<1>2. PICK r1 \in Reports : r1 = GetOrUpdateNode(state, OnlyId(id1))
  BY <1>1, GetOrUpdateNodeGood
<1>3. r1.state \in GoodStates /\ id1 \in DOMAIN r1.state.nodes
  BY <1>1, <1>2, GetOrUpdateNodeGood, ReportParts
<1>4. PICK r2 \in Reports : r2 = GetOrUpdateNode(r1.state, OnlyId(id2))
  BY <1>1, <1>3, GetOrUpdateNodeGood
<1>5. r2.state \in GoodStates /\ {id1, id2} \subseteq DOMAIN r2.state.nodes
  BY <1>1, <1>3, <1>4, GetOrUpdateNodeGood, ReportParts
<1>6. PICK r3 \in Reports : r3 = UpdateBothEnds(r2.state, id1, id2, linkCost)
  BY <1>5, UpdateBothEndsGood
<1>7. UpdateLink(state, OnlyId(id1), OnlyId(id2), linkCost) =
        Result(r3.state, r1.updates \o r2.updates \o r3.updates)
  BY <1>1, <1>2, <1>4, <1>6 DEF UpdateLink
<1>8. /\ Reported(r1, state, NodeUpdated(OnlyId(id1)))
      /\ Reported(r2, r1.state, NodeUpdated(OnlyId(id2)))
  BY <1>1, <1>2, <1>3, <1>4, GetOrUpdateNodeReported
<1>9. Does(r3.state, r2.state, LinkUpdated(id1, id2, linkCost)) /\ Accounts(r3, r2.state)
  BY <1>5, <1>6, UpdateBothEndsReported
<1>10. Accounts(r1, state) /\ Accounts(r2, r1.state)
  <2>1. NodeUpdated(OnlyId(id1)) \in Updates /\ NodeUpdated(OnlyId(id2)) \in Updates
    BY <1>1 DEF NodeUpdated, Updates, TopologyUpdateTypes
  <2> QED BY <1>8, <2>1, ReportedAccounts
<1>11. PICK r : r = Result(r3.state, r1.updates \o r2.updates \o r3.updates)
  OBVIOUS
<1>12. Accounts(r, state)
  BY <1>9, <1>10, <1>11, AccountsMost
<1>13. r.state = r3.state
  BY <1>11 DEF Result
<1>14. Does(r.state, state, LinkUpdated(id1, id2, linkCost))
  <2>1. ASSUME NEW n \in Nodes, NEW m \in Nodes
        PROVE  About(r3.state, n, m) = Said(About(state, n, m), LinkUpdated(id1, id2, linkCost), n, m)
    <3>1. About(r1.state, n, m) = Said(About(state, n, m), NodeUpdated(OnlyId(id1)), n, m)
      BY <1>8 DEF Reported, Does
    <3>2. About(r2.state, n, m) = Said(About(r1.state, n, m), NodeUpdated(OnlyId(id2)), n, m)
      BY <1>8 DEF Reported, Does
    <3>3. About(r3.state, n, m) = Said(About(r2.state, n, m), LinkUpdated(id1, id2, linkCost), n, m)
      BY <1>9 DEF Does
    <3> QED BY <3>1, <3>2, <3>3, SaidOfNode, SaidOfLink
  <2> QED BY <1>13, <2>1 DEF Does
<1> QED BY <1>7, <1>11, <1>12, <1>14

LEMMA SaidOfRemoval ==
  ASSUME NEW a, NEW b, NEW n, NEW m, NEW v
  PROVE  Said(v, LinkRemoved(a, b), n, m) = IF n # m /\ {a, b} = {n, m} THEN {} ELSE v
BY DEF Said, Fixes, Fixed, Creates, LinkRemoved

LEMMA AboutWithout ==
  ASSUME NEW state \in GoodStates, NEW new \in GoodStates, NEW id1 \in Nodes, NEW id2 \in Nodes,
         Without(new, state, {<<id1, id2>>, <<id2, id1>>})
  PROVE  Does(new, state, LinkRemoved(id1, id2))
<1>1. /\ new.nodes = state.nodes /\ DOMAIN new.strong = DOMAIN state.strong \ {<<id1, id2>>, <<id2, id1>>}
      /\ \A link \in DOMAIN new.strong : new.strong[link] = state.strong[link]
  BY DEF Without
<1>2. ASSUME NEW n \in Nodes, NEW m \in Nodes
      PROVE  About(new, n, m) = Said(About(state, n, m), LinkRemoved(id1, id2), n, m)
  <2>1. CASE n = m
    <3>1. About(new, n, m) = About(state, n, m)
      BY <1>1, <2>1 DEF About
    <3> QED BY <2>1, <3>1, SaidOfRemoval
  <2>2. CASE n # m /\ {id1, id2} = {n, m}
    <3>1. {<<n, m>>, <<m, n>>} = {<<id1, id2>>, <<id2, id1>>}
      BY <2>2
    <3>2. About(new, n, m) = {}
      BY <1>1, <2>2, <3>1 DEF About
    <3> QED BY <2>2, <3>2, SaidOfRemoval
  <2>3. CASE n # m /\ {id1, id2} # {n, m}
    <3>1. {<<n, m>>, <<m, n>>} \cap {<<id1, id2>>, <<id2, id1>>} = {}
      BY <2>3
    <3>2. {<<n, m>>, <<m, n>>} \cap DOMAIN new.strong = {<<n, m>>, <<m, n>>} \cap DOMAIN state.strong
      BY <1>1, <3>1
    <3>3. About(new, n, m) = About(state, n, m)
      BY <1>1, <2>3, <3>2 DEF About
    <3> QED BY <2>3, <3>3, SaidOfRemoval
  <2> QED BY <2>1, <2>2, <2>3
<1> QED BY <1>2 DEF Does

LEMMA RemoveLinkReported ==
  ASSUME NEW state \in GoodStates, NEW id1 \in Nodes, NEW id2 \in Nodes
  PROVE  Reported(RemoveLink(state, id1, id2), state, LinkRemoved(id1, id2))
<1>1. PICK r \in Reports : /\ r = RemoveLink(state, id1, id2)
                           /\ Without(r.state, state, {<<id1, id2>>, <<id2, id1>>})
  BY RemoveLinkGood
<1>2. Does(r.state, state, LinkRemoved(id1, id2))
  BY <1>1, ReportParts, AboutWithout
<1>3. CASE r.updates = <<LinkRemoved(id1, id2)>>
  BY <1>1, <1>2, <1>3 DEF Reported
<1>4. CASE r.updates # <<LinkRemoved(id1, id2)>>
  <2>1. PICK link, other : link = <<id1, id2>> /\ other = RemoveOneEnd(state, Reversed(link))
    OBVIOUS
  <2>2. r.updates = <<>> /\ ({id1, id2} \subseteq DOMAIN state.nodes => ~HasLink(other, link))
    BY <1>1, <1>4, <2>1 DEF RemoveLink, Result
  <2>3. WithoutEnd(other, state, Reversed(link))
    BY <2>1, StateParts, RemoveOneEndFacts
  <2>4. <<id1, id2>> \notin DOMAIN state.strong /\ <<id2, id1>> \notin DOMAIN state.strong
    <3>1. CASE ~({id1, id2} \subseteq DOMAIN state.nodes)
      BY <3>1, StateParts DEF Mutual
    <3>2. CASE {id1, id2} \subseteq DOMAIN state.nodes
      <4>1. link \notin DOMAIN other.strong /\ link \notin DOMAIN other.weak
        BY <2>2, <3>2 DEF HasLink
      <4>2. Reversed(link) = <<id2, id1>> /\ Reversed(<<id2, id1>>) = link
        BY <2>1 DEF Reversed
      <4>3. id1 = id2 => <<id1, id2>> \notin DOMAIN state.strong
        BY StateParts DEF Links
      <4>4. ASSUME id1 # id2
            PROVE  link \notin DOMAIN state.strong /\ link \notin DOMAIN state.weak
        <5>1. link # Reversed(link)
          BY <2>1, <4>2, <4>4
        <5> QED BY <2>3, <4>1, <5>1 DEF WithoutEnd
      <4>5. id1 # id2 => <<id2, id1>> \notin DOMAIN state.strong
        BY <4>2, <4>4, StateParts DEF Mutual
      <4> QED BY <2>1, <4>3, <4>4, <4>5
    <3> QED BY <3>1, <3>2
  <2>5. r.state.nodes = state.nodes /\ r.state.strong = state.strong
    <3>1. /\ r.state.nodes = state.nodes /\ DOMAIN r.state.strong = DOMAIN state.strong
          /\ \A l \in DOMAIN r.state.strong : r.state.strong[l] = state.strong[l]
      BY <1>1, <2>4 DEF Without
    <3>2. /\ r.state.strong \in [DOMAIN r.state.strong -> LinkCosts]
          /\ state.strong \in [DOMAIN state.strong -> LinkCosts]
      BY ReportParts, StateParts, MapFacts
    <3> QED BY <3>1, <3>2
  <2>6. SameAbout(r.state, state)
    BY <2>5 DEF SameAbout, About
  <2> QED BY <1>1, <1>2, <2>2, <2>6 DEF Reported
<1> QED BY <1>3, <1>4


-----------------------------------------------------------------------------
(* So do operations that are made one after the other.                      *)
LEMMA StartAccounts ==
  ASSUME NEW state
  PROVE  Accounts(Start(state), state)
BY NothingAccounts DEF Start, Result, SameAbout

LEMMA RemoveLinksAccounts ==
  ASSUME NEW state \in GoodStates, NEW id \in Nodes, NEW S \in SUBSET Nodes, IsFiniteSet(S)
  PROVE  Accounts(RemoveLinks(state, id, S), state)
<1>1. PICK f \in [SUBSET S -> Reports] :
        /\ RemoveLinks(state, id, S) = f[S] /\ f[{}] = Start(state)
        /\ \A s \in SUBSET S : s # {} => \E x \in s : f[s] = AfterRemoveLink(f[s \ {x}], id, x)
  BY RemoveLinksFold
<1> DEFINE T == {s \in SUBSET S : ~Accounts(f[s], state)}
<1>2. {} \notin T
  BY <1>1, StartAccounts
<1>3. ASSUME NEW s \in T
      PROVE  \E x \in s : s \ {x} \in T
  <2>1. s \in SUBSET S /\ s # {}
    BY <1>2
  <2>2. PICK x \in s : f[s] = AfterRemoveLink(f[s \ {x}], id, x)
    BY <1>1, <2>1
  <2>3. PICK before \in Reports : before = f[s \ {x}]
    BY <2>1
  <2>4. before.state \in GoodStates /\ x \in Nodes
    BY <2>1, ReportParts
  <2>5. PICK next \in Reports : next = RemoveLink(before.state, id, x)
    BY <2>4, RemoveLinkGood
  <2>6. Reported(next, before.state, LinkRemoved(id, x))
    BY <2>4, <2>5, RemoveLinkReported
  <2>7. Accounts(next, before.state)
    <3>1. LinkRemoved(id, x) \in Updates
      BY <2>4 DEF LinkRemoved, Updates, TopologyUpdateTypes
    <3> QED BY <2>6, <3>1, ReportedAccounts
  <2>8. f[s] = Result(next.state, before.updates \o next.updates)
    BY <2>2, <2>3, <2>5 DEF AfterRemoveLink
  <2>9. Accounts(before, state) => Accounts(f[s], state)
    BY <2>7, <2>8, AccountsMore
  <2> QED BY <2>1, <2>3, <2>9
<1>4. T = {}
  BY <1>2, <1>3, SetInduction
<1>5. Accounts(f[S], state)
  BY <1>4
<1> QED BY <1>1, <1>5

LEMMA AfterSyncAccounts ==
  ASSUME NEW id \in Nodes, NEW neighbor \in Nodes \ {id}, NEW links, links[neighbor] \in LinkCosts,
         NEW r \in ReportsWith(id), NEW old, Accounts(r, old)
  PROVE  Accounts(AfterSync(r, id, links, neighbor), old)
<1>1. r \in Reports /\ id \in DOMAIN r.state.nodes /\ r.state \in GoodStates
  BY ReportParts DEF ReportsWith
<1>2. OnlyId(neighbor) \in PartialNodes /\ OnlyId(neighbor).id = neighbor
  BY OnlyIdType
<1>3. PICK n1 \in Reports : n1 = GetOrUpdateNode(r.state, OnlyId(neighbor))
  BY <1>1, <1>2, GetOrUpdateNodeGood
<1>4. n1.state \in GoodStates /\ {id, neighbor} \subseteq DOMAIN n1.state.nodes
  BY <1>1, <1>2, <1>3, GetOrUpdateNodeGood, ReportParts
<1>5. PICK cost \in LinkCosts : cost = links[neighbor]
  OBVIOUS
<1>6. PICK n2 \in Reports : n2 = UpdateBothEnds(n1.state, id, neighbor, cost)
  BY <1>4, <1>5, UpdateBothEndsGood
<1>7. Accounts(n2, n1.state)
  BY <1>4, <1>6, UpdateBothEndsReported
<1>8. Accounts(n1, r.state)
  <2>1. Reported(n1, r.state, NodeUpdated(OnlyId(neighbor)))
    BY <1>1, <1>2, <1>3, GetOrUpdateNodeReported
  <2>2. NodeUpdated(OnlyId(neighbor)) \in Updates
    BY <1>2 DEF NodeUpdated, Updates, TopologyUpdateTypes
  <2> QED BY <2>1, <2>2, ReportedAccounts
<1>9. PICK next \in Reports : next = Result(n2.state, n1.updates \o n2.updates)
  BY Joined
<1>10. Accounts(next, r.state)
  BY <1>7, <1>8, <1>9, AccountsMore
<1>11. Accounts(Result(next.state, r.updates \o next.updates), old)
  BY <1>1, <1>10, AccountsMore
<1>12. AfterSync(r, id, links, neighbor) = Result(next.state, r.updates \o next.updates)
  BY <1>3, <1>5, <1>6, <1>9, Zenon DEF AfterSync
<1> QED BY <1>11, <1>12

LEMMA SyncAllAccounts ==
  ASSUME NEW state \in GoodStates, NEW id \in DOMAIN state.nodes,
         NEW links, NEW S \in SUBSET (Nodes \ {id}),
         \A neighbor \in S : links[neighbor] \in LinkCosts
  PROVE  Accounts(SyncAll(state, id, links, S), state)
<1>1. PICK R : R = ReportsWith(id)
  OBVIOUS
<1>2. PICK f \in [SUBSET S -> R] : SyncsInto(f, state, id, links, S)
  BY <1>1, SyncAllFold
<1>3. id \in Nodes
  BY StateParts
<1> DEFINE T == {s \in SUBSET S : ~Accounts(f[s], state)}
<1>4. {} \notin T
  BY <1>2, StartAccounts DEF SyncsInto
<1>5. ASSUME NEW s \in T
      PROVE  \E x \in s : s \ {x} \in T
  <2>1. s \in SUBSET S /\ s # {}
    BY <1>4
  <2>2. PICK x \in s : f[s] = AfterSync(f[s \ {x}], id, links, x)
    BY <1>2, <2>1 DEF SyncsInto
  <2>3. PICK before \in ReportsWith(id) : before = f[s \ {x}]
    BY <1>1, <2>1
  <2>4. x \in Nodes \ {id} /\ links[x] \in LinkCosts
    BY <2>1
  <2>5. Accounts(before, state) => Accounts(f[s], state)
    BY <1>3, <2>2, <2>3, <2>4, AfterSyncAccounts
  <2> QED BY <2>1, <2>3, <2>5
<1>6. T = {}
  BY <1>4, <1>5, SubsetFinite, SetInduction
<1>7. Accounts(f[S], state)
  BY <1>6
<1> QED BY <1>2, <1>7 DEF SyncsInto

LEMMA SyncLinkAccounts ==
  ASSUME NEW state \in GoodStates, NEW id \in Nodes,
         NEW links, DOMAIN links \subseteq Nodes \ {id},
         \A neighbor \in DOMAIN links : links[neighbor] \in LinkCosts
  PROVE  Accounts(SyncLink(state, id, links), state)
<1>1. OnlyId(id) \in PartialNodes /\ OnlyId(id).id = id
  BY OnlyIdType
<1>2. PICK r1 \in Reports : r1 = GetOrUpdateNode(state, OnlyId(id))
  BY <1>1, GetOrUpdateNodeGood
<1>3. r1.state \in GoodStates /\ id \in DOMAIN r1.state.nodes
  BY <1>1, <1>2, GetOrUpdateNodeGood, ReportParts
<1>4. PICK S : S = DOMAIN links
  OBVIOUS
<1>5. PICK r2 \in Reports : r2 = SyncAll(r1.state, id, links, S)
  <2>1. PICK R : R = ReportsWith(id)
    OBVIOUS
  <2>2. SyncAll(r1.state, id, links, S) \in R
    BY <1>3, <1>4, <2>1, SyncAllGood
  <2> QED BY <2>1, <2>2 DEF ReportsWith
<1>6. PICK old \in SUBSET Nodes : old = AllLinks(r2.state, id) \ S
  BY ReportParts, AllLinksNodes
<1>7. r2.state \in GoodStates /\ IsFiniteSet(old)
  BY ReportParts, SubsetFinite
<1>8. PICK r3 \in Reports : r3 = RemoveLinks(r2.state, id, old)
  BY <1>7, RemoveLinksGood
<1>9. Accounts(r1, state)
  <2>1. Reported(r1, state, NodeUpdated(OnlyId(id)))
    BY <1>1, <1>2, GetOrUpdateNodeReported
  <2>2. NodeUpdated(OnlyId(id)) \in Updates
    BY <1>1 DEF NodeUpdated, Updates, TopologyUpdateTypes
  <2> QED BY <2>1, <2>2, ReportedAccounts
<1>10. Accounts(r2, r1.state)
  BY <1>3, <1>4, <1>5, SyncAllAccounts
<1>11. Accounts(r3, r2.state)
  BY <1>7, <1>8, RemoveLinksAccounts
<1>12. SyncLink(state, id, links) = Result(r3.state, r1.updates \o r2.updates \o r3.updates)
  BY <1>2, <1>4, <1>5, <1>6, <1>8, Zenon DEF SyncLink, SyncAll
<1> QED BY <1>9, <1>10, <1>11, <1>12, AccountsMost

LEMMA SyncAccounts ==
  ASSUME NEW state \in GoodStates, NEW frame, NEW n \in Nodes,
         frame.source = n, frame.cost \in Costs, frame.neighbors \in SUBSET DOMAIN LinkCost[n]
  PROVE  Accounts(OnReceiveNodeSyncFrame(state, frame), state)
<1>1. PICK a \in PartialNodes : a = PartialNode(n, frame.cost, None)
  BY DEF PartialNode, PartialNodes
<1>2. PICK r1 \in Reports : r1 = UpdateNode(state, a)
  BY GetOrUpdateNodeGood DEF UpdateNode
<1>3. PICK links : links = [m \in frame.neighbors |-> LinkCost[n][m]]
  OBVIOUS
<1>4. DOMAIN links \subseteq Nodes \ {n} /\ \A m \in DOMAIN links : links[m] \in LinkCosts
  BY <1>3, LinkCostType
<1>5. PICK r2 \in Reports : r2 = SyncLink(r1.state, n, links)
  BY <1>4, ReportParts, SyncLinkGood
<1>6. OnReceiveNodeSyncFrame(state, frame) = Result(r2.state, r1.updates \o r2.updates)
  BY <1>1, <1>2, <1>3, <1>5, Zenon DEF OnReceiveNodeSyncFrame
<1>7. Accounts(r1, state)
  <2>1. Reported(r1, state, NodeUpdated(a))
    BY <1>2, GetOrUpdateNodeReported DEF UpdateNode
  <2>2. NodeUpdated(a) \in Updates
    BY DEF NodeUpdated, Updates, TopologyUpdateTypes
  <2> QED BY <2>1, <2>2, ReportedAccounts
<1>8. Accounts(r2, r1.state)
  <2>1. r1.state \in GoodStates
    BY ReportParts
  <2> QED BY <1>4, <1>5, <2>1, SyncLinkAccounts
<1> QED BY <1>6, <1>7, <1>8, AccountsMore

(* A frame that a node received says nothing of the network.                *)
LEMMA SaidOfFrame == \A n, m, v : Said(v, FrameReceived, n, m) = v
BY DEF Said, Fixes, Creates, FrameReceived

LEMMA OnNotificationEntryAccounts ==
  ASSUME NEW state \in GoodStates, NEW n \in Nodes, NEW entry \in Notifications(n)
  PROVE  Accounts(OnNotificationEntry(state, n, entry), state)
<1>1. CASE entry \in {SelfUpdated(cost) : cost \in Costs}
  <2>1. PICK cost \in Costs : entry = SelfUpdated(cost)
    BY <1>1
  <2>2. PICK a \in PartialNodes : a = PartialNode(n, cost, None)
    BY DEF PartialNode, PartialNodes
  <2>3. OnNotificationEntry(state, n, entry) = GetOrUpdateNode(state, a)
    BY <2>1, <2>2 DEF OnNotificationEntry, SelfUpdated, UpdateNode
  <2>4. Reported(GetOrUpdateNode(state, a), state, NodeUpdated(a))
    BY GetOrUpdateNodeReported
  <2>5. NodeUpdated(a) \in Updates
    BY DEF NodeUpdated, Updates, TopologyUpdateTypes
  <2> QED BY <2>3, <2>4, <2>5, ReportedAccounts
<1>2. CASE entry = FrameReceived
  <2>1. PICK r : r = Result(state, <<FrameReceived>>)
    OBVIOUS
  <2>2. OnNotificationEntry(state, n, entry) = r
    BY <1>2, <2>1 DEF OnNotificationEntry, FrameReceived
  <2>3. FrameReceived \in Updates
    BY DEF Updates
  <2>4. r.state = state /\ r.updates = <<FrameReceived>>
    BY <2>1 DEF Result
  <2>5. Reported(r, state, FrameReceived)
    BY <2>4, SaidOfFrame DEF Reported, Does
  <2> QED BY <2>2, <2>3, <2>5, ReportedAccounts
<1>3. CASE entry \in {NeighborUpdated(m) : m \in DOMAIN LinkCost[n]}
  <2>1. PICK m \in DOMAIN LinkCost[n] : entry = NeighborUpdated(m)
    BY <1>3
  <2>2. m \in Nodes /\ m # n /\ LinkCost[n][m] \in LinkCosts
    BY LinkCostType
  <2>3. PICK c \in LinkCosts : c = LinkCost[n][m]
    BY <2>2
  <2>4. Accounts(UpdateLink(state, OnlyId(n), OnlyId(m), c), state)
    BY <2>2, UpdateLinkReported
  <2>5. OnNotificationEntry(state, n, entry) = UpdateLink(state, OnlyId(n), OnlyId(m), LinkCost[n][m])
    BY <2>1 DEF OnNotificationEntry, NeighborUpdated
  <2> QED BY <2>3, <2>4, <2>5
<1>4. CASE entry \in {NeighborRemoved(m) : m \in DOMAIN LinkCost[n]}
  <2>1. PICK m \in DOMAIN LinkCost[n] : entry = NeighborRemoved(m)
    BY <1>4
  <2>2. m \in Nodes
    BY LinkCostType
  <2>3. OnNotificationEntry(state, n, entry) = RemoveLink(state, n, m)
    BY <2>1 DEF OnNotificationEntry, NeighborRemoved
  <2>4. LinkRemoved(n, m) \in Updates
    BY <2>2 DEF LinkRemoved, Updates, TopologyUpdateTypes
  <2> QED BY <2>2, <2>3, <2>4, RemoveLinkReported, ReportedAccounts
<1> QED BY <1>1, <1>2, <1>3, <1>4 DEF Notifications

LEMMA EntriesTakenAccounts ==
  ASSUME NEW state \in GoodStates, NEW source \in Nodes, NEW entries \in Seq(Notifications(source))
  PROVE  Accounts(EntriesTaken(state, source, entries), state)
<1>1. PICK N \in Nat : N = Len(entries)
  OBVIOUS
<1>2. PICK g \in [0..N -> Reports] : TakesOn(g, N, state, source, entries)
  BY <1>1, EntriesTakenPasses
<1> DEFINE T == {i \in 0..N : ~Accounts(g[i], state)}
<1>3. 0 \notin T
  BY <1>2, StartAccounts DEF TakesOn
<1>4. ASSUME NEW i \in T
      PROVE  i - 1 \in T
  <2>1. i \in 1..N /\ i - 1 \in 0..N
    BY <1>3
  <2>2. PICK before \in Reports : before = g[i - 1]
    BY <2>1
  <2>3. PICK entry \in Notifications(source) : entry = entries[i]
    BY <1>1, <2>1
  <2>4. PICK next \in Reports : next = OnNotificationEntry(before.state, source, entry)
    BY ReportParts, OnNotificationEntryGood
  <2>5. Accounts(next, before.state)
    BY <2>4, ReportParts, OnNotificationEntryAccounts
  <2>6. g[i] = Result(next.state, before.updates \o next.updates)
    BY <1>2, <2>1, <2>2, <2>3, <2>4 DEF TakesOn, AfterEntry
  <2>7. Accounts(before, state) => Accounts(g[i], state)
    BY <2>5, <2>6, AccountsMore
  <2> QED BY <2>1, <2>2, <2>7
<1>5. T = {}
  <2>1. T \in SUBSET (0..N)
    OBVIOUS
  <2> HIDE DEF T
  <2> QED BY <1>3, <1>4, <2>1, Upward
<1>6. Accounts(g[N], state)
  BY <1>5
<1> QED BY <1>2, <1>6 DEF TakesOn

LEMMA TakenAccounts ==
  ASSUME NEW state \in GoodStates, NEW frame \in NodeFrames
  PROVE  Accounts(Taken(state, frame), state)
<1>1. PICK n \in Nodes : frame \in NotificationFrames(n) \cup SyncFrames(n)
  BY DEF NodeFrames
<1>2. CASE frame \in SyncFrames(n)
  <2>1. /\ frame.type = "Sync" /\ frame.source = n /\ frame.cost \in Costs
        /\ frame.neighbors \in SUBSET DOMAIN LinkCost[n]
    BY <1>2 DEF SyncFrames
  <2>2. Taken(state, frame) = OnReceiveNodeSyncFrame(state, frame)
    BY <2>1 DEF Taken
  <2> QED BY <2>1, <2>2, SyncAccounts
<1>3. CASE frame \in NotificationFrames(n)
  <2>1. frame.type = "Notification" /\ frame.source = n /\ frame.entries \in Seq(Notifications(n))
    BY <1>3 DEF NotificationFrames
  <2>2. Taken(state, frame) = EntriesTaken(state, frame.source, frame.entries)
    BY <2>1 DEF Taken, OnReceiveNodeNotificationFrame, EntriesTaken
  <2> QED BY <2>1, <2>2, EntriesTakenAccounts
<1> QED BY <1>1, <1>2, <1>3

-----------------------------------------------------------------------------
(* The prefixes of a list.                                                  *)
LEMMA PrefixFacts ==
  ASSUME NEW S, NEW s \in Seq(S)
  PROVE  /\ SubSeq(s, 1, 0) = <<>> /\ SubSeq(s, 1, Len(s)) = s
         /\ \A i \in 0..Len(s) : SubSeq(s, 1, i) \in Seq(S)
         /\ \A i \in 1..Len(s) : s[i] \in S /\ SubSeq(s, 1, i) = SubSeq(s, 1, i - 1) \o <<s[i]>>
<1>1. \A i \in 0..Len(s) : SubSeq(s, 1, i) \in Seq(S)
  BY SubSeqProperties
<1>2. SubSeq(s, 1, 0) = <<>> /\ SubSeq(s, 1, Len(s)) = s
  BY SubSeqProperties
<1>3. ASSUME NEW i \in 1..Len(s)
      PROVE  s[i] \in S /\ SubSeq(s, 1, i) = SubSeq(s, 1, i - 1) \o <<s[i]>>
  <2>1. s[i] \in S /\ i - 1 \in 0..Len(s) /\ i \in 0..Len(s)
    OBVIOUS
  <2>2. PICK a \in Seq(S) : a = SubSeq(s, 1, i - 1)
    BY <1>1, <2>1
  <2>3. PICK b \in Seq(S) : b = SubSeq(s, 1, i)
    BY <1>1, <2>1
  <2>4. PICK x \in S : x = s[i]
    BY <2>1
  <2>5. Len(a) = i - 1 /\ \A j \in 1..(i - 1) : a[j] = s[j]
    BY <2>1, <2>2, SubSeqProperties
  <2>6. Len(b) = i /\ \A j \in 1..i : b[j] = s[j]
    BY <2>1, <2>3, SubSeqProperties
  <2>7. PICK c \in Seq(S) : c = a \o <<x>>
    <3>1. a \o <<x>> \in Seq(S)
      BY ConcatProperties
    <3> QED BY <3>1
  <2>8. Len(c) = i /\ (\A j \in 1..(i - 1) : c[j] = a[j]) /\ c[i] = x
    <3>1. PICK y \in Seq(S) : y = <<x>> /\ Len(y) = 1 /\ y[1] = x
      <4>1. <<x>> \in Seq(S)
        OBVIOUS
      <4> QED BY <4>1
    <3>2. /\ Len(a \o y) = Len(a) + Len(y)
          /\ \A j \in 1..(Len(a) + Len(y)) : (a \o y)[j] = IF j <= Len(a) THEN a[j] ELSE y[j - Len(a)]
      BY ConcatProperties
    <3>3. Len(c) = i /\ \A j \in 1..i : c[j] = IF j <= i - 1 THEN a[j] ELSE y[j - (i - 1)]
      BY <2>5, <2>7, <3>1, <3>2
    <3>4. i - (i - 1) = 1 /\ ~(i <= i - 1) /\ i \in 1..i /\ \A j \in 1..(i - 1) : j \in 1..i /\ j <= i - 1
      BY <2>1
    <3> QED BY <3>1, <3>3, <3>4
  <2>9. \A j \in 1..i : c[j] = b[j]
    <3>1. \A j \in 1..i : j \in 1..(i - 1) \/ j = i
      OBVIOUS
    <3> QED BY <2>4, <2>5, <2>6, <2>8, <3>1
  <2>10. c = b
    BY <2>6, <2>8, <2>9, SeqEqual
  <2> QED BY <2>1, <2>2, <2>3, <2>4, <2>7, <2>10
<1> QED BY <1>1, <1>2, <1>3

Says(a, b) == \A n, m, v : Value(v, a, n, m) = Value(v, b, n, m)

(* What says nothing may be left out of a list.                             *)
LEMMA OtherThanSays ==
  ASSUME NEW entries \in Seq(Updates), NEW types,
         \A entry \in Updates : entry.type \in types => \A n, m, v : Said(v, entry, n, m) = v
  PROVE  \A n, m, v : Value(v, OtherThan(types, entries), n, m) = Value(v, entries, n, m)
<1>1. PICK N \in Nat : N = Len(entries)
  OBVIOUS
<1>2. PICK K, R : K = {entry \in Updates : entry.type \notin types} /\ R = Seq(K)
  OBVIOUS
<1>3. PICK g \in [0..N -> R] : KeepsOn(g, N, types, entries)
  BY <1>1, <1>2, OtherThanPasses
<1>4. \A i \in 0..N : g[i] \in Seq(Updates)
  <2>1. K \subseteq Updates
    BY <1>2
  <2> QED BY <1>2, <2>1, SeqSubset
<1> DEFINE T == {i \in 0..N : ~Says(g[i], SubSeq(entries, 1, i))}
<1>parts. /\ SubSeq(entries, 1, 0) = <<>> /\ SubSeq(entries, 1, N) = entries
          /\ \A i \in 0..N : SubSeq(entries, 1, i) \in Seq(Updates)
          /\ \A i \in 1..N : entries[i] \in Updates /\ SubSeq(entries, 1, i) = SubSeq(entries, 1, i - 1) \o <<entries[i]>>
  BY <1>1, PrefixFacts
<1>5. 0 \notin T
  <2>1. SubSeq(entries, 1, 0) = <<>> /\ g[0] = <<>>
    BY <1>3, <1>parts DEF KeepsOn
  <2> QED BY <2>1 DEF Says
<1>6. ASSUME NEW i \in T
      PROVE  i - 1 \in T
  <2>1. i \in 1..N /\ i - 1 \in 0..N /\ i \in 0..N
    BY <1>5
  <2>2. PICK a \in Seq(Updates) : a = SubSeq(entries, 1, i - 1)
    BY <1>parts, <2>1
  <2>3. PICK entry \in Updates : entry = entries[i]
    BY <1>parts, <2>1
  <2>4. PICK b : b = SubSeq(entries, 1, i) /\ b = a \o <<entry>>
    BY <1>parts, <2>1, <2>2, <2>3
  <2>5. PICK kept \in Seq(Updates) : kept = g[i - 1]
    BY <1>4, <2>1
  <2>6. g[i] = AfterKeeping(kept, entry, types)
    BY <1>3, <2>1, <2>3, <2>5 DEF KeepsOn
  <2>7. \A n, m, v : /\ Value(v, <<entry>>, n, m) = Said(v, entry, n, m)
                     /\ Value(v, b, n, m) = Said(Value(v, a, n, m), entry, n, m)
    <3>1. PICK one \in Seq(Updates) : one = <<entry>>
      <4>1. <<entry>> \in Seq(Updates)
        OBVIOUS
      <4> QED BY <4>1
    <3>2. \A n, m, v : Value(v, one, n, m) = Said(v, entry, n, m)
      BY <3>1, ValueOne
    <3>3. \A n, m, v : Value(v, b, n, m) = Value(Value(v, a, n, m), one, n, m)
      <4>1. \A n, m, v : Value(v, a \o one, n, m) = Value(Value(v, a, n, m), one, n, m)
        BY ValueConcat
      <4>2. b = a \o one
        BY <2>4, <3>1
      <4> QED BY <4>1, <4>2
    <3> QED BY <3>1, <3>2, <3>3
  <2>8. CASE entry.type \in types
    <3>1. g[i] = kept
      BY <2>6, <2>8 DEF AfterKeeping
    <3>2. \A n, m, v : Said(v, entry, n, m) = v
      BY <2>8
    <3>3. ASSUME Says(kept, a), NEW n, NEW m, NEW v
          PROVE  Value(v, g[i], n, m) = Value(v, b, n, m)
      <4>1. Value(v, b, n, m) = Said(Value(v, a, n, m), entry, n, m)
        BY <2>7
      <4>2. Value(v, kept, n, m) = Value(v, a, n, m)
        BY <2>4, <3>3 DEF Says
      <4> QED BY <3>1, <3>2, <4>1, <4>2
    <3>4. Says(kept, a) => Says(g[i], SubSeq(entries, 1, i))
      BY <2>4, <3>3 DEF Says
    <3> QED BY <2>1, <2>2, <2>5, <3>4
  <2>9. CASE entry.type \notin types
    <3>1. PICK longer : longer = g[i] /\ longer = kept \o <<entry>>
      <4>1. g[i] = Append(kept, entry)
        BY <2>6, <2>9 DEF AfterKeeping
      <4> QED BY <4>1, AppendIsConcat
    <3>2. \A n, m, v : Value(v, longer, n, m) = Said(Value(v, kept, n, m), entry, n, m)
      <4>1. PICK one \in Seq(Updates) : one = <<entry>>
        <5>1. <<entry>> \in Seq(Updates)
          OBVIOUS
        <5> QED BY <5>1
      <4>2. \A n, m, v : Value(v, kept \o one, n, m) = Value(Value(v, kept, n, m), one, n, m)
        BY ValueConcat
      <4> QED BY <2>7, <3>1, <4>1, <4>2
    <3>3. ASSUME Says(kept, a), NEW n, NEW m, NEW v
          PROVE  Value(v, g[i], n, m) = Value(v, b, n, m)
      <4>1. Value(v, b, n, m) = Said(Value(v, a, n, m), entry, n, m)
        BY <2>7
      <4>2. Value(v, kept, n, m) = Value(v, a, n, m)
        BY <2>4, <3>3 DEF Says
      <4> QED BY <3>1, <3>2, <4>1, <4>2
    <3>4. Says(kept, a) => Says(g[i], SubSeq(entries, 1, i))
      BY <2>4, <3>3 DEF Says
    <3> QED BY <2>1, <2>2, <2>5, <3>4
  <2> QED BY <2>8, <2>9
<1>7. T = {}
  <2>1. T \in SUBSET (0..N)
    OBVIOUS
  <2> HIDE DEF T
  <2> QED BY <1>5, <1>6, <2>1, Upward
<1>8. Says(g[N], SubSeq(entries, 1, N))
  BY <1>7
<1> QED BY <1>3, <1>8, <1>parts DEF KeepsOn, Says

LEMMA EntriesAreUpdates ==
  ASSUME NEW entries \in Seq(Entries)
  PROVE  entries \in Seq(Updates)
<1>1. Entries \subseteq Updates
  BY DEF Entries
<1> QED BY <1>1, SeqSubset

LEMMA IntoEntriesSays ==
  ASSUME NEW updates \in Seq(Updates)
  PROVE  \A n, m, v : Value(v, IntoNotificationEntries(updates), n, m) = Value(v, updates, n, m)
<1>1. PICK types : types = {"NodeRemoved"}
  OBVIOUS
<1>2. ASSUME NEW entry \in Updates, entry.type \in types
      PROVE  \A n, m, v : Said(v, entry, n, m) = v
  BY <1>1, <1>2 DEF Said, Fixes, Creates
<1>3. \A n, m, v : Value(v, OtherThan(types, updates), n, m) = Value(v, updates, n, m)
  BY <1>2, OtherThanSays
<1> QED BY <1>1, <1>3 DEF IntoNotificationEntries

LEMMA TopologyUpdatesSay ==
  ASSUME NEW entries \in Seq(Entries)
  PROVE  \A n, m, v : Value(v, TopologyUpdates(entries), n, m) = Value(v, entries, n, m)
<1>1. PICK types : types = {"FrameReceived"}
  OBVIOUS
<1>2. ASSUME NEW entry \in Updates, entry.type \in types
      PROVE  \A n, m, v : Said(v, entry, n, m) = v
  BY <1>1, <1>2 DEF Said, Fixes, Creates
<1>3. \A n, m, v : Value(v, OtherThan(types, entries), n, m) = Value(v, entries, n, m)
  BY <1>2, EntriesAreUpdates, OtherThanSays
<1> QED BY <1>1, <1>3 DEF TopologyUpdates

-----------------------------------------------------------------------------
(* A copy does what it is told.                                             *)
LEMMA ApplyUpdateDoes ==
  ASSUME NEW state \in GoodStates, NEW update \in TopologyEntries
  PROVE  Does(ApplyUpdate(state, update).state, state, update)
<1>1. update \in TopologyUpdateTypes /\ update.type # "NodeRemoved"
  BY DEF TopologyEntries, Entries, Updates, FrameReceived
<1>2. CASE update.type = "NodeUpdated"
  <2>1. update.node \in PartialNodes /\ update = NodeUpdated(update.node)
    BY <1>1, <1>2 DEF TopologyUpdateTypes, NodeUpdated
  <2>2. PICK x \in PartialNodes : x = update.node
    BY <2>1
  <2>3. ApplyUpdate(state, update) = GetOrUpdateNode(state, x)
    BY <1>2, <2>2 DEF ApplyUpdate, UpdateNode
  <2>4. Reported(GetOrUpdateNode(state, x), state, NodeUpdated(x))
    BY GetOrUpdateNodeReported
  <2> QED BY <2>1, <2>2, <2>3, <2>4 DEF Reported
<1>3. CASE update.type = "LinkUpdated"
  <2>1. PICK a \in Nodes, b \in Nodes, cost \in LinkCosts :
          /\ a # b /\ update.source = a /\ update.destination = b /\ update.linkCost = cost
          /\ update = LinkUpdated(a, b, cost)
    BY <1>1, <1>3 DEF TopologyUpdateTypes, LinkUpdated
  <2>2. ApplyUpdate(state, update) = UpdateLink(state, OnlyId(a), OnlyId(b), cost)
    BY <1>3, <2>1 DEF ApplyUpdate
  <2>3. Does(UpdateLink(state, OnlyId(a), OnlyId(b), cost).state, state, LinkUpdated(a, b, cost))
    BY <2>1, UpdateLinkReported
  <2> QED BY <2>1, <2>2, <2>3
<1>4. CASE update.type = "LinkRemoved"
  <2>1. PICK a \in Nodes, b \in Nodes :
          update.source = a /\ update.destination = b /\ update = LinkRemoved(a, b)
    BY <1>1, <1>4 DEF TopologyUpdateTypes, LinkRemoved
  <2>2. ApplyUpdate(state, update) = RemoveLink(state, a, b)
    BY <1>4, <2>1 DEF ApplyUpdate
  <2>3. Reported(RemoveLink(state, a, b), state, LinkRemoved(a, b))
    BY RemoveLinkReported
  <2> QED BY <2>1, <2>2, <2>3 DEF Reported
<1> QED BY <1>1, <1>2, <1>3, <1>4 DEF TopologyUpdateTypes

Done(new, old, list) ==
  \A n, m \in Nodes : About(new, n, m) = Value(About(old, n, m), list, n, m)

LEMMA ApplyUpdatesDo ==
  ASSUME NEW state \in GoodStates, NEW updates \in Seq(TopologyEntries)
  PROVE  Done(ApplyUpdates(state, updates).state, state, updates)
<1>1. PICK N \in Nat : N = Len(updates)
  OBVIOUS
<1>2. TopologyEntries \subseteq Updates /\ TopologyEntries \subseteq TopologyUpdateTypes
  BY DEF TopologyEntries, Entries, Updates, FrameReceived
<1>3. PICK us \in Seq(Updates) : us = updates
  BY <1>2, SeqSubset
<1>4. PICK g \in [0..N -> Reports] : AppliesOn(g, N, state, updates)
  <2>1. updates \in Seq(TopologyUpdateTypes)
    BY <1>2, SeqSubset
  <2> QED BY <1>1, <2>1, ApplyUpdatesPasses
<1>parts. /\ SubSeq(us, 1, 0) = <<>> /\ SubSeq(us, 1, N) = us
          /\ \A i \in 0..N : SubSeq(us, 1, i) \in Seq(Updates)
          /\ \A i \in 1..N : us[i] \in Updates /\ SubSeq(us, 1, i) = SubSeq(us, 1, i - 1) \o <<us[i]>>
  BY <1>1, <1>3, PrefixFacts
<1> DEFINE T == {i \in 0..N : ~Done(g[i].state, state, SubSeq(us, 1, i))}
<1>5. 0 \notin T
  <2>1. SubSeq(us, 1, 0) = <<>> /\ g[0].state = state
    BY <1>4, <1>parts DEF AppliesOn, Start, Result
  <2> QED BY <2>1, ValueEmpty DEF Done
<1>6. ASSUME NEW i \in T
      PROVE  i - 1 \in T
  <2>1. i \in 1..N /\ i - 1 \in 0..N
    BY <1>5
  <2>2. PICK before \in Reports : before = g[i - 1]
    BY <2>1
  <2>3. PICK update \in TopologyEntries : update = us[i] /\ update = updates[i]
    BY <1>1, <1>3, <2>1
  <2>4. PICK a \in Seq(Updates) : a = SubSeq(us, 1, i - 1)
    BY <1>parts, <2>1
  <2>5. SubSeq(us, 1, i) = a \o <<update>>
    BY <1>parts, <2>1, <2>3, <2>4
  <2>6. Does(g[i].state, before.state, update)
    <3>1. Does(ApplyUpdate(before.state, update).state, before.state, update)
      BY ReportParts, ApplyUpdateDoes
    <3>2. g[i] = AfterUpdate(before, update)
      BY <1>4, <2>1, <2>2, <2>3 DEF AppliesOn
    <3>3. g[i].state = ApplyUpdate(before.state, update).state
      BY <3>2 DEF AfterUpdate, Result
    <3> QED BY <3>1, <3>3
  <2>7. \A n, m, v : Value(v, a \o <<update>>, n, m) = Said(Value(v, a, n, m), update, n, m)
    <3>1. update \in Updates
      BY <1>2
    <3>2. PICK one \in Seq(Updates) : one = <<update>>
      <4>1. <<update>> \in Seq(Updates)
        BY <3>1
      <4> QED BY <4>1
    <3>3. \A n, m, v : Value(v, one, n, m) = Said(v, update, n, m)
      BY <3>1, <3>2, ValueOne
    <3>4. \A n, m, v : Value(v, a \o one, n, m) = Value(Value(v, a, n, m), one, n, m)
      BY ValueConcat
    <3> QED BY <3>2, <3>3, <3>4
  <2>8. Done(before.state, state, a) => Done(g[i].state, state, a \o <<update>>)
    BY <2>6, <2>7 DEF Does, Done
  <2> QED BY <2>1, <2>2, <2>4, <2>5, <2>8
<1>7. T = {}
  <2>1. T \in SUBSET (0..N)
    OBVIOUS
  <2> HIDE DEF T
  <2> QED BY <1>5, <1>6, <2>1, Upward
<1>8. Done(g[N].state, state, SubSeq(us, 1, N))
  BY <1>7
<1> QED BY <1>3, <1>4, <1>8, <1>parts DEF AppliesOn, Done

-----------------------------------------------------------------------------
(* What a dump tells to whom knows v, when g is so.  Of a node of which the *)
(* cost is not known it says that it is there.                              *)
Dumped(v, g, n, m) ==
  IF g = {} THEN v
  ELSE IF n = m /\ g = {None} THEN (IF v = {} THEN g ELSE v)
  ELSE g

DumpHolds(dump, state) ==
  /\ \A i \in DOMAIN dump : dump[i] \in NodesOf(state) \cup LinksOf(state)
  /\ \A x \in NodesOf(state) \cup LinksOf(state) : Has(dump, x)

LEMMA DumpHeld ==
  ASSUME NEW state \in GoodStates
  PROVE  DumpHolds(DumpAsUpdates(state), state)
<1>1. PICK A, B : A = NodesOf(state) /\ B = LinksOf(state)
  OBVIOUS
<1>2. PICK a, b : a = Listed(A) /\ b = Listed(B)
  OBVIOUS
<1>3. a \in Seq(A) /\ b \in Seq(B)
  BY <1>1, <1>2, DumpParts, ListedType
<1>4. (\A x \in A : Has(a, x)) /\ (\A x \in B : Has(b, x))
  BY <1>1, <1>2, DumpParts, ListedAll
<1>both. PICK U : U = A \cup B
  OBVIOUS
<1>5. a \in Seq(U) /\ b \in Seq(U)
  <2>1. A \subseteq U /\ B \subseteq U
    BY <1>both
  <2> QED BY <1>3, <2>1, SeqSubset
<1>6. PICK c \in Seq(U) : c = a \o b /\ c = DumpAsUpdates(state)
  <2>1. a \o b \in Seq(U)
    BY <1>5, ConcatProperties
  <2> QED BY <1>1, <1>2, <2>1, DumpParts
<1>7. /\ Len(a) \in Nat /\ Len(b) \in Nat /\ DOMAIN a = 1..Len(a) /\ DOMAIN b = 1..Len(b)
      /\ DOMAIN c = 1..(Len(a) + Len(b))
      /\ \A i \in 1..Len(a) : c[i] = a[i]
      /\ \A i \in 1..Len(b) : c[Len(a) + i] = b[i]
  <2>1. /\ Len(a) \in Nat /\ Len(b) \in Nat /\ DOMAIN a = 1..Len(a) /\ DOMAIN b = 1..Len(b)
    BY <1>5
  <2>2. DOMAIN c = 1..Len(c) /\ Len(c) = Len(a) + Len(b)
    <3>1. Len(a \o b) = Len(a) + Len(b)
      BY <1>5, ConcatProperties
    <3> QED BY <1>6, <3>1
  <2>3. \A i \in 1..Len(c) : c[i] = IF i <= Len(a) THEN a[i] ELSE b[i - Len(a)]
    <3>1. \A i \in 1..(Len(a) + Len(b)) : (a \o b)[i] = IF i <= Len(a) THEN a[i] ELSE b[i - Len(a)]
      BY <1>5, ConcatProperties
    <3> QED BY <1>6, <2>2, <3>1
  <2>4. \A i \in 1..Len(a) : i \in 1..Len(c) /\ c[i] = a[i]
    BY <2>1, <2>2, <2>3
  <2>5. \A i \in 1..Len(b) : Len(a) + i \in 1..Len(c) /\ c[Len(a) + i] = b[i]
    BY <2>1, <2>2, <2>3
  <2> QED BY <2>1, <2>2, <2>4, <2>5
<1>8. \A i \in DOMAIN c : c[i] \in A \cup B
  BY <1>both
<1>9. ASSUME NEW x \in A \cup B
      PROVE  Has(c, x)
  <2>1. CASE x \in A
    BY <1>4, <1>7, <2>1 DEF Has
  <2>2. CASE x \in B
    <3>1. PICK i \in DOMAIN b : b[i] = x
      BY <1>4, <2>2 DEF Has
    <3>2. Len(a) + i \in DOMAIN c /\ c[Len(a) + i] = x
      BY <1>7, <3>1
    <3> QED BY <3>2 DEF Has
  <2> QED BY <2>1, <2>2
<1> QED BY <1>1, <1>6, <1>8, <1>9 DEF DumpHolds

(* One node, or one link, is told of by one update alone.                   *)
LEMMA ToldByOne ==
  ASSUME NEW updates \in Seq(Updates), NEW n, NEW m, NEW update, Has(updates, update),
         Fixes(update, n, m), \A i \in Fixing(updates, n, m) : updates[i] = update
  PROVE  \A v : Value(v, updates, n, m) = Fixed(update, n, m)
<1>1. Fixing(updates, n, m) # {}
  BY DEF Has, Fixing
<1>2. PICK i \in Fixing(updates, n, m) : \A j \in Fixing(updates, n, m) : j <= i
  BY <1>1, HasLast
<1>3. \A v : Value(v, updates, n, m) = Fixed(updates[i], n, m)
  BY <1>2, LastFixing
<1> QED BY <1>3

LEMMA DumpSaysNode ==
  ASSUME NEW state \in GoodStates, NEW updates \in Seq(Updates), DumpHolds(updates, state), NEW n \in Nodes
  PROVE  \A v : Value(v, updates, n, n) = Dumped(v, About(state, n, n), n, n)
<1>1. \A id \in DOMAIN state.nodes : state.nodes[id].id = id
  BY StateParts DEF NodeMaps
<1>2. \A link \in DOMAIN state.strong : {link[1], link[2]} \subseteq DOMAIN state.nodes
  BY StateParts DEF Mutual
<1>3. ASSUME NEW i \in DOMAIN updates, Fixes(updates[i], n, n)
      PROVE  n \in DOMAIN state.nodes /\ updates[i] = NodeUpdated(state.nodes[n]) /\ state.nodes[n].cost # None
  <2>1. /\ updates[i].type = "NodeUpdated"
        /\ updates[i].node.id = n /\ updates[i].node.cost # None
    BY <1>3 DEF Fixes
  <2>2. updates[i] \in NodesOf(state)
    BY <2>1 DEF DumpHolds, LinksOf, LinkUpdated
  <2>3. PICK id \in DOMAIN state.nodes : updates[i] = NodeUpdated(state.nodes[id])
    BY <2>2 DEF NodesOf
  <2>4. updates[i].node = state.nodes[id]
    BY <2>3 DEF NodeUpdated
  <2> QED BY <1>1, <2>1, <2>3, <2>4
<1>4. ASSUME NEW i \in DOMAIN updates, Creates(updates[i], n, n)
      PROVE  n \in DOMAIN state.nodes
  <2>1. CASE updates[i] \in NodesOf(state)
    <3>1. PICK id \in DOMAIN state.nodes : updates[i] = NodeUpdated(state.nodes[id])
      BY <2>1 DEF NodesOf
    <3>2. updates[i].node = state.nodes[id] /\ updates[i].type = "NodeUpdated"
      BY <3>1 DEF NodeUpdated
    <3> QED BY <1>1, <1>4, <3>2 DEF Creates
  <2>2. CASE updates[i] \in LinksOf(state)
    <3>1. PICK link \in DOMAIN state.strong : updates[i] = LinkUpdated(link[1], link[2], state.strong[link])
      BY <2>2 DEF LinksOf
    <3>2. updates[i].type = "LinkUpdated" /\ updates[i].source = link[1] /\ updates[i].destination = link[2]
      BY <3>1 DEF LinkUpdated
    <3> QED BY <1>2, <1>4, <3>2 DEF Creates
  <2> QED BY <2>1, <2>2 DEF DumpHolds
<1>5. CASE n \notin DOMAIN state.nodes
  <2>1. Fixing(updates, n, n) = {} /\ ~Creating(updates, n, n)
    BY <1>3, <1>4, <1>5 DEF Fixing, Creating
  <2>2. \A v : Value(v, updates, n, n) = v
    BY <2>1, NothingFixed
  <2>3. About(state, n, n) = {}
    BY <1>5, AboutNode
  <2> QED BY <2>2, <2>3 DEF Dumped
<1>6. ASSUME n \in DOMAIN state.nodes
      PROVE  /\ Has(updates, NodeUpdated(state.nodes[n]))
             /\ NodeUpdated(state.nodes[n]).type = "NodeUpdated"
             /\ NodeUpdated(state.nodes[n]).node = state.nodes[n] /\ state.nodes[n].id = n
  BY <1>1, <1>6 DEF DumpHolds, NodesOf, NodeUpdated
<1>7. CASE n \in DOMAIN state.nodes /\ state.nodes[n].cost = None
  <2>1. Fixing(updates, n, n) = {}
    BY <1>3, <1>7 DEF Fixing
  <2>2. Creating(updates, n, n)
    <3>1. PICK i \in DOMAIN updates : updates[i] = NodeUpdated(state.nodes[n])
      BY <1>6, <1>7 DEF Has
    <3>2. Creates(updates[i], n, n)
      BY <1>6, <1>7, <3>1 DEF Creates
    <3> QED BY <3>2 DEF Creating
  <2>3. \A v : Value(v, updates, n, n) = IF v = {} /\ Creating(updates, n, n) THEN {None} ELSE v
    BY <2>1, NothingFixed
  <2>4. About(state, n, n) = {None}
    BY <1>7, AboutNode
  <2> QED BY <2>2, <2>3, <2>4 DEF Dumped
<1>8. CASE n \in DOMAIN state.nodes /\ state.nodes[n].cost # None
  <2>1. PICK update : update = NodeUpdated(state.nodes[n])
    OBVIOUS
  <2>2. Has(updates, update) /\ Fixes(update, n, n) /\ Fixed(update, n, n) = {state.nodes[n].cost}
    BY <1>6, <1>8, <2>1 DEF Fixes, Fixed
  <2>3. \A i \in Fixing(updates, n, n) : updates[i] = update
    BY <1>3, <2>1 DEF Fixing
  <2>4. \A v : Value(v, updates, n, n) = {state.nodes[n].cost}
    BY <2>2, <2>3, ToldByOne
  <2>5. About(state, n, n) = {state.nodes[n].cost}
    BY <1>8, AboutNode
  <2>6. {state.nodes[n].cost} # {} /\ {state.nodes[n].cost} # {None}
    BY <1>8
  <2> QED BY <2>4, <2>5, <2>6 DEF Dumped
<1> QED BY <1>5, <1>7, <1>8

LEMMA DumpSaysLink ==
  ASSUME NEW state \in GoodStates, NEW updates \in Seq(Updates), DumpHolds(updates, state),
         NEW n \in Nodes, NEW m \in Nodes, n # m
  PROVE  \A v : Value(v, updates, n, m) = Dumped(v, About(state, n, m), n, m)
<1>1. ASSUME NEW i \in DOMAIN updates, Fixes(updates[i], n, m)
      PROVE  \E link \in DOMAIN state.strong :
               link \in {<<n, m>>, <<m, n>>} /\ updates[i] = LinkUpdated(link[1], link[2], state.strong[link])
  <2>1. updates[i].type \in {"LinkUpdated", "LinkRemoved"} /\ {updates[i].source, updates[i].destination} = {n, m}
    BY <1>1 DEF Fixes
  <2>2. updates[i] \in LinksOf(state)
    BY <2>1 DEF DumpHolds, NodesOf, NodeUpdated
  <2>3. PICK link \in DOMAIN state.strong : updates[i] = LinkUpdated(link[1], link[2], state.strong[link])
    BY <2>2 DEF LinksOf
  <2>4. updates[i].source = link[1] /\ updates[i].destination = link[2]
    BY <2>3 DEF LinkUpdated
  <2>5. link = <<link[1], link[2]>>
    <3>1. link \in Links
      BY StateParts
    <3> QED BY <3>1 DEF Links
  <2>6. link = <<n, m>> \/ link = <<m, n>>
    BY <2>1, <2>4, <2>5
  <2> QED BY <2>3, <2>6
<1>2. ~Creating(updates, n, m)
  BY DEF Creating, Creates
<1>3. CASE \A link \in DOMAIN state.strong : link \notin {<<n, m>>, <<m, n>>}
  <2>1. Fixing(updates, n, m) = {}
    BY <1>1, <1>3 DEF Fixing
  <2>2. \A v : Value(v, updates, n, m) = v
    BY <1>2, <2>1, NothingFixed
  <2>3. About(state, n, m) = {}
    BY <1>3, AboutLink
  <2> QED BY <2>2, <2>3 DEF Dumped
<1>4. ASSUME NEW link \in DOMAIN state.strong, link \in {<<n, m>>, <<m, n>>}
      PROVE  \A v : Value(v, updates, n, m) = Dumped(v, About(state, n, m), n, m)
  <2>1. PICK update : update = LinkUpdated(link[1], link[2], state.strong[link])
    OBVIOUS
  <2>2. \A l \in DOMAIN state.strong : l \in {<<n, m>>, <<m, n>>} => l = link
    <3>1. Reversed(<<n, m>>) = <<m, n>> /\ Reversed(<<m, n>>) = <<n, m>>
      BY DEF Reversed
    <3>2. ~(<<n, m>> \in DOMAIN state.strong /\ <<m, n>> \in DOMAIN state.strong)
      BY <3>1, StateParts DEF Mutual
    <3> QED BY <1>4, <3>2
  <2>3. \A i \in Fixing(updates, n, m) : updates[i] = update
    BY <1>1, <2>1, <2>2 DEF Fixing
  <2>4. Has(updates, update)
    BY <2>1 DEF DumpHolds, LinksOf
  <2>5. Fixes(update, n, m) /\ Fixed(update, n, m) = {state.strong[link]}
    <3>1. /\ update.type = "LinkUpdated" /\ update.source = link[1] /\ update.destination = link[2]
          /\ update.linkCost = state.strong[link]
      BY <2>1 DEF LinkUpdated
    <3>2. {link[1], link[2]} = {n, m}
      BY <1>4
    <3> QED BY <3>1, <3>2 DEF Fixes, Fixed
  <2>6. \A v : Value(v, updates, n, m) = {state.strong[link]}
    BY <2>3, <2>4, <2>5, ToldByOne
  <2>7. About(state, n, m) = {state.strong[link]}
    BY <1>4, AboutLink
  <2> QED BY <2>6, <2>7 DEF Dumped
<1> QED BY <1>3, <1>4

LEMMA DumpSays ==
  ASSUME NEW state \in GoodStates, NEW n \in Nodes, NEW m \in Nodes
  PROVE  \A v : Value(v, DumpAsUpdates(state), n, m) = Dumped(v, About(state, n, m), n, m)
<1>1. PICK updates \in Seq(Updates) : updates = DumpAsUpdates(state)
  BY DumpType, EntriesAreUpdates
<1>2. DumpHolds(updates, state)
  BY <1>1, DumpHeld
<1>3. CASE n = m
  BY <1>1, <1>2, <1>3, DumpSaysNode
<1>4. CASE n # m
  BY <1>1, <1>2, <1>4, DumpSaysLink
<1> QED BY <1>3, <1>4

-----------------------------------------------------------------------------
(* What is known when lists have come in one after the other.               *)
LeadsOn(f, v, lists, w, n, m) ==
  /\ f[0] = v /\ f[Len(lists)] = w
  /\ \A i \in 1..Len(lists) : f[i] = Value(f[i - 1], lists[i], n, m)
Leads(v, lists, w, n, m) == \E f : LeadsOn(f, v, lists, w, n, m)

LEMMA LeadsNowhere == \A v, w, n, m : Leads(v, <<>>, w, n, m) <=> w = v
<1>1. Len(<<>>) = 0 /\ 1..Len(<<>>) = {}
  OBVIOUS
<1>2. ASSUME NEW v, NEW n, NEW m
      PROVE  Leads(v, <<>>, v, n, m)
  <2>1. PICK f : f = [i \in {0} |-> v]
    OBVIOUS
  <2>2. f[0] = v
    BY <2>1
  <2>3. LeadsOn(f, v, <<>>, v, n, m)
    BY <1>1, <2>2 DEF LeadsOn
  <2> QED BY <2>3 DEF Leads
<1>3. ASSUME NEW v, NEW w, NEW n, NEW m, Leads(v, <<>>, w, n, m)
      PROVE  w = v
  BY <1>1, <1>3 DEF Leads, LeadsOn
<1> QED BY <1>2, <1>3

LEMMA LeadsFurther ==
  ASSUME NEW S, NEW lists \in Seq(S), NEW list \in S, NEW v, NEW w, NEW n, NEW m, Leads(v, lists, w, n, m)
  PROVE  Leads(v, Append(lists, list), Value(w, list, n, m), n, m)
<1>1. PICK f : LeadsOn(f, v, lists, w, n, m)
  BY DEF Leads
<1>2. PICK more \in Seq(S) : more = Append(lists, list)
  <2>1. Append(lists, list) \in Seq(S)
    OBVIOUS
  <2> QED BY <2>1
<1>3. PICK N \in Nat : N = Len(lists)
  OBVIOUS
<1>4. Len(more) = N + 1 /\ more[N + 1] = list /\ \A i \in 1..N : more[i] = lists[i]
  BY <1>2, <1>3
<1>5. PICK x : x = Value(w, list, n, m)
  OBVIOUS
<1>6. PICK g : g = [i \in 0..(N + 1) |-> IF i = N + 1 THEN x ELSE f[i]]
  OBVIOUS
<1>7. g[0] = f[0] /\ g[N + 1] = x /\ \A i \in 0..N : g[i] = f[i]
  BY <1>6
<1>8. ASSUME NEW i \in 1..(N + 1)
      PROVE  g[i] = Value(g[i - 1], more[i], n, m)
  <2>1. CASE i = N + 1
    <3>1. g[i - 1] = w /\ more[i] = list /\ g[i] = x
      BY <1>1, <1>3, <1>4, <1>7, <2>1 DEF LeadsOn
    <3> QED BY <1>5, <3>1
  <2>2. CASE i # N + 1
    <3>1. i \in 1..N /\ i \in 0..N /\ i - 1 \in 0..N
      BY <2>2
    <3>2. f[i] = Value(f[i - 1], lists[i], n, m)
      BY <1>1, <1>3, <3>1 DEF LeadsOn
    <3>3. g[i] = f[i] /\ g[i - 1] = f[i - 1] /\ more[i] = lists[i]
      BY <1>4, <1>7, <3>1
    <3> QED BY <3>2, <3>3
  <2> QED BY <2>1, <2>2
<1>9. LeadsOn(g, v, more, x, n, m)
  BY <1>1, <1>4, <1>7, <1>8 DEF LeadsOn
<1> QED BY <1>2, <1>5, <1>9 DEF Leads

(* The first list may come in at once, or in two parts.                     *)
LEMMA LeadsWithoutFirst ==
  ASSUME NEW S, NEW lists \in Seq(S), lists # <<>>, NEW v, NEW w, NEW n, NEW m, Leads(v, lists, w, n, m)
  PROVE  Leads(Value(v, lists[1], n, m), Tail(lists), w, n, m)
<1>1. PICK f : LeadsOn(f, v, lists, w, n, m)
  BY DEF Leads
<1>2. PICK rest \in Seq(S) : rest = Tail(lists)
  <2>1. Tail(lists) \in Seq(S)
    OBVIOUS
  <2> QED BY <2>1
<1>3. PICK N \in Nat : N = Len(lists)
  OBVIOUS
<1>4. N > 0 /\ Len(rest) = N - 1 /\ \A i \in 1..(N - 1) : rest[i] = lists[i + 1]
  BY <1>2, <1>3
<1>5. PICK g : g = [i \in 0..(N - 1) |-> f[i + 1]]
  OBVIOUS
<1>6. \A i \in 0..(N - 1) : g[i] = f[i + 1]
  BY <1>5
<1>7. \A i \in 1..N : f[i] = Value(f[i - 1], lists[i], n, m)
  BY <1>1, <1>3 DEF LeadsOn
<1>8. g[0] = Value(v, lists[1], n, m) /\ g[N - 1] = w
  <2>1. f[0] = v /\ f[N] = w
    BY <1>1, <1>3 DEF LeadsOn
  <2>2. 0 \in 0..(N - 1) /\ N - 1 \in 0..(N - 1) /\ 1 \in 1..N /\ (N - 1) + 1 = N
    BY <1>4
  <2> QED BY <1>6, <1>7, <2>1, <2>2
<1>9. ASSUME NEW i \in 1..(N - 1)
      PROVE  g[i] = Value(g[i - 1], rest[i], n, m)
  <2>1. i \in 0..(N - 1) /\ i - 1 \in 0..(N - 1) /\ i + 1 \in 1..N /\ (i + 1) - 1 = i /\ (i - 1) + 1 = i
    OBVIOUS
  <2>2. g[i] = f[i + 1] /\ g[i - 1] = f[i]
    BY <1>6, <2>1
  <2>3. f[i + 1] = Value(f[i], lists[i + 1], n, m)
    BY <1>7, <2>1
  <2> QED BY <1>4, <2>2, <2>3
<1>10. LeadsOn(g, Value(v, lists[1], n, m), rest, w, n, m)
  BY <1>4, <1>8, <1>9 DEF LeadsOn
<1> QED BY <1>2, <1>10 DEF Leads

LEMMA LeadsWithFirst ==
  ASSUME NEW S, NEW lists \in Seq(S), lists # <<>>, NEW first \in S, NEW v, NEW w, NEW x, NEW n, NEW m,
         Leads(v, lists, w, n, m), Value(x, first, n, m) = Value(v, lists[1], n, m)
  PROVE  Leads(x, [lists EXCEPT ![1] = first], w, n, m)
<1>1. PICK f : LeadsOn(f, v, lists, w, n, m)
  BY DEF Leads
<1>2. PICK N \in Nat : N = Len(lists) /\ N > 0
  OBVIOUS
<1>3. PICK others \in Seq(S) : others = [lists EXCEPT ![1] = first]
  <2>1. [lists EXCEPT ![1] = first] \in Seq(S)
    OBVIOUS
  <2> QED BY <2>1
<1>4. Len(others) = N /\ others[1] = first /\ \A i \in 2..N : others[i] = lists[i]
  BY <1>2, <1>3
<1>5. PICK g : g = [i \in 0..N |-> IF i = 0 THEN x ELSE f[i]]
  OBVIOUS
<1>6. g[0] = x /\ \A i \in 1..N : g[i] = f[i]
  BY <1>5
<1>7. \A i \in 1..N : f[i] = Value(f[i - 1], lists[i], n, m)
  BY <1>1, <1>2 DEF LeadsOn
<1>8. f[0] = v /\ f[N] = w
  BY <1>1, <1>2 DEF LeadsOn
<1>9. ASSUME NEW i \in 1..N
      PROVE  g[i] = Value(g[i - 1], others[i], n, m)
  <2>1. CASE i = 1
    <3>1. f[1] = Value(v, lists[1], n, m)
      BY <1>2, <1>7, <1>8
    <3>2. g[1] = f[1] /\ others[1] = first /\ g[0] = x
      BY <1>2, <1>4, <1>6
    <3>3. g[1] = Value(g[0], others[1], n, m)
      BY <3>1, <3>2
    <3> QED BY <2>1, <3>3
  <2>2. CASE i # 1
    <3>1. i \in 2..N /\ i - 1 \in 1..N
      BY <2>2
    <3>2. g[i] = f[i] /\ g[i - 1] = f[i - 1] /\ others[i] = lists[i]
      BY <1>4, <1>6, <3>1
    <3> QED BY <1>7, <3>2
  <2> QED BY <2>1, <2>2
<1>10. LeadsOn(g, x, others, w, n, m)
  <2>1. g[N] = w
    BY <1>2, <1>6, <1>8
  <2> QED BY <1>4, <1>6, <1>9, <2>1 DEF LeadsOn
<1> QED BY <1>3, <1>10 DEF Leads

-----------------------------------------------------------------------------
(* The copy follows the sink: with what is on its way to the client, in the *)
(* making, and in the buffer, it comes to what the sink knows of the nodes  *)
(* that the sink knows.                                                     *)
Cared(state) == DOMAIN state.nodes \cup {Sink}

ComesTo(c, s, sent, n, m) ==
  \E w1, w2 : /\ Leads(About(c.state, n, m), sent, w1, n, m)
              /\ Leads(w1, s.jobs, w2, n, m)
              /\ Value(w2, s.buffer, n, m) = About(s.state, n, m)

Telling(c, s, sent) == c.heard \/ s.subscribed \/ sent # <<>> \/ s.jobs # <<>>

FollowsIn(c, s, sent) ==
  /\ Telling(c, s, sent) => \A n \in Cared(s.state), m \in Nodes : ComesTo(c, s, sent, n, m)
  /\ \A n \in Cared(s.state), m \in Nodes :
       Value(About(s.state, n, m), s.buffer, n, m) = About(s.state, n, m)
  /\ c.heard \/ c.state = NewNetworkState
  /\ c.launched \/ (~Telling(c, s, sent) /\ s.buffer = <<>>)

Follows == FollowsIn(client, sink, toClient)

(* Before the client subscribes nobody tells it anything.                   *)
LEMMA FollowsQuietly ==
  ASSUME NEW c, NEW s, NEW q, c.heard \/ c.state = NewNetworkState, ~Telling(c, s, q), s.buffer = <<>>
  PROVE  FollowsIn(c, s, q)
BY ValueEmpty DEF FollowsIn

LEMMA SinkStateParts ==
  ASSUME NEW s \in SinkStates
  PROVE  /\ s.state \in GoodStates /\ s.buffer \in Seq(Updates)
         /\ s.jobs \in Seq(Seq(Updates)) /\ s.jobs \in Seq(Seq(Entries))
         /\ Cared(s.state) \subseteq Nodes
<1>1. s.state \in GoodStates /\ s.buffer \in Seq(Entries) /\ s.jobs \in Seq(Seq(Entries))
  BY DEF SinkStates
<1>2. s.jobs \in Seq(Seq(Updates))
  <2>1. Seq(Entries) \subseteq Seq(Updates)
    BY EntriesAreUpdates
  <2>2. PICK A, B : A = Seq(Entries) /\ B = Seq(Updates)
    OBVIOUS
  <2>3. s.jobs \in Seq(B)
    BY <1>1, <2>1, <2>2, SeqSubset
  <2> QED BY <2>2, <2>3
<1>3. DOMAIN s.state.nodes \subseteq Nodes
  BY <1>1, StateParts
<1> QED BY <1>1, <1>2, <1>3, EntriesAreUpdates, ObserverAssumption DEF Cared

(* The sink learns something, and puts it into the buffer.                  *)
LEMMA ComesToMore ==
  ASSUME NEW c, NEW s \in SinkStates, NEW q, NEW t, NEW u \in Seq(Updates), NEW n, NEW m,
         ComesTo(c, s, q, n, m), t.buffer = s.buffer \o u, t.jobs = s.jobs,
         About(t.state, n, m) = Value(About(s.state, n, m), u, n, m)
  PROVE  ComesTo(c, t, q, n, m)
<1>1. PICK w1, w2 : /\ Leads(About(c.state, n, m), q, w1, n, m)
                    /\ Leads(w1, s.jobs, w2, n, m)
                    /\ Value(w2, s.buffer, n, m) = About(s.state, n, m)
  BY DEF ComesTo
<1>2. PICK b \in Seq(Updates) : b = s.buffer
  BY SinkStateParts
<1>3. Value(w2, b \o u, n, m) = Value(Value(w2, b, n, m), u, n, m)
  BY ValueConcat
<1>4. Value(w2, t.buffer, n, m) = About(t.state, n, m)
  BY <1>1, <1>2, <1>3
<1> QED BY <1>1, <1>4 DEF ComesTo

SettlesBefore(g, b, u, n, m) ==
  /\ Value(g, b, n, m) = g
  /\ Fixing(u, n, m) # {} \/ g # {} \/ Value(g, u, n, m) = {} \/ b = <<>>
SettlesWith(g, b, u, n, m) == Value(Value(g, u, n, m), b \o u, n, m) = Value(g, u, n, m)

LEMMA SettledMore ==
  ASSUME NEW b \in Seq(Updates), NEW u \in Seq(Updates), NEW g, NEW n, NEW m, SettlesBefore(g, b, u, n, m)
  PROVE  SettlesWith(g, b, u, n, m)
<1>settles. Value(g, b, n, m) = g /\ (Fixing(u, n, m) # {} \/ g # {} \/ Value(g, u, n, m) = {} \/ b = <<>>)
  BY DEF SettlesBefore
<1>0. PICK h : h = Value(g, u, n, m)
  OBVIOUS
<1>1. Value(h, b \o u, n, m) = Value(Value(h, b, n, m), u, n, m)
  BY ValueConcat
<1>2. CASE Fixing(u, n, m) # {}
  <2>1. \A v : Value(v, u, n, m) = Value(g, u, n, m)
    BY <1>2 DEF Value
  <2> QED BY <1>0, <1>1, <2>1 DEF SettlesWith
<1>3. CASE Fixing(u, n, m) = {} /\ (g # {} \/ h = {})
  <2>1. h = g
    BY <1>0, <1>3 DEF Value
  <2> QED BY <1>0, <1>1, <1>settles, <2>1 DEF SettlesWith
<1>4. CASE b = <<>>
  <2>1. Value(h, b, n, m) = h
    BY <1>4, ValueEmpty
  <2>2. Value(h, u, n, m) = h
    BY <1>0, ValueTwice
  <2> QED BY <1>0, <1>1, <2>1, <2>2 DEF SettlesWith
<1> QED BY <1>0, <1>2, <1>3, <1>4, <1>settles

LEMMA FollowsReport ==
  ASSUME NEW c \in ClientStates, NEW s \in SinkStates, NEW q, FollowsIn(c, s, q), c.launched,
         NEW t \in SinkStates, NEW u \in Seq(Updates), Done(t.state, s.state, u),
         t.buffer = s.buffer \o u, t.jobs = s.jobs, t.subscribed = s.subscribed,
         \A n \in DOMAIN t.state.nodes \ DOMAIN s.state.nodes :
           n \notin DOMAIN c.state.nodes /\ q = <<>> /\ s.jobs = <<>> /\ s.buffer = <<>>
  PROVE  FollowsIn(c, t, q)
<1>1. s.state \in GoodStates /\ t.state \in GoodStates /\ c.state \in GoodStates
  BY SinkStateParts DEF ClientStates
<1>2. Telling(c, t, q) => Telling(c, s, q)
  BY DEF Telling
<1>3. PICK b \in Seq(Updates) : b = s.buffer
  BY SinkStateParts
<1>4. ASSUME NEW n \in Cared(t.state), NEW m \in Nodes
      PROVE  /\ Telling(c, t, q) => ComesTo(c, t, q, n, m)
             /\ Value(About(t.state, n, m), t.buffer, n, m) = About(t.state, n, m)
  <2>1. n \in Nodes
    BY SinkStateParts
  <2>2. PICK g, h : g = About(s.state, n, m) /\ h = About(t.state, n, m)
    OBVIOUS
  <2>3. h = Value(g, u, n, m)
    BY <2>1, <2>2 DEF Done
  <2>4. CASE n \in Cared(s.state)
    <3>1. Value(g, b, n, m) = g
      BY <1>3, <2>2, <2>4 DEF FollowsIn
    <3>2. Fixing(u, n, m) # {} \/ g # {} \/ h = {} \/ b = <<>>
      <4> SUFFICES ASSUME Fixing(u, n, m) = {}, g = {}, h # {}, b # <<>> PROVE FALSE
        OBVIOUS
      <4>1. CASE n = m
        <5>1. About(s.state, n, n) = {} /\ About(t.state, n, n) # {}
          BY <2>2, <4>1
        <5>2. n \notin DOMAIN s.state.nodes /\ n \in DOMAIN t.state.nodes
          BY <5>1 DEF About
        <5> QED BY <1>3, <5>2
      <4>2. CASE n # m
        <5>1. ~Creating(u, n, m)
          BY <4>2 DEF Creating, Creates
        <5>2. h = g
          BY <2>3, <5>1 DEF Value
        <5> QED BY <5>2
      <4> QED BY <4>1, <4>2
    <3>3. Value(h, b \o u, n, m) = h
      <4>1. SettlesBefore(g, b, u, n, m)
        BY <2>3, <3>1, <3>2 DEF SettlesBefore
      <4>2. SettlesWith(g, b, u, n, m)
        BY <4>1, SettledMore
      <4> QED BY <2>3, <4>2 DEF SettlesWith
    <3>4. Telling(c, t, q) => ComesTo(c, t, q, n, m)
      <4>1. Telling(c, t, q) => ComesTo(c, s, q, n, m)
        BY <1>2, <2>4 DEF FollowsIn
      <4> QED BY <2>2, <2>3, <4>1, ComesToMore
    <3> QED BY <1>3, <2>2, <3>3, <3>4
  <2>5. CASE n \notin Cared(s.state)
    <3>1. /\ n \notin DOMAIN s.state.nodes /\ n \notin DOMAIN c.state.nodes
          /\ q = <<>> /\ s.jobs = <<>> /\ b = <<>>
      BY <1>3, <2>5 DEF Cared
    <3>2. g = {} /\ About(c.state, n, m) = {}
      BY <1>1, <2>1, <2>2, <3>1, AboutUnknown
    <3>3. Value(h, b \o u, n, m) = h
      <4>1. Value(g, b, n, m) = g
        BY <3>1, ValueEmpty
      <4>2. SettlesBefore(g, b, u, n, m)
        BY <3>1, <4>1 DEF SettlesBefore
      <4>3. SettlesWith(g, b, u, n, m)
        BY <4>2, SettledMore
      <4> QED BY <2>3, <4>3 DEF SettlesWith
    <3>4. ComesTo(c, s, q, n, m)
      <4>1. Leads({}, q, {}, n, m) /\ Leads({}, s.jobs, {}, n, m)
        BY <3>1, LeadsNowhere
      <4>2. Value({}, s.buffer, n, m) = {}
        BY <1>3, <3>1, ValueEmpty
      <4> QED BY <2>2, <3>2, <4>1, <4>2 DEF ComesTo
    <3>5. ComesTo(c, t, q, n, m)
      BY <2>2, <2>3, <3>4, ComesToMore
    <3> QED BY <1>3, <2>2, <3>3, <3>5
  <2> QED BY <2>4, <2>5
<1>5. c.heard \/ c.state = NewNetworkState
  BY DEF FollowsIn
<1> QED BY <1>4, <1>5 DEF FollowsIn

(* What the sink knows of what the client cares for, and what is to come,   *)
(* is as before.                                                            *)
LEMMA FollowsSame ==
  ASSUME NEW c, NEW s, NEW q, FollowsIn(c, s, q),
         NEW t, t.buffer = s.buffer, t.jobs = s.jobs, t.subscribed => s.subscribed,
         Cared(t.state) \subseteq Cared(s.state),
         \A n \in Cared(t.state), m \in Nodes : About(t.state, n, m) = About(s.state, n, m)
  PROVE  FollowsIn(c, t, q)
<1>1. Telling(c, t, q) => Telling(c, s, q)
  BY DEF Telling
<1>2. ASSUME NEW n \in Cared(t.state), NEW m \in Nodes
      PROVE  /\ Telling(c, t, q) => ComesTo(c, t, q, n, m)
             /\ Value(About(t.state, n, m), t.buffer, n, m) = About(t.state, n, m)
  <2>1. n \in Cared(s.state) /\ About(t.state, n, m) = About(s.state, n, m)
    OBVIOUS
  <2>2. Value(About(s.state, n, m), s.buffer, n, m) = About(s.state, n, m)
    BY <2>1 DEF FollowsIn
  <2>3. Telling(c, t, q) => ComesTo(c, s, q, n, m)
    BY <1>1, <2>1 DEF FollowsIn
  <2>4. ComesTo(c, s, q, n, m) => ComesTo(c, t, q, n, m)
    BY <2>1 DEF ComesTo
  <2> QED BY <2>1, <2>2, <2>3, <2>4
<1>3. (c.heard \/ c.state = NewNetworkState) /\ (c.launched \/ (~Telling(c, s, q) /\ s.buffer = <<>>))
  BY DEF FollowsIn
<1> QED BY <1>1, <1>2, <1>3 DEF FollowsIn

(* A client that subscribes is sent a dump, unless there is nothing to say. *)
LEMMA NewStateEmpty == \A n, m \in Nodes : About(NewNetworkState, n, m) = {}
<1>1. DOMAIN NewNetworkState.nodes = {} /\ DOMAIN NewNetworkState.strong = {}
  BY DEF NewNetworkState
<1> QED BY <1>1 DEF About

LEMMA FollowsDump ==
  ASSUME NEW c, NEW s \in SinkStates, NEW q, FollowsIn(c, s, q), c.launched,
         NEW t, t.state = s.state, t.buffer = s.buffer, t.subscribed, NEW dump, dump = DumpAsUpdates(s.state),
         t.jobs = IF dump = <<>> THEN s.jobs ELSE Append(s.jobs, dump)
  PROVE  FollowsIn(c, t, q)
<1>1. s.state \in GoodStates /\ s.jobs \in Seq(Seq(Updates)) /\ dump \in Seq(Updates)
  BY SinkStateParts, DumpType, EntriesAreUpdates
<1>2. ASSUME NEW n \in Cared(s.state), NEW m \in Nodes
      PROVE  ComesTo(c, t, q, n, m)
  <2>1. n \in Nodes
    BY SinkStateParts
  <2>2. PICK g : g = About(s.state, n, m)
    OBVIOUS
  <2>3. \A v : Value(v, dump, n, m) = Dumped(v, g, n, m)
    BY <1>1, <2>1, <2>2, DumpSays
  <2>4. Value(g, s.buffer, n, m) = g
    BY <2>2 DEF FollowsIn
  <2>5. ASSUME NEW w1, NEW w2, Leads(About(c.state, n, m), q, w1, n, m), Leads(w1, s.jobs, w2, n, m),
               Value(Value(w2, dump, n, m), s.buffer, n, m) = g
        PROVE  ComesTo(c, t, q, n, m)
    <3>1. CASE dump = <<>>
      <4>1. Value(w2, dump, n, m) = w2
        BY <3>1, ValueEmpty
      <4> QED BY <2>2, <2>5, <3>1, <4>1 DEF ComesTo
    <3>2. CASE dump # <<>>
      <4>1. PICK more : more = Append(s.jobs, dump)
        OBVIOUS
      <4>2. Leads(w1, more, Value(w2, dump, n, m), n, m)
        BY <1>1, <2>5, <4>1, LeadsFurther
      <4>3. t.jobs = more
        BY <3>2, <4>1
      <4> QED BY <2>2, <2>5, <4>2, <4>3 DEF ComesTo
    <3> QED BY <3>1, <3>2
  <2>6. CASE Telling(c, s, q)
    <3>1. ComesTo(c, s, q, n, m)
      BY <2>6 DEF FollowsIn
    <3>2. PICK w1, w2 : /\ Leads(About(c.state, n, m), q, w1, n, m)
                        /\ Leads(w1, s.jobs, w2, n, m)
                        /\ Value(w2, s.buffer, n, m) = g
      BY <2>2, <3>1 DEF ComesTo
    <3>3. Dumped(w2, g, n, m) = w2 \/ Dumped(w2, g, n, m) = g
      BY DEF Dumped
    <3>4. Value(Value(w2, dump, n, m), s.buffer, n, m) = g
      BY <2>3, <2>4, <3>2, <3>3
    <3> QED BY <2>5, <3>2, <3>4
  <2>7. CASE ~Telling(c, s, q)
    <3>1. c.state = NewNetworkState /\ q = <<>> /\ s.jobs = <<>>
      BY <2>7 DEF FollowsIn, Telling
    <3>2. About(c.state, n, m) = {}
      BY <2>1, <3>1, NewStateEmpty
    <3>3. Leads(About(c.state, n, m), q, {}, n, m) /\ Leads({}, s.jobs, {}, n, m)
      BY <3>1, <3>2, LeadsNowhere
    <3>4. Dumped({}, g, n, m) = g
      BY DEF Dumped
    <3>5. Value(Value({}, dump, n, m), s.buffer, n, m) = g
      BY <2>3, <2>4, <3>4
    <3> QED BY <2>5, <3>3, <3>5
  <2> QED BY <2>6, <2>7
<1>3. \A n \in Cared(s.state), m \in Nodes : Value(About(s.state, n, m), s.buffer, n, m) = About(s.state, n, m)
  BY DEF FollowsIn
<1>4. c.heard \/ c.state = NewNetworkState
  BY DEF FollowsIn
<1> QED BY <1>2, <1>3, <1>4 DEF FollowsIn

(* The buffer becomes a notification.                                       *)
LEMMA FollowsNotify ==
  ASSUME NEW c, NEW s \in SinkStates, NEW q, FollowsIn(c, s, q), s.subscribed,
         NEW t, t.state = s.state, t.buffer = <<>>, t.subscribed = s.subscribed,
         t.jobs = Append(s.jobs, s.buffer)
  PROVE  FollowsIn(c, t, q)
<1>1. Telling(c, s, q) /\ c.launched
  BY DEF Telling, FollowsIn
<1>2. ASSUME NEW n \in Cared(s.state), NEW m \in Nodes
      PROVE  ComesTo(c, t, q, n, m)
  <2>1. ComesTo(c, s, q, n, m)
    BY <1>1 DEF FollowsIn
  <2>2. PICK w1, w2 : /\ Leads(About(c.state, n, m), q, w1, n, m)
                      /\ Leads(w1, s.jobs, w2, n, m)
                      /\ Value(w2, s.buffer, n, m) = About(s.state, n, m)
    BY <2>1 DEF ComesTo
  <2>3. PICK jobs \in Seq(Seq(Updates)), b \in Seq(Updates) : jobs = s.jobs /\ b = s.buffer
    BY SinkStateParts
  <2>4. PICK more : more = Append(jobs, b)
    OBVIOUS
  <2>5. Leads(w1, more, Value(w2, b, n, m), n, m)
    BY <2>2, <2>3, <2>4, LeadsFurther
  <2>6. Leads(w1, t.jobs, About(t.state, n, m), n, m)
    BY <2>2, <2>3, <2>4, <2>5
  <2>7. Value(About(t.state, n, m), t.buffer, n, m) = About(t.state, n, m)
    BY ValueEmpty
  <2> QED BY <2>2, <2>6, <2>7 DEF ComesTo
<1>3. \A n \in Cared(s.state), m \in Nodes : Value(About(t.state, n, m), t.buffer, n, m) = About(t.state, n, m)
  BY ValueEmpty
<1>4. c.heard \/ c.state = NewNetworkState
  BY DEF FollowsIn
<1> QED BY <1>1, <1>2, <1>3, <1>4 DEF FollowsIn

(* A part of the first notification is sent.                                *)
LEMMA FollowsSend ==
  ASSUME NEW c, NEW s \in SinkStates, NEW q \in Seq(Seq(Updates)), FollowsIn(c, s, q), s.jobs # <<>>,
         NEW sent \in Seq(Updates), NEW rest \in Seq(Updates), s.jobs[1] = sent \o rest,
         NEW t, t.state = s.state, t.buffer = s.buffer, t.subscribed = s.subscribed,
         t.jobs = IF rest = <<>> THEN Tail(s.jobs) ELSE [s.jobs EXCEPT ![1] = rest]
  PROVE  FollowsIn(c, t, Append(q, sent))
<1>1. Telling(c, s, q) /\ c.launched
  BY DEF Telling, FollowsIn
<1>2. PICK longer : longer = Append(q, sent)
  OBVIOUS
<1>3. ASSUME NEW n \in Cared(s.state), NEW m \in Nodes
      PROVE  ComesTo(c, t, longer, n, m)
  <2>1. ComesTo(c, s, q, n, m)
    BY <1>1 DEF FollowsIn
  <2>2. PICK w1, w2 : /\ Leads(About(c.state, n, m), q, w1, n, m)
                      /\ Leads(w1, s.jobs, w2, n, m)
                      /\ Value(w2, s.buffer, n, m) = About(s.state, n, m)
    BY <2>1 DEF ComesTo
  <2>3. PICK jobs \in Seq(Seq(Updates)) : jobs = s.jobs /\ jobs # <<>>
    BY SinkStateParts
  <2>4. PICK w : w = Value(w1, sent, n, m)
    OBVIOUS
  <2>5. Leads(About(c.state, n, m), longer, w, n, m)
    BY <1>2, <2>2, <2>4, LeadsFurther
  <2>6. Value(w1, jobs[1], n, m) = Value(w, rest, n, m)
    <3>1. Value(w1, sent \o rest, n, m) = Value(Value(w1, sent, n, m), rest, n, m)
      BY ValueConcat
    <3> QED BY <2>3, <2>4, <3>1
  <2>7. Leads(w, t.jobs, w2, n, m)
    <3>1. CASE rest = <<>>
      <4>1. Leads(Value(w1, jobs[1], n, m), Tail(jobs), w2, n, m)
        BY <2>2, <2>3, LeadsWithoutFirst
      <4>2. Value(w, rest, n, m) = w
        BY <3>1, ValueEmpty
      <4> QED BY <2>3, <2>6, <3>1, <4>1, <4>2
    <3>2. CASE rest # <<>>
      <4>1. Leads(w1, jobs, w2, n, m)
        BY <2>2, <2>3
      <4>2. Leads(w, [jobs EXCEPT ![1] = rest], w2, n, m)
        BY <2>3, <2>6, <4>1, LeadsWithFirst
      <4> QED BY <2>3, <3>2, <4>2
    <3> QED BY <3>1, <3>2
  <2> QED BY <2>2, <2>5, <2>7 DEF ComesTo
<1>4. \A n \in Cared(s.state), m \in Nodes : Value(About(t.state, n, m), t.buffer, n, m) = About(t.state, n, m)
  BY DEF FollowsIn
<1>5. c.heard \/ c.state = NewNetworkState
  BY DEF FollowsIn
<1> QED BY <1>1, <1>2, <1>3, <1>4, <1>5 DEF FollowsIn

(* The client takes what has come first.                                    *)
LEMMA FollowsHeard ==
  ASSUME NEW c, NEW s, NEW q \in Seq(Seq(Updates)), FollowsIn(c, s, q), q # <<>>,
         NEW d, d.heard, d.launched = c.launched, Cared(s.state) \subseteq Nodes,
         \A n, m \in Nodes : About(d.state, n, m) = Value(About(c.state, n, m), q[1], n, m)
  PROVE  FollowsIn(d, s, Tail(q))
<1>1. Telling(c, s, q) /\ c.launched
  BY DEF Telling, FollowsIn
<1>2. ASSUME NEW n \in Cared(s.state), NEW m \in Nodes
      PROVE  ComesTo(d, s, Tail(q), n, m)
  <2>1. ComesTo(c, s, q, n, m)
    BY <1>1 DEF FollowsIn
  <2>2. PICK w1, w2 : /\ Leads(About(c.state, n, m), q, w1, n, m)
                      /\ Leads(w1, s.jobs, w2, n, m)
                      /\ Value(w2, s.buffer, n, m) = About(s.state, n, m)
    BY <2>1 DEF ComesTo
  <2>3. Leads(Value(About(c.state, n, m), q[1], n, m), Tail(q), w1, n, m)
    BY <2>2, LeadsWithoutFirst
  <2>4. Leads(About(d.state, n, m), Tail(q), w1, n, m)
    BY <2>3
  <2> QED BY <2>2, <2>4 DEF ComesTo
<1>3. \A n \in Cared(s.state), m \in Nodes : Value(About(s.state, n, m), s.buffer, n, m) = About(s.state, n, m)
  BY DEF FollowsIn
<1> QED BY <1>1, <1>2, <1>3 DEF FollowsIn

(* The copy loses what the sink does not know either.                       *)
LEMMA FollowsCopy ==
  ASSUME NEW c, NEW s, NEW q, FollowsIn(c, s, q),
         NEW d, d.heard = c.heard, d.launched = c.launched, c.heard \/ d.state = c.state,
         \/ \A n, m \in Nodes : About(d.state, n, m) = About(c.state, n, m)
         \/ /\ q = <<>> /\ s.jobs = <<>> /\ s.buffer = <<>>
            /\ \A n \in Cared(s.state), m \in Nodes :
                 About(d.state, n, m) = About(c.state, n, m) \/ About(d.state, n, m) = About(s.state, n, m),
         Cared(s.state) \subseteq Nodes
  PROVE  FollowsIn(d, s, q)
<1>1. Telling(d, s, q) => Telling(c, s, q)
  BY DEF Telling
<1>2. ASSUME NEW n \in Cared(s.state), NEW m \in Nodes, Telling(d, s, q)
      PROVE  ComesTo(d, s, q, n, m)
  <2>1. ComesTo(c, s, q, n, m)
    BY <1>1, <1>2 DEF FollowsIn
  <2>2. CASE About(d.state, n, m) = About(c.state, n, m)
    BY <2>1, <2>2 DEF ComesTo
  <2>3. CASE /\ q = <<>> /\ s.jobs = <<>> /\ s.buffer = <<>>
             /\ About(d.state, n, m) = About(s.state, n, m)
    <3>1. PICK g : g = About(s.state, n, m) /\ g = About(d.state, n, m)
      BY <2>3
    <3>2. Leads(g, q, g, n, m) /\ Leads(g, s.jobs, g, n, m) /\ Value(g, s.buffer, n, m) = g
      BY <2>3, LeadsNowhere, ValueEmpty
    <3> QED BY <3>1, <3>2 DEF ComesTo
  <2> QED BY <2>2, <2>3
<1>3. \A n \in Cared(s.state), m \in Nodes : Value(About(s.state, n, m), s.buffer, n, m) = About(s.state, n, m)
  BY DEF FollowsIn
<1>4. (d.heard \/ d.state = NewNetworkState) /\ (d.launched \/ (~Telling(d, s, q) /\ s.buffer = <<>>))
  BY <1>1 DEF FollowsIn
<1> QED BY <1>2, <1>3, <1>4 DEF FollowsIn

-----------------------------------------------------------------------------
(* The search for what can be reached in a state.                           *)
Further(state, found) == found \cup ((UNION {AllLinks(state, id) : id \in found}) \cap DOMAIN state.nodes)

LEMMA FurtherFacts ==
  ASSUME NEW state, NEW found
  PROVE  /\ found \subseteq Further(state, found)
         /\ found \subseteq DOMAIN state.nodes => Further(state, found) \subseteq DOMAIN state.nodes
         /\ \A P : (\A n \in found : AllLinks(state, n) \cap DOMAIN state.nodes \subseteq P) /\ found \subseteq P
                    => Further(state, found) \subseteq P
         /\ \A n \in found : AllLinks(state, n) \cap DOMAIN state.nodes \subseteq Further(state, found)
<1>1. ASSUME NEW x
      PROVE  x \in Further(state, found) <=>
               (x \in found \/ (x \in DOMAIN state.nodes /\ \E n \in found : x \in AllLinks(state, n)))
  <2>1. PICK A : A = {AllLinks(state, n) : n \in found}
    OBVIOUS
  <2>2. x \in UNION A <=> \E n \in found : x \in AllLinks(state, n)
    BY <2>1
  <2>3. Further(state, found) = found \cup ((UNION A) \cap DOMAIN state.nodes)
    BY <2>1 DEF Further
  <2> QED BY <2>2, <2>3
<1> QED BY <1>1

ReachesBy(f, state, id, V, N, H) == GrowingSearch(f, V, N, {id}, H) /\ Reachable(state, id) = f[N]

LEMMA ReachableRounds ==
  ASSUME NEW state, NEW id \in DOMAIN state.nodes, NEW V, V = DOMAIN state.nodes, NEW N \in Nat, N = Cardinality(V),
         NEW H, H = [found \in SUBSET V |-> Further(state, found)]
  PROVE  \E f : ReachesBy(f, state, id, V, N, H)
<1> DEFINE F(f) == f = [i \in 0..Cardinality(DOMAIN state.nodes) |->
             IF i = 0 THEN {id}
             ELSE f[i - 1] \cup ((UNION {AllLinks(state, k) : k \in f[i - 1]}) \cap DOMAIN state.nodes)]
<1>1. PICK R, first : R = SUBSET V /\ first = {id}
  OBVIOUS
<1>2. /\ H \in [R -> R] /\ first \in R /\ first # {}
      /\ \A found \in R : H[found] = Further(state, found) /\ found \subseteq H[found]
  <2>1. \A found \in R : H[found] = Further(state, found)
    BY <1>1
  <2>2. \A found \in R : Further(state, found) \in R /\ found \subseteq Further(state, found)
    BY <1>1, FurtherFacts
  <2>3. H = [found \in R |-> H[found]]
    BY <1>1
  <2> QED BY <1>1, <2>1, <2>2, <2>3
<1>3. \E f : F(f)
  <2>1. PICK f \in [0..N -> R] : Searches(f, N, first, H)
    BY <1>2, SearchExists
  <2>2. \A i \in 0..N : i # 0 => f[i] = Further(state, f[i - 1])
    <3> SUFFICES ASSUME NEW i \in 0..N, i # 0 PROVE f[i] = Further(state, f[i - 1])
      OBVIOUS
    <3>1. i \in 1..N /\ i - 1 \in 0..N
      OBVIOUS
    <3>2. f[i] = H[f[i - 1]] /\ f[i - 1] \in R
      BY <2>1, <3>1 DEF Searches
    <3> QED BY <1>2, <3>2
  <2>3. \A i \in 0..N : f[i] = IF i = 0 THEN {id}
             ELSE f[i - 1] \cup ((UNION {AllLinks(state, k) : k \in f[i - 1]}) \cap DOMAIN state.nodes)
    BY <1>1, <2>1, <2>2 DEF Searches, Further
  <2>4. F(f)
    BY <2>1, <2>3
  <2> HIDE DEF F
  <2> QED BY <2>4
<1>4. F(CHOOSE f : F(f))
  <2> HIDE DEF F
  <2> QED BY <1>3
<1>5. PICK f : F(f) /\ Reachable(state, id) = f[N]
  <2>1. Reachable(state, id) = (CHOOSE f : F(f))[Cardinality(DOMAIN state.nodes)]
    BY Zenon DEF Reachable
  <2>2. PICK f : f = CHOOSE h : F(h)
    OBVIOUS
  <2> HIDE DEF F
  <2> QED BY <1>4, <2>1, <2>2
<1>6. f[0] = first /\ \A i \in 1..N : f[i] = Further(state, f[i - 1])
  <2>1. \A i \in 0..N : f[i] = IF i = 0 THEN {id}
             ELSE f[i - 1] \cup ((UNION {AllLinks(state, k) : k \in f[i - 1]}) \cap DOMAIN state.nodes)
    BY <1>5
  <2>2. 0 \in 0..N /\ \A i \in 1..N : i \in 0..N /\ i # 0
    OBVIOUS
  <2> HIDE DEF F
  <2> QED BY <1>1, <2>1, <2>2 DEF Further
<1>7. \A i \in 0..N : f[i] \in R
  <2> DEFINE T == {i \in 0..N : f[i] \notin R}
  <2>1. 0 \notin T
    BY <1>2, <1>6
  <2>2. ASSUME NEW i \in T
        PROVE  i - 1 \in T
    <3>1. i \in 1..N /\ i - 1 \in 0..N /\ f[i] = Further(state, f[i - 1])
      BY <1>6, <2>1
    <3>2. f[i - 1] \in R => f[i] \in R
      BY <1>1, <3>1, FurtherFacts
    <3> QED BY <3>1, <3>2
  <2>3. T \in SUBSET (0..N)
    OBVIOUS
  <2>4. T = {}
    <3> HIDE DEF T
    <3> QED BY <2>1, <2>2, <2>3, Upward
  <2> QED BY <2>4
<1>8. f \in [0..N -> R]
  <2>1. f = [i \in 0..N |-> f[i]]
    BY <1>5
  <2> HIDE DEF F
  <2> QED BY <1>7, <2>1
<1>9. Searches(f, N, first, H)
  <2>1. \A i \in 1..N : i - 1 \in 0..N
    OBVIOUS
  <2> HIDE DEF F
  <2> QED BY <1>2, <1>6, <1>7, <2>1 DEF Searches
<1>10. GrowingSearch(f, V, N, first, H)
  <2> HIDE DEF F
  <2> QED BY <1>1, <1>2, <1>8, <1>9 DEF GrowingSearch
<1> HIDE DEF F
<1> QED BY <1>1, <1>5, <1>10 DEF ReachesBy

(* What is reachable: the smallest set of known nodes that holds the first  *)
(* one and that no link leaves.                                             *)
LinksStay(state, found) == \A n \in found : AllLinks(state, n) \cap DOMAIN state.nodes \subseteq found

LEMMA ReachableFacts ==
  ASSUME NEW state \in GoodStates, NEW id \in DOMAIN state.nodes
  PROVE  /\ id \in Reachable(state, id) /\ Reachable(state, id) \subseteq DOMAIN state.nodes
         /\ LinksStay(state, Reachable(state, id))
         /\ \A P : id \in P /\ LinksStay(state, P) => Reachable(state, id) \subseteq P
<1>1. PICK V : V = DOMAIN state.nodes /\ IsFiniteSet(V)
  BY StateParts, SubsetFinite
<1>2. PICK N \in Nat : N = Cardinality(V)
  BY <1>1, FS_CardinalityType
<1>3. PICK H : H = [found \in SUBSET V |-> Further(state, found)]
  OBVIOUS
<1>4. PICK f : ReachesBy(f, state, id, V, N, H)
  BY <1>1, <1>2, <1>3, ReachableRounds
<1>5. /\ GrowingSearch(f, V, N, {id}, H) /\ Reachable(state, id) = f[N]
      /\ f \in [0..N -> SUBSET V] /\ Searches(f, N, {id}, H)
  BY <1>4 DEF ReachesBy, GrowingSearch
<1>6. f[N] \in SUBSET V
  BY <1>5
<1>7. H[f[N]] = f[N]
  BY <1>1, <1>2, <1>5, SearchEnds
<1>8. LinksStay(state, f[N])
  <2>1. Further(state, f[N]) = f[N]
    BY <1>3, <1>6, <1>7
  <2> QED BY <2>1, FurtherFacts DEF LinksStay
<1>9. ASSUME NEW P, id \in P, LinksStay(state, P)
      PROVE  f[N] \subseteq P
  <2>1. PICK Q : Q = P \cap V
    OBVIOUS
  <2>2. ASSUME NEW S \in SUBSET Q
        PROVE  H[S] \subseteq Q
    <3>1. H[S] = Further(state, S)
      BY <1>3, <2>1
    <3>2. \A n \in S : AllLinks(state, n) \cap DOMAIN state.nodes \subseteq Q
      BY <1>1, <1>9, <2>1 DEF LinksStay
    <3>3. Further(state, S) \subseteq Q
      BY <3>2, FurtherFacts
    <3> QED BY <3>1, <3>3
  <2>3. {id} \subseteq Q
    BY <1>1, <1>9, <2>1
  <2>4. f[N] \subseteq Q
    BY <1>5, <2>2, <2>3, SearchFinds
  <2> QED BY <2>1, <2>4
<1>10. id \in f[N]
  <2>1. ASSUME NEW i \in 1..N
        PROVE  f[i - 1] \subseteq f[i]
    <3>1. i - 1 \in 0..N /\ i \in 0..N
      OBVIOUS
    <3>2. f[i - 1] \in SUBSET V /\ f[i] = H[f[i - 1]]
      BY <1>5, <3>1 DEF Searches
    <3> QED BY <1>5, <3>2 DEF GrowingSearch
  <2> DEFINE T == {i \in 0..N : id \notin f[i]}
  <2>2. 0 \notin T
    BY <1>5 DEF Searches
  <2>3. ASSUME NEW i \in T
        PROVE  i - 1 \in T
    <3>1. i \in 1..N /\ i - 1 \in 0..N
      BY <2>2
    <3> QED BY <2>1, <3>1
  <2>4. T \in SUBSET (0..N)
    OBVIOUS
  <2>5. T = {}
    <3> HIDE DEF T
    <3> QED BY <2>2, <2>3, <2>4, Upward
  <2> QED BY <2>5
<1> QED BY <1>1, <1>5, <1>6, <1>8, <1>9, <1>10

-----------------------------------------------------------------------------
(* A copy that knows the same of the nodes that the sink knows agrees with  *)
(* the sink on what is connected to it.                                     *)
KnowsAlike(a, b) == \A n \in Cared(b), m \in Nodes : About(a, n, m) = About(b, n, m)

LEMMA AboutEnds ==
  ASSUME NEW state \in GoodStates, NEW n, NEW m, n # m
  PROVE  About(state, n, m) # {} <=> <<n, m>> \in Ends(state)
<1>1. Reversed(<<n, m>>) = <<m, n>> /\ Reversed(<<m, n>>) = <<n, m>>
  BY DEF Reversed
<1>2. <<n, m>> \in Ends(state) <=> (<<n, m>> \in DOMAIN state.strong \/ <<m, n>> \in DOMAIN state.strong)
  BY <1>1, StateParts DEF Ends, Mutual
<1>3. ASSUME NEW link \in DOMAIN state.strong, link = <<n, m>> \/ link = <<m, n>>
      PROVE  About(state, n, m) # {}
  <2>1. About(state, n, m) = {state.strong[link]}
    BY <1>3, AboutLink
  <2> QED BY <2>1
<1>4. <<n, m>> \notin DOMAIN state.strong /\ <<m, n>> \notin DOMAIN state.strong => About(state, n, m) = {}
  BY AboutLink
<1> QED BY <1>2, <1>3, <1>4

LEMMA AlikeNodes ==
  ASSUME NEW a \in GoodStates, NEW b \in GoodStates, KnowsAlike(a, b), NEW n \in Cared(b), n \in Nodes
  PROVE  /\ n \in DOMAIN a.nodes <=> n \in DOMAIN b.nodes
         /\ n \in DOMAIN b.nodes => a.nodes[n] = b.nodes[n]
         /\ AllLinks(a, n) = AllLinks(b, n)
<1>1. About(a, n, n) = About(b, n, n)
  BY DEF KnowsAlike
<1>2. /\ n \in DOMAIN a.nodes => About(a, n, n) = {a.nodes[n].cost}
      /\ n \notin DOMAIN a.nodes => About(a, n, n) = {}
      /\ n \in DOMAIN b.nodes => About(b, n, n) = {b.nodes[n].cost}
      /\ n \notin DOMAIN b.nodes => About(b, n, n) = {}
  BY AboutNode
<1>3. n \in DOMAIN a.nodes <=> n \in DOMAIN b.nodes
  BY <1>1, <1>2
<1>4. n \in DOMAIN b.nodes => a.nodes[n] = b.nodes[n]
  <2> SUFFICES ASSUME n \in DOMAIN b.nodes PROVE a.nodes[n] = b.nodes[n]
    OBVIOUS
  <2>1. /\ a.nodes \in NodeMaps /\ a.nodes \in Maps(Nodes, PartialNodes)
        /\ b.nodes \in NodeMaps /\ b.nodes \in Maps(Nodes, PartialNodes)
    BY StateParts
  <2>2. a.nodes[n] \in PartialNodes /\ b.nodes[n] \in PartialNodes
    BY <1>3, <2>1, MapFacts
  <2>3. a.nodes[n].id = n /\ b.nodes[n].id = n
    BY <1>3, <2>1 DEF NodeMaps
  <2>4. a.nodes[n].cost = b.nodes[n].cost
    <3>1. {a.nodes[n].cost} = {b.nodes[n].cost}
      BY <1>1, <1>2, <1>3
    <3> QED BY <3>1
  <2>5. PICK x \in PartialNodes, y \in PartialNodes : x = a.nodes[n] /\ y = b.nodes[n]
    BY <2>2
  <2>6. x = y
    BY <2>3, <2>4, <2>5 DEF PartialNodes
  <2> QED BY <2>5, <2>6
<1>5. ASSUME NEW m \in Nodes
      PROVE  <<n, m>> \in Ends(a) <=> <<n, m>> \in Ends(b)
  <2>1. CASE n = m
    <3>1. <<n, m>> \notin Links
      BY <2>1 DEF Links
    <3> QED BY <3>1, EndsAreLinks
  <2>2. CASE n # m
    <3>1. About(a, n, m) = About(b, n, m)
      BY DEF KnowsAlike
    <3> QED BY <2>2, <3>1, AboutEnds
  <2> QED BY <2>1, <2>2
<1>6. AllLinks(a, n) = AllLinks(b, n)
  BY <1>5, EndsAreLinks
<1> QED BY <1>3, <1>4, <1>6

LEMMA LinkedAreKnown ==
  ASSUME NEW state \in GoodStates, NEW n, NEW m \in AllLinks(state, n)
  PROVE  m \in DOMAIN state.nodes
<1>1. <<n, m>> \in Ends(state)
  BY EndsAreLinks
<1>2. PICK link \in DOMAIN state.strong : link = <<n, m>> \/ link = <<m, n>>
  BY <1>1, EndsSymmetric, StateParts DEF Ends, Mutual, Reversed
<1> QED BY <1>2, StateParts DEF Mutual

LEMMA AlikeNear ==
  ASSUME NEW a \in GoodStates, NEW b \in GoodStates, KnowsAlike(a, b)
  PROVE  Near(a) = Near(b) /\ Near(b) \subseteq DOMAIN b.nodes
<1>1. Sink \in Cared(b) /\ Sink \in Nodes /\ DOMAIN b.nodes \subseteq Cared(b) /\ DOMAIN b.nodes \subseteq Nodes
  BY ObserverAssumption, StateParts DEF Cared
<1>2. Sink \in DOMAIN a.nodes <=> Sink \in DOMAIN b.nodes
  BY <1>1, AlikeNodes
<1>3. CASE Sink \notin DOMAIN b.nodes
  BY <1>2, <1>3 DEF Near
<1>4. CASE Sink \in DOMAIN b.nodes
  <2>1. PICK A, B : A = Reachable(a, Sink) /\ B = Reachable(b, Sink)
    OBVIOUS
  <2>2. /\ Sink \in A /\ A \subseteq DOMAIN a.nodes /\ LinksStay(a, A)
        /\ \A P : Sink \in P /\ LinksStay(a, P) => A \subseteq P
    BY <1>2, <1>4, <2>1, ReachableFacts
  <2>3. /\ Sink \in B /\ B \subseteq DOMAIN b.nodes /\ LinksStay(b, B)
        /\ \A P : Sink \in P /\ LinksStay(b, P) => B \subseteq P
    BY <1>4, <2>1, ReachableFacts
  <2>4. \A n \in B : n \in Nodes /\ AllLinks(a, n) = AllLinks(b, n)
    BY <1>1, <2>3, AlikeNodes
  <2>5. LinksStay(a, B)
    <3> SUFFICES ASSUME NEW n \in B, NEW k \in AllLinks(a, n) PROVE k \in B
      BY DEF LinksStay
    <3>1. k \in AllLinks(b, n)
      BY <2>4
    <3>2. k \in DOMAIN b.nodes
      BY <3>1, LinkedAreKnown
    <3> QED BY <2>3, <3>1, <3>2 DEF LinksStay
  <2>6. A \subseteq B
    BY <2>2, <2>3, <2>5
  <2>7. LinksStay(b, A)
    <3> SUFFICES ASSUME NEW n \in A, NEW k \in AllLinks(b, n) PROVE k \in A
      BY DEF LinksStay
    <3>1. k \in AllLinks(a, n)
      BY <2>4, <2>6
    <3>2. k \in DOMAIN a.nodes
      BY <3>1, LinkedAreKnown
    <3> QED BY <2>2, <3>1, <3>2 DEF LinksStay
  <2>8. B \subseteq A
    BY <2>2, <2>3, <2>7
  <2>9. Near(a) = A /\ Near(b) = B
    BY <1>2, <1>4, <2>1 DEF Near
  <2> QED BY <2>3, <2>6, <2>8, <2>9
<1> QED BY <1>3, <1>4

LEMMA LinksInto ==
  ASSUME NEW a \in GoodStates, NEW b \in GoodStates, Near(a) \subseteq Near(b),
         \A n \in Near(a), m \in Nodes : About(a, n, m) = About(b, n, m)
  PROVE  EitherWay(KnownLinks(a)) \subseteq EitherWay(KnownLinks(b))
<1> SUFFICES ASSUME NEW e \in EitherWay(KnownLinks(a)) PROVE e \in EitherWay(KnownLinks(b))
  OBVIOUS
<1>1. PICK l \in KnownLinks(a) : e = <<{l[1][1], l[1][2]}, l[2]>>
  BY DEF EitherWay
<1>2. PICK link \in DOMAIN a.strong :
        {link[1], link[2]} \subseteq Near(a) /\ l = <<link, a.strong[link]>>
  BY DEF KnownLinks
<1>3. PICK n \in Nodes, m \in Nodes : link = <<n, m>> /\ n # m
  <2>1. link \in Links
    BY StateParts
  <2> QED BY <2>1 DEF Links
<1>4. PICK cost : cost = a.strong[link]
  OBVIOUS
<1>5. e = <<{n, m}, cost>> /\ n \in Near(a) /\ m \in Near(a)
  BY <1>1, <1>2, <1>3, <1>4
<1>6. About(a, n, m) = {cost}
  BY <1>3, <1>4, AboutLink
<1>7. About(b, n, m) = {cost}
  BY <1>5, <1>6
<1>8. PICK same \in DOMAIN b.strong : same = <<n, m>> \/ same = <<m, n>>
  BY <1>3, <1>7, AboutLink
<1>9. b.strong[same] = cost
  <2>1. \A x \in DOMAIN b.strong : x = <<n, m>> \/ x = <<m, n>> => About(b, n, m) = {b.strong[x]}
    BY <1>3, AboutLink
  <2>2. About(b, n, m) = {b.strong[same]}
    BY <1>8, <2>1
  <2> QED BY <1>7, <2>2
<1>10. {same[1], same[2]} = {n, m} /\ {n, m} \subseteq Near(b)
  BY <1>5, <1>8
<1>11. PICK k : k = <<same, b.strong[same]>>
  OBVIOUS
<1>12. k \in KnownLinks(b)
  BY <1>10, <1>11 DEF KnownLinks
<1>13. e = <<{k[1][1], k[1][2]}, k[2]>>
  BY <1>5, <1>9, <1>10, <1>11
<1> QED BY <1>12, <1>13 DEF EitherWay

LEMMA AlikeAgree ==
  ASSUME NEW a \in GoodStates, NEW b \in GoodStates, KnowsAlike(a, b)
  PROVE  KnownNodes(a) = KnownNodes(b) /\ EitherWay(KnownLinks(a)) = EitherWay(KnownLinks(b))
<1>1. PICK R : R = Near(a) /\ R = Near(b) /\ R \subseteq DOMAIN b.nodes
  BY AlikeNear
<1>2. \A n \in R : n \in Cared(b) /\ n \in Nodes
  BY <1>1, StateParts DEF Cared
<1>3. \A n \in R : a.nodes[n] = b.nodes[n]
  BY <1>1, <1>2, AlikeNodes
<1>4. KnownNodes(a) = KnownNodes(b)
  BY <1>1, <1>3 DEF KnownNodes
<1>5. \A n \in R, m \in Nodes : About(a, n, m) = About(b, n, m)
  BY <1>2 DEF KnowsAlike
<1>6. EitherWay(KnownLinks(a)) \subseteq EitherWay(KnownLinks(b))
  BY <1>1, <1>5, LinksInto
<1>7. EitherWay(KnownLinks(b)) \subseteq EitherWay(KnownLinks(a))
  BY <1>1, <1>5, LinksInto
<1> QED BY <1>4, <1>6, <1>7

LEMMA FollowsAgree == TypeOK /\ (flawed = {} => Follows) => CopyAgrees
<1> SUFFICES ASSUME TypeOK, Follows, NothingPending, client.heard, flawed = {}
             PROVE  /\ KnownNodes(client.state) = KnownNodes(sink.state)
                    /\ EitherWay(KnownLinks(client.state)) = EitherWay(KnownLinks(sink.state))
  BY DEF CopyAgrees
<1>1. PICK a \in GoodStates, b \in GoodStates : a = client.state /\ b = sink.state
  BY SinkParts
<1>2. toClient = <<>> /\ sink.jobs = <<>> /\ sink.buffer = <<>>
  BY DEF NothingPending, NewsUnderWay
<1>3. ASSUME NEW n \in Cared(b), NEW m \in Nodes
      PROVE  About(a, n, m) = About(b, n, m)
  <2>1. ComesTo(client, sink, toClient, n, m)
    BY <1>1 DEF Follows, FollowsIn, Telling
  <2>2. PICK w1, w2 : /\ Leads(About(a, n, m), <<>>, w1, n, m)
                      /\ Leads(w1, <<>>, w2, n, m)
                      /\ Value(w2, <<>>, n, m) = About(b, n, m)
    BY <1>1, <1>2, <2>1 DEF ComesTo
  <2>3. w1 = About(a, n, m) /\ w2 = w1
    BY <2>2, LeadsNowhere
  <2> QED BY <2>2, <2>3, ValueEmpty
<1>4. KnowsAlike(a, b)
  BY <1>3 DEF KnowsAlike
<1> QED BY <1>1, <1>4, AlikeAgree

-----------------------------------------------------------------------------
(* Steps of the sink and of the client after which nothing is flawed.       *)
LEMMA InitFollows == Init => FollowsIn(client, sink, toClient)
<1> SUFFICES ASSUME Init PROVE FollowsIn(client, sink, toClient)
  OBVIOUS
<1>1. /\ client.state = NewNetworkState /\ client.heard = FALSE
      /\ sink.subscribed = FALSE /\ sink.jobs = <<>> /\ sink.buffer = <<>> /\ toClient = <<>>
  BY DEF Init
<1>2. ~Telling(client, sink, toClient)
  BY <1>1 DEF Telling
<1> QED BY <1>1, <1>2, FollowsQuietly

LEMMA ReceiveFollows ==
  ASSUME TypeOK, Follows, flawed' = {}, NEW frame \in toSink, Receive(frame)
  PROVE  FollowsIn(client', sink', toClient')
<1>1. frame \in NodeFrames /\ sink \in SinkStates /\ client \in ClientStates
  BY DEF TypeOK
<1>2. sink' \in SinkStates
  BY ReceiveTypeOK DEF TypeOK
<1>3. PICK result \in Reports : result = Taken(sink.state, frame)
  BY <1>1, SinkParts, TakenGood
<1>4. PICK entries \in Seq(Entries) : entries = IntoNotificationEntries(result.updates)
  BY ReportParts, IntoEntriesType
<1>5. entries \in Seq(Updates)
  BY EntriesAreUpdates
<1>6. Done(result.state, sink.state, entries)
  <2>1. Accounts(result, sink.state)
    BY <1>1, <1>3, SinkParts, TakenAccounts
  <2>2. \A n, m, v : Value(v, entries, n, m) = Value(v, result.updates, n, m)
    BY <1>4, ReportParts, IntoEntriesSays
  <2> QED BY <2>1, <2>2 DEF Accounts, Done
<1>7. /\ sink'.state = result.state /\ sink'.buffer = Told(sink.buffer, entries)
      /\ sink'.jobs = sink.jobs /\ sink'.subscribed = sink.subscribed
      /\ client' = client /\ toClient' = toClient
  <2>1. PICK timer, prunes :
          sink' = [sink EXCEPT !.state = result.state, !.buffer = Told(@, entries), !.timer = timer,
                               !.prunes = prunes]
    BY <1>3, <1>4, Zenon DEF Receive
  <2>2. client' = client /\ toClient' = toClient
    BY DEF Receive
  <2> QED BY <1>1, <2>1, <2>2 DEF SinkStates
<1>8. PICK c \in ClientStates, s \in SinkStates, t \in SinkStates :
        c = client /\ s = sink /\ t = sink'
  BY <1>1, <1>2
<1>9. PICK q : q = toClient
  OBVIOUS
<1>10. FollowsIn(c, s, q)
  BY <1>8, <1>9 DEF Follows
<1>11. CASE client.launched
  <2>1. t.buffer = s.buffer \o entries
    BY <1>7, <1>8, <1>11 DEF Told
  <2>2. ~Recreated(sink.state, result.state)
    BY <1>3 DEF Receive
  <2>3. \A n \in DOMAIN t.state.nodes \ DOMAIN s.state.nodes :
          n \notin DOMAIN c.state.nodes /\ q = <<>> /\ s.jobs = <<>> /\ s.buffer = <<>>
    BY <1>7, <1>8, <1>9, <2>2 DEF Recreated, NewsUnderWay
  <2>4. Done(t.state, s.state, entries)
    BY <1>6, <1>7, <1>8
  <2>5. t.jobs = s.jobs /\ t.subscribed = s.subscribed /\ c.launched
    BY <1>7, <1>8, <1>11
  <2>6. FollowsIn(c, t, q)
    BY <1>5, <1>10, <2>1, <2>3, <2>4, <2>5, FollowsReport
  <2> QED BY <1>7, <1>8, <1>9, <2>6
<1>12. CASE ~client.launched
  <2>1. ~Telling(c, s, q) /\ s.buffer = <<>> /\ (c.heard \/ c.state = NewNetworkState)
    BY <1>8, <1>10, <1>12 DEF FollowsIn
  <2>2. t.buffer = <<>>
    BY <1>7, <1>8, <1>12, <2>1 DEF Told
  <2>3. ~Telling(c, t, q)
    BY <1>7, <1>8, <2>1 DEF Telling
  <2>4. FollowsIn(c, t, q)
    BY <2>1, <2>2, <2>3, FollowsQuietly
  <2> QED BY <1>7, <1>8, <1>9, <2>4
<1> QED BY <1>11, <1>12

(* A node that keeps a link to none of those that are removed.              *)
LEMMA SinkNotPruned ==
  ASSUME NEW state \in GoodStates
  PROVE  UnreachableNodes(state, Sink) \subseteq DOMAIN state.nodes \ {Sink}
BY ReachableFacts DEF UnreachableNodes

LEMMA AboutKept ==
  ASSUME NEW new \in GoodStates, NEW old \in GoodStates, NEW S, Gone(new, old, S),
         NEW n \in Nodes, NEW m \in Nodes, n \notin S,
         m \notin S \/ About(old, n, m) = {}
  PROVE  About(new, n, m) = About(old, n, m)
<1>1. CASE n = m
  <2>1. n \in DOMAIN new.nodes <=> n \in DOMAIN old.nodes
    BY DEF Gone
  <2>2. n \in DOMAIN new.nodes => new.nodes[n] = old.nodes[n]
    BY DEF Gone
  <2> QED BY <1>1, <2>1, <2>2, AboutNode
<1>2. CASE n # m
  <2>1. DOMAIN new.strong \subseteq DOMAIN old.strong
    BY DEF Gone
  <2>2. \A link \in DOMAIN new.strong : new.strong[link] = old.strong[link]
    BY DEF Gone
  <2>3. CASE m \notin S
    <3>1. \A link \in {<<n, m>>, <<m, n>>} : link \in DOMAIN new.strong <=> link \in DOMAIN old.strong
      BY <2>3 DEF Gone
    <3>2. {<<n, m>>, <<m, n>>} \cap DOMAIN new.strong = {<<n, m>>, <<m, n>>} \cap DOMAIN old.strong
      BY <3>1
    <3> QED BY <1>2, <2>2, <3>2 DEF About
  <2>4. CASE About(old, n, m) = {}
    <3>1. <<n, m>> \notin DOMAIN old.strong /\ <<m, n>> \notin DOMAIN old.strong
      BY <1>2, <2>4 DEF About
    <3>2. <<n, m>> \notin DOMAIN new.strong /\ <<m, n>> \notin DOMAIN new.strong
      BY <2>1, <3>1
    <3> QED BY <1>2, <2>4, <3>2, AboutLink
  <2> QED BY <2>3, <2>4
<1> QED BY <1>1, <1>2

LEMMA PruneSinkFollows ==
  ASSUME TypeOK, Follows, flawed' = {}, PruneSink
  PROVE  FollowsIn(client', sink', toClient')
<1>1. Head(sink.prunes) \in SUBSET Nodes /\ sink.state \in GoodStates /\ sink \in SinkStates
  BY SinkParts DEF PruneSink, TypeOK
<1>2. PICK S \in SUBSET Nodes : S = Head(sink.prunes) \cap UnreachableNodes(sink.state, Sink)
  BY <1>1
<1>3. PICK new \in GoodStates : new = RemoveNodes(sink.state, S).state
  BY <1>1, RemoveNodesGood, ReportParts
<1>4. PICK old \in GoodStates : old = sink.state
  BY <1>1
<1>5. Gone(new, old, S) /\ Sink \notin S
  BY <1>2, <1>3, <1>4, RemoveNodesGone, SinkNotPruned
<1>6. Pruned(sink.state, Head(sink.prunes)) = new
  BY <1>2, <1>3, Zenon DEF Pruned
<1>7. /\ sink'.state = new /\ sink'.buffer = sink.buffer /\ sink'.jobs = sink.jobs
      /\ sink'.subscribed = sink.subscribed /\ client' = client /\ toClient' = toClient
  BY <1>1, <1>6 DEF PruneSink, SinkStates
<1>8. ~Torn(old, new)
  BY <1>4, <1>6 DEF PruneSink
<1>9. Cared(new) \subseteq Cared(old) /\ \A n \in Cared(new) : n \in Nodes /\ n \notin S
  <2>1. DOMAIN new.nodes \subseteq Nodes
    BY StateParts
  <2> QED BY <1>5, <2>1, ObserverAssumption DEF Gone, Cared
<1>10. ASSUME NEW n \in Cared(new), NEW m \in Nodes
       PROVE  About(new, n, m) = About(old, n, m)
  <2>1. ASSUME m \in S, About(old, n, m) # {}
        PROVE  FALSE
    <3>1. n # m
      BY <1>9, <2>1
    <3>2. PICK link \in DOMAIN old.strong : link = <<n, m>> \/ link = <<m, n>>
      BY <2>1, <3>1 DEF About
    <3>3. n \in DOMAIN old.nodes /\ m \in DOMAIN old.nodes
      BY <3>2, StateParts DEF Mutual
    <3>4. n \in DOMAIN new.nodes /\ m \notin DOMAIN new.nodes
      BY <1>5, <1>9, <2>1, <3>3 DEF Gone
    <3>5. link[1] \in DOMAIN new.nodes <=> link[2] \in DOMAIN new.nodes
      BY <1>8, <3>2 DEF Torn
    <3> QED BY <3>2, <3>4, <3>5
  <2> QED BY <1>5, <1>9, <2>1, AboutKept
<1>11. PICK c, s, t, q : c = client /\ s = sink /\ t = sink' /\ q = toClient
  OBVIOUS
<1>12. FollowsIn(c, s, q) /\ t.buffer = s.buffer /\ t.jobs = s.jobs /\ (t.subscribed => s.subscribed)
  BY <1>7, <1>11 DEF Follows
<1>13. t.state = new /\ s.state = old
  BY <1>4, <1>7, <1>11
<1>14. FollowsIn(c, t, q)
  BY <1>9, <1>10, <1>12, <1>13, FollowsSame
<1> QED BY <1>7, <1>11, <1>14

LEMMA SubscriptionFollows ==
  ASSUME TypeOK, Follows, ReceiveNetworkSubscription
  PROVE  FollowsIn(client', sink', toClient')
<1>1. sink \in SinkStates
  BY DEF TypeOK
<1>2. PICK dump : dump = DumpAsUpdates(sink.state)
  OBVIOUS
<1>3. PICK jobs : jobs = IF dump = <<>> THEN sink.jobs ELSE Append(sink.jobs, dump)
  OBVIOUS
<1>4. sink' = [sink EXCEPT !.subscribed = TRUE, !.jobs = jobs]
  BY <1>2, <1>3, Zenon DEF ReceiveNetworkSubscription
<1>5. client.launched /\ client' = client /\ toClient' = toClient
  BY DEF ReceiveNetworkSubscription
<1>6. PICK s \in SinkStates : s = sink
  BY <1>1
<1>7. PICK c, t, q : c = client /\ t = sink' /\ q = toClient
  OBVIOUS
<1>8. t.state = s.state /\ t.buffer = s.buffer /\ t.subscribed /\ t.jobs = jobs
  BY <1>4, <1>6, <1>7 DEF SinkStates
<1>9. FollowsIn(c, s, q) /\ c.launched
  BY <1>5, <1>6, <1>7 DEF Follows
<1>10. FollowsIn(c, t, q)
  BY <1>2, <1>3, <1>6, <1>8, <1>9, FollowsDump
<1> QED BY <1>5, <1>7, <1>10

LEMMA ExpireClientFollows ==
  ASSUME TypeOK, Follows, ExpireClient
  PROVE  FollowsIn(client', sink', toClient')
<1>1. sink \in SinkStates /\ sink' = [sink EXCEPT !.subscribed = FALSE]
      /\ client' = client /\ toClient' = toClient
  BY DEF TypeOK, ExpireClient
<1>2. PICK c, s, t, q : c = client /\ s = sink /\ t = sink' /\ q = toClient
  OBVIOUS
<1>3. t.state = s.state /\ t.buffer = s.buffer /\ t.jobs = s.jobs /\ ~t.subscribed
  BY <1>1, <1>2 DEF SinkStates
<1>4. FollowsIn(c, s, q)
  BY <1>2 DEF Follows
<1>5. FollowsIn(c, t, q)
  BY <1>3, <1>4, FollowsSame
<1> QED BY <1>1, <1>2, <1>5

LEMMA NotifyClientFollows ==
  ASSUME TypeOK, Follows, flawed' = {}, NotifyClient
  PROVE  FollowsIn(client', sink', toClient')
<1>1. sink \in SinkStates /\ sink.subscribed /\ client' = client /\ toClient' = toClient
  BY DEF TypeOK, NotifyClient
<1>2. sink' = [sink EXCEPT !.timer = FALSE, !.buffer = <<>>, !.jobs = Append(@, sink.buffer)]
  BY <1>1 DEF NotifyClient
<1>3. PICK s \in SinkStates : s = sink
  BY <1>1
<1>4. PICK c, t, q : c = client /\ t = sink' /\ q = toClient
  OBVIOUS
<1>5. t.state = s.state /\ t.buffer = <<>> /\ t.subscribed = s.subscribed /\ t.jobs = Append(s.jobs, s.buffer)
  BY <1>2, <1>3, <1>4 DEF SinkStates
<1>6. FollowsIn(c, s, q) /\ s.subscribed
  BY <1>1, <1>3, <1>4 DEF Follows
<1>7. FollowsIn(c, t, q)
  BY <1>3, <1>5, <1>6, FollowsNotify
<1> QED BY <1>1, <1>4, <1>7

(* What is sent of a notification and what is left of it.                   *)
LEMMA Split ==
  ASSUME NEW S, NEW s \in Seq(S)
  PROVE  LET first == SubSeq(s, 1, IF Len(s) < FrameSize THEN Len(s) ELSE FrameSize)
             rest == SubSeq(s, FrameSize + 1, Len(s))
         IN  first \in Seq(S) /\ rest \in Seq(S) /\ s = first \o rest
<1>1. PICK N \in Nat, k \in Nat : N = Len(s) /\ k = FrameSize /\ k > 0
  BY ObserverAssumption
<1>2. PICK l \in 0..N : l = IF N < k THEN N ELSE k
  BY <1>1
<1>3. PICK first \in Seq(S) : /\ first = SubSeq(s, 1, l) /\ Len(first) = l
                              /\ \A i \in 1..l : first[i] = s[i]
  <2>1. \A i \in 1..l : s[i] \in S
    BY <1>1
  <2>2. SubSeq(s, 1, l) \in Seq(S) /\ Len(SubSeq(s, 1, l)) = l /\ \A i \in 1..l : SubSeq(s, 1, l)[i] = s[i]
    BY <2>1, SubSeqProperties
  <2> QED BY <2>2
<1>4. PICK rest \in Seq(S) : /\ rest = SubSeq(s, k + 1, N) /\ Len(rest) = N - l
                             /\ \A i \in 1..(N - l) : rest[i] = s[k + i]
  <2>1. k + 1 \in Int /\ N \in Int /\ \A i \in (k + 1)..N : s[i] \in S
    BY <1>1
  <2>2. PICK r : r = SubSeq(s, k + 1, N)
    OBVIOUS
  <2>3. /\ r \in Seq(S) /\ Len(r) = (IF k + 1 <= N THEN N - (k + 1) + 1 ELSE 0)
        /\ \A i \in 1..(N - (k + 1) + 1) : r[i] = s[(k + 1) + i - 1]
    BY <2>1, <2>2, SubSeqProperties
  <2>4. Len(r) = N - l
    BY <1>2, <2>3
  <2>5. ASSUME NEW i \in 1..(N - l)
        PROVE  r[i] = s[k + i]
    <3>1. i \in 1..(N - (k + 1) + 1) /\ (k + 1) + i - 1 = k + i
      BY <1>2
    <3> QED BY <2>3, <3>1
  <2> QED BY <2>2, <2>3, <2>4, <2>5
<1>5. PICK whole \in Seq(S) : whole = first \o rest /\ Len(whole) = N
                              /\ \A i \in 1..N : whole[i] = IF i <= l THEN first[i] ELSE rest[i - l]
  <2>1. PICK w : w = first \o rest
    OBVIOUS
  <2>2. /\ w \in Seq(S) /\ Len(w) = Len(first) + Len(rest)
        /\ \A i \in 1..(Len(first) + Len(rest)) : w[i] = IF i <= Len(first) THEN first[i] ELSE rest[i - Len(first)]
    BY <2>1, ConcatProperties
  <2>3. Len(first) = l /\ Len(first) + Len(rest) = N
    <3>1. Len(first) = l /\ Len(rest) = N - l
      BY <1>3, <1>4
    <3>2. l + (N - l) = N
      OBVIOUS
    <3> QED BY <3>1, <3>2
  <2>4. Len(w) = N
    BY <2>2, <2>3
  <2>5. \A i \in 1..N : w[i] = IF i <= l THEN first[i] ELSE rest[i - l]
    BY <2>2, <2>3
  <2>6. w \in Seq(S)
    BY <2>2
  <2> QED BY <2>1, <2>4, <2>5, <2>6
<1>6. ASSUME NEW i \in 1..N
      PROVE  whole[i] = s[i]
  <2>1. CASE i <= l
    BY <1>3, <1>5, <2>1
  <2>2. CASE i > l
    <3>1. i - l \in 1..(N - l) /\ k + (i - l) = i
      BY <1>2, <2>2
    <3>2. rest[i - l] = s[k + (i - l)]
      BY <1>4, <3>1
    <3>3. whole[i] = rest[i - l]
      BY <1>5, <2>2
    <3> QED BY <3>1, <3>2, <3>3
  <2> QED BY <2>1, <2>2
<1>7. whole = s
  BY <1>1, <1>5, <1>6, SeqEqual
<1> QED BY <1>1, <1>2, <1>3, <1>4, <1>5, <1>7

LEMMA WithoutFirst ==
  ASSUME NEW S, NEW s \in Seq(S), s # <<>>
  PROVE  RemoveAt(s, 1) = Tail(s)
<1>1. PICK N \in Nat : N = Len(s) /\ N > 0
  OBVIOUS
<1>2. RemoveAt(s, 1) = SubSeq(s, 1, 0) \o SubSeq(s, 2, N)
  BY <1>1 DEF RemoveAt
<1>3. SubSeq(s, 1, 0) = <<>>
  BY SubSeqEmpty
<1>4. PICK a \in Seq(S) : a = SubSeq(s, 2, N) /\ Len(a) = N - 1 /\ \A i \in 1..(N - 1) : a[i] = s[i + 1]
  <2>1. \A i \in 2..N : s[i] \in S
    BY <1>1
  <2>2. PICK r : r = SubSeq(s, 2, N)
    OBVIOUS
  <2>3. r \in Seq(S) /\ Len(r) = (IF 2 <= N THEN N - 2 + 1 ELSE 0) /\ \A i \in 1..(N - 2 + 1) : r[i] = s[2 + i - 1]
    BY <2>1, <2>2, SubSeqProperties
  <2>4. Len(r) = N - 1 /\ \A i \in 1..(N - 1) : i \in 1..(N - 2 + 1) /\ 2 + i - 1 = i + 1
    BY <1>1, <2>3
  <2> QED BY <2>2, <2>3, <2>4
<1>5. PICK b \in Seq(S) : b = Tail(s) /\ Len(b) = N - 1 /\ \A i \in 1..(N - 1) : b[i] = s[i + 1]
  <2>1. Tail(s) \in Seq(S) /\ Len(Tail(s)) = N - 1 /\ \A i \in 1..(N - 1) : Tail(s)[i] = s[i + 1]
    BY <1>1
  <2> QED BY <2>1
<1>6. a = b
  BY <1>4, <1>5, SeqEqual
<1>7. <<>> \o a = a
  BY ConcatEmptySeq
<1> QED BY <1>2, <1>3, <1>4, <1>5, <1>6, <1>7

LEMMA SendFrameFollows ==
  ASSUME TypeOK, Follows, flawed' = {}, NEW i \in DOMAIN sink.jobs, SendFrame(i)
  PROVE  FollowsIn(client', sink', toClient')
<1>1. sink \in SinkStates /\ toClient \in Seq(Seq(Entries)) /\ sink.jobs \in Seq(Seq(Entries))
  BY SinkParts DEF TypeOK
<1>2. i = 1 /\ sink.jobs # <<>>
  <2>1. ~(i > 1)
    BY DEF SendFrame
  <2>2. i \in 1..Len(sink.jobs)
    BY <1>1
  <2> QED BY <2>1, <2>2
<1>3. PICK s \in SinkStates, q \in Seq(Seq(Updates)) : s = sink /\ q = toClient
  <2>1. PICK A, B : A = Seq(Entries) /\ B = Seq(Updates)
    OBVIOUS
  <2>2. A \subseteq B
    BY <2>1, EntriesAreUpdates
  <2>3. toClient \in Seq(B)
    BY <1>1, <2>1, <2>2, SeqSubset
  <2> QED BY <1>1, <2>1, <2>3
<1>4. PICK job \in Seq(Updates) : job = s.jobs[1]
  <2>1. PICK A, jobs : A = Seq(Updates) /\ jobs = s.jobs
    OBVIOUS
  <2>2. jobs \in Seq(A)
    BY <2>1, SinkStateParts
  <2>3. 1 \in 1..Len(jobs)
    BY <1>2, <1>3, <2>1, <2>2
  <2>4. jobs[1] \in A
    BY <2>2, <2>3, ElementOfSeq
  <2> QED BY <2>1, <2>4
<1>5. PICK first \in Seq(Updates), rest \in Seq(Updates) :
        /\ first = SubSeq(job, 1, IF Len(job) < FrameSize THEN Len(job) ELSE FrameSize)
        /\ rest = SubSeq(job, FrameSize + 1, Len(job)) /\ job = first \o rest
  <2>1. PICK a, b : /\ a = SubSeq(job, 1, IF Len(job) < FrameSize THEN Len(job) ELSE FrameSize)
                    /\ b = SubSeq(job, FrameSize + 1, Len(job))
    OBVIOUS
  <2>2. a \in Seq(Updates) /\ b \in Seq(Updates) /\ job = a \o b
    BY <2>1, Split
  <2> QED BY <2>1, <2>2
<1>6. RemoveAt(s.jobs, 1) = Tail(s.jobs)
  BY <1>2, <1>3, SinkStateParts, WithoutFirst
<1>7. PICK jobs : jobs = IF rest = <<>> THEN Tail(s.jobs) ELSE [s.jobs EXCEPT ![1] = rest]
  OBVIOUS
<1>8. sink' = [sink EXCEPT !.jobs = jobs] /\ toClient' = Append(toClient, first) /\ client' = client
  BY <1>2, <1>3, <1>4, <1>5, <1>6, <1>7, Zenon DEF SendFrame
<1>9. PICK c, t : c = client /\ t = sink'
  OBVIOUS
<1>10. t.state = s.state /\ t.buffer = s.buffer /\ t.subscribed = s.subscribed /\ t.jobs = jobs
  BY <1>3, <1>8, <1>9 DEF SinkStates
<1>11. FollowsIn(c, s, q) /\ s.jobs # <<>> /\ s.jobs[1] = first \o rest
  BY <1>2, <1>3, <1>4, <1>5, <1>9 DEF Follows
<1>12. FollowsIn(c, t, Append(q, first))
  BY <1>7, <1>10, <1>11, FollowsSend
<1> QED BY <1>3, <1>8, <1>9, <1>12

LEMMA NotificationFollows ==
  ASSUME TypeOK, Follows, ReceiveNetworkNotification
  PROVE  FollowsIn(client', sink', toClient')
<1>1. /\ client \in ClientStates /\ sink \in SinkStates
      /\ toClient \in Seq(Seq(Entries)) /\ toClient # <<>> /\ sink' = sink /\ toClient' = Tail(toClient)
  BY DEF TypeOK, ReceiveNetworkNotification
<1>2. PICK entries \in Seq(Entries) : entries = Head(toClient) /\ entries = toClient[1]
  BY <1>1
<1>3. PICK updates \in Seq(TopologyEntries) : updates = TopologyUpdates(entries)
  BY TopologyUpdatesType
<1>4. PICK copy : copy = ApplyUpdates(client.state, updates).state
  OBVIOUS
<1>5. PICK prunes : prunes = PruneLater(client.prunes, copy)
  OBVIOUS
<1>6. client' = [client EXCEPT !.heard = TRUE, !.state = copy, !.prunes = prunes]
  BY <1>2, <1>3, <1>4, <1>5, Zenon DEF ReceiveNetworkNotification
<1>7. Done(copy, client.state, updates)
  BY <1>4, SinkParts, ApplyUpdatesDo
<1>8. \A n, m, v : Value(v, updates, n, m) = Value(v, entries, n, m)
  BY <1>3, TopologyUpdatesSay
<1>9. PICK q \in Seq(Seq(Updates)) : q = toClient
  <2>1. PICK A, B : A = Seq(Entries) /\ B = Seq(Updates)
    OBVIOUS
  <2>2. A \subseteq B
    BY <2>1, EntriesAreUpdates
  <2>3. toClient \in Seq(B)
    BY <1>1, <2>1, <2>2, SeqSubset
  <2> QED BY <2>1, <2>3
<1>10. PICK c, d, s : c = client /\ d = client' /\ s = sink
  OBVIOUS
<1>11. d.heard /\ d.launched = c.launched /\ d.state = copy
  BY <1>1, <1>6, <1>10 DEF ClientStates
<1>12. \A n, m \in Nodes : About(d.state, n, m) = Value(About(c.state, n, m), q[1], n, m)
  BY <1>2, <1>7, <1>8, <1>9, <1>10, <1>11 DEF Done
<1>13. FollowsIn(c, s, q) /\ q # <<>> /\ Cared(s.state) \subseteq Nodes
  BY <1>1, <1>9, <1>10, SinkStateParts DEF Follows
<1>14. FollowsIn(d, s, Tail(q))
  BY <1>11, <1>12, <1>13, FollowsHeard
<1> QED BY <1>1, <1>9, <1>10, <1>14

LEMMA NoneRemoved ==
  ASSUME NEW state \in GoodStates
  PROVE  RemoveNodes(state, {}).state = state
<1>1. PICK f \in [SUBSET {} -> Reports] : RemovesInto(f, state, {})
  BY RemoveNodesFold
<1> QED BY <1>1 DEF RemovesInto, Start, Result

LEMMA PruneCopyFollows ==
  ASSUME TypeOK, Follows, flawed' = {}, PruneCopy
  PROVE  FollowsIn(client', sink', toClient')
<1>1. /\ Head(client.prunes) \in SUBSET Nodes /\ client.state \in GoodStates /\ client \in ClientStates
      /\ sink \in SinkStates
  BY SinkParts DEF PruneCopy, TypeOK
<1>2. PICK S \in SUBSET Nodes : S = Head(client.prunes) \cap UnreachableNodes(client.state, Sink)
  BY <1>1
<1>3. PICK new \in GoodStates : new = RemoveNodes(client.state, S).state
  BY <1>1, RemoveNodesGood, ReportParts
<1>4. PICK old \in GoodStates : old = client.state
  BY <1>1
<1>5. Gone(new, old, S) /\ S \subseteq DOMAIN old.nodes \ {Sink}
  BY <1>2, <1>3, <1>4, RemoveNodesGone, SinkNotPruned
<1>6. Pruned(client.state, Head(client.prunes)) = new
  BY <1>2, <1>3, Zenon DEF Pruned
<1>7. /\ client'.state = new /\ client'.heard = client.heard /\ client'.launched = client.launched
      /\ sink' = sink /\ toClient' = toClient
  BY <1>1, <1>6 DEF PruneCopy, ClientStates
<1>8. PICK c, d, s, q : c = client /\ d = client' /\ s = sink /\ q = toClient
  OBVIOUS
<1>9. /\ FollowsIn(c, s, q) /\ d.heard = c.heard /\ d.launched = c.launched
      /\ d.state = new /\ c.state = old /\ Cared(s.state) \subseteq Nodes
  BY <1>1, <1>4, <1>7, <1>8, SinkStateParts DEF Follows
<1>10. CASE S = {}
  <2>1. d.state = c.state
    BY <1>3, <1>4, <1>9, <1>10, NoneRemoved
  <2>2. FollowsIn(d, s, q)
    BY <1>9, <2>1, FollowsCopy
  <2> QED BY <1>7, <1>8, <2>2
<1>11. CASE S # {}
  <2>1. DOMAIN client.state.nodes \ DOMAIN new.nodes = S
    BY <1>4, <1>5 DEF Gone
  <2>2. S \cap DOMAIN sink.state.nodes = {} /\ ~NewsUnderWay
    BY <1>6, <1>11, <2>1 DEF PruneCopy
  <2>3. q = <<>> /\ s.jobs = <<>> /\ s.buffer = <<>>
    BY <1>8, <2>2 DEF NewsUnderWay
  <2>4. c.heard
    <3>1. c.state # NewNetworkState
      BY <1>5, <1>9, <1>11 DEF NewNetworkState
    <3> QED BY <1>9, <3>1 DEF FollowsIn
  <2>5. ASSUME NEW n \in Cared(s.state), NEW m \in Nodes
        PROVE  About(d.state, n, m) = About(c.state, n, m) \/ About(d.state, n, m) = About(s.state, n, m)
    <3>1. n \in Nodes /\ n \notin S
      BY <1>5, <1>8, <1>9, <2>2 DEF Cared
    <3>2. CASE m \notin S
      BY <1>5, <1>9, <3>1, <3>2, AboutKept
    <3>3. CASE m \in S
      <4>1. m \notin DOMAIN new.nodes /\ m \notin DOMAIN s.state.nodes
        BY <1>5, <1>8, <2>2, <3>3 DEF Gone
      <4>2. About(new, n, m) = {}
        BY <3>1, <4>1, AboutUnknown
      <4>3. About(s.state, n, m) = {}
        BY <1>1, <1>8, <3>1, <4>1, AboutUnknown, SinkStateParts
      <4> QED BY <1>9, <4>2, <4>3
    <3> QED BY <3>2, <3>3
  <2>6. FollowsIn(d, s, q)
    BY <1>9, <2>3, <2>4, <2>5, FollowsCopy
  <2> QED BY <1>7, <1>8, <2>6
<1> QED BY <1>10, <1>11

(* Nothing that was flawed is mended.                                       *)
FollowsUnlessFlawed == flawed = {} => Follows

LEMMA FlawedGrows == [Next]_vars => flawed \subseteq flawed'
<1>1. ASSUME NEW n \in Nodes, NEW m \in DOMAIN LinkCost[n], AddNeighbor(n, m) \/ RemoveNeighbor(n, m)
      PROVE  flawed' = flawed
  BY <1>1 DEF AddNeighbor, RemoveNeighbor, Notify
<1>2. ASSUME NEW n \in Nodes, NEW cost \in Costs, ChangeCost(n, cost) PROVE flawed' = flawed
  BY <1>2 DEF ChangeCost, Notify
<1>3. ASSUME NEW n \in Nodes,
             ReceiveFrame(n) \/ Subscribe(n) \/ ExpireSubscriber(n) \/ NotifySink(n) \/ Sync(n)
      PROVE  flawed' = flawed
  BY <1>3 DEF ReceiveFrame, Notify, Subscribe, ExpireSubscriber, NotifySink, Sync
<1>4. ASSUME NEW frame \in toSink, Lose(frame) \/ Receive(frame) PROVE flawed \subseteq flawed'
  BY <1>4 DEF Lose, Receive
<1>5. PruneSink \/ ReceiveNetworkSubscription \/ ExpireClient \/ NotifyClient => flawed \subseteq flawed'
  BY DEF PruneSink, ReceiveNetworkSubscription, ExpireClient, NotifyClient
<1>6. ASSUME NEW i \in DOMAIN sink.jobs, SendFrame(i) PROVE flawed \subseteq flawed'
  BY <1>6 DEF SendFrame
<1>7. ReceiveNetworkNotification \/ PruneCopy => flawed \subseteq flawed'
  BY DEF ReceiveNetworkNotification, PruneCopy
<1>8. UNCHANGED vars => flawed' = flawed
  BY DEF vars
<1> QED BY <1>1, <1>2, <1>3, <1>4, <1>5, <1>6, <1>7, <1>8 DEF Next

LEMMA NodeStepAside ==
  ASSUME NEW n \in Nodes,
         \/ \E m \in DOMAIN LinkCost[n] : AddNeighbor(n, m) \/ RemoveNeighbor(n, m)
         \/ \E cost \in Costs : ChangeCost(n, cost)
         \/ ReceiveFrame(n) \/ Subscribe(n) \/ ExpireSubscriber(n) \/ NotifySink(n) \/ Sync(n)
  PROVE  UNCHANGED <<sink, client, toClient>>
<1>1. ASSUME NEW m \in DOMAIN LinkCost[n], AddNeighbor(n, m) \/ RemoveNeighbor(n, m)
      PROVE  UNCHANGED <<sink, client, toClient>>
  BY <1>1 DEF AddNeighbor, RemoveNeighbor, Notify
<1>2. ASSUME NEW cost \in Costs, ChangeCost(n, cost) PROVE UNCHANGED <<sink, client, toClient>>
  BY <1>2 DEF ChangeCost, Notify
<1>3. CASE ReceiveFrame(n) \/ Subscribe(n) \/ ExpireSubscriber(n) \/ NotifySink(n) \/ Sync(n)
  BY <1>3 DEF ReceiveFrame, Notify, Subscribe, ExpireSubscriber, NotifySink, Sync
<1> QED BY <1>1, <1>2, <1>3

LEMMA NextFollows == TypeOK /\ FollowsUnlessFlawed /\ [Next]_vars => FollowsUnlessFlawed'
<1> SUFFICES ASSUME TypeOK, FollowsUnlessFlawed, [Next]_vars PROVE FollowsUnlessFlawed'
  OBVIOUS
<1>1. ASSUME flawed' = {}
      PROVE  FollowsIn(client', sink', toClient')
  <2>1. Follows
    <3>1. flawed = {}
      BY <1>1, FlawedGrows
    <3> QED BY <3>1 DEF FollowsUnlessFlawed
  <2>2. CASE UNCHANGED <<sink, client, toClient>>
    BY <2>1, <2>2 DEF Follows
  <2>3. ASSUME NEW n \in Nodes,
               \/ \E m \in DOMAIN LinkCost[n] : AddNeighbor(n, m) \/ RemoveNeighbor(n, m)
               \/ \E cost \in Costs : ChangeCost(n, cost)
               \/ ReceiveFrame(n) \/ Subscribe(n) \/ ExpireSubscriber(n) \/ NotifySink(n) \/ Sync(n)
        PROVE  UNCHANGED <<sink, client, toClient>>
    BY <2>3, NodeStepAside
  <2>4. ASSUME NEW frame \in toSink, Lose(frame) PROVE UNCHANGED <<sink, client, toClient>>
    BY <2>4 DEF Lose
  <2>5. ASSUME NEW frame \in toSink, Receive(frame) PROVE FollowsIn(client', sink', toClient')
    BY <1>1, <2>1, <2>5, ReceiveFollows
  <2>6. CASE PruneSink \/ ReceiveNetworkSubscription \/ ExpireClient \/ NotifyClient
    BY <1>1, <2>1, <2>6, PruneSinkFollows, SubscriptionFollows, ExpireClientFollows, NotifyClientFollows
  <2>7. ASSUME NEW i \in DOMAIN sink.jobs, SendFrame(i) PROVE FollowsIn(client', sink', toClient')
    BY <1>1, <2>1, <2>7, SendFrameFollows
  <2>8. CASE ReceiveNetworkNotification \/ PruneCopy
    BY <1>1, <2>1, <2>8, NotificationFollows, PruneCopyFollows
  <2>9. CASE UNCHANGED vars
    BY <2>2, <2>9 DEF vars
  <2> QED BY <2>2, <2>3, <2>4, <2>5, <2>6, <2>7, <2>8, <2>9, Zenon DEF Next
<1> QED BY <1>1, Zenon DEF FollowsUnlessFlawed, Follows, FollowsIn, Cared, Telling, ComesTo, Leads, LeadsOn,
          About, Value, Fixing, Creating, Fixes, Fixed, Creates, NewNetworkState

(* In every network, however lossy and slow the way from the nodes to the   *)
(* sink, and however what the sink tells its client is put together, split  *)
(* into frames and mixed with dumps: unless a subscription ran out, two     *)
(* notifications took turns or a node was removed by one side alone, the    *)
(* copy of the client, with what is on its way to it, comes to what the sink*)
(* knows; so that the two agree when nothing is on its way.                 *)
THEOREM CopyFollowsSink == Spec => []CopyAgrees
<1>1. Init => FollowsUnlessFlawed
  BY InitFollows DEF FollowsUnlessFlawed, Follows
<1>2. TypeOK /\ FollowsUnlessFlawed => CopyAgrees
  BY FollowsAgree DEF FollowsUnlessFlawed
<1> QED BY <1>1, <1>2, InitTypeOK, NextTypeOK, NextFollows, PTL DEF Spec

-----------------------------------------------------------------------------
(* Subscriptions and the throttle of a node: what a node keeps.             *)
Fields == {"table", "cost", "subscribed", "task", "timer", "buffer"}
IsNode(state) ==
  /\ state = [f \in Fields |-> state[f]]
  /\ state.subscribed \in BOOLEAN
  /\ state.timer \in BOOLEAN

AttentiveNode(state) ==
  /\ IsNode(state)
  /\ state.subscribed = TRUE =>
       Listening(state) /\ (state.buffer # <<>> => state.timer = TRUE)

(* The strengthening: every node has the fields the handlers write.         *)
Attentive ==
  /\ node = [n \in Nodes |-> node[n]]
  /\ \A n \in Nodes : AttentiveNode(node[n])

LEMMA InitAttentive == Init => Attentive
<1> SUFFICES ASSUME Init PROVE Attentive
  OBVIOUS
<1>1. PICK launched \in BOOLEAN :
        node = [n \in Nodes |-> IF launched THEN SettledNode(n) ELSE FreshNode(n)]
  BY Zenon DEF Init
<1>2. \A n \in Nodes : AttentiveNode(SettledNode(n)) /\ AttentiveNode(FreshNode(n))
  BY DEF AttentiveNode, IsNode, Fields, Listening, SettledNode, FreshNode
<1>3. \A n \in Nodes : node[n] = SettledNode(n) \/ node[n] = FreshNode(n)
  BY <1>1
<1> QED
  BY <1>1, <1>2, <1>3, Zenon DEF Attentive

(* A step that replaces what one node keeps.                                *)
LEMMA Replaced ==
  ASSUME Attentive, NEW n \in Nodes, NEW state, AttentiveNode(state),
         node' = [node EXCEPT ![n] = state]
  PROVE  Attentive'
<1>1. node' = [m \in Nodes |-> IF m = n THEN state ELSE node[m]]
  BY DEF Attentive
<1>2. \A m \in Nodes : node'[m] = state \/ node'[m] = node[m]
  BY <1>1
<1>3. \A m \in Nodes : AttentiveNode(node'[m])
  BY <1>2, Zenon DEF Attentive
<1> QED
  BY <1>1, <1>3, Zenon DEF Attentive, AttentiveNode, IsNode, Listening

LEMMA EmittedIsAttentive ==
  ASSUME NEW state, AttentiveNode(state), NEW notification
  PROVE  AttentiveNode(Emitted(state, notification))
BY DEF AttentiveNode, IsNode, Fields, Listening, Emitted

LEMMA NotifyIsAttentive ==
  ASSUME Attentive, NEW n \in Nodes, NEW state, AttentiveNode(state), NEW notification,
         Notify(n, state, notification)
  PROVE  Attentive'
<1>1. AttentiveNode(Emitted(state, notification))
  BY EmittedIsAttentive
<1>2. node' = [node EXCEPT ![n] = Emitted(state, notification)]
  BY DEF Notify
<1> QED
  BY <1>1, <1>2, Replaced

LEMMA NextAttentive == Attentive /\ [Next]_vars => Attentive'
<1> SUFFICES ASSUME Attentive, [Next]_vars PROVE Attentive'
  OBVIOUS
<1>0. \A n \in Nodes : AttentiveNode(node[n])
  BY DEF Attentive
<1>1. ASSUME NEW n \in Nodes, NEW m \in DOMAIN LinkCost[n], AddNeighbor(n, m) PROVE Attentive'
  <2>1. AttentiveNode([node[n] EXCEPT !.table = @ \cup {m}])
    BY <1>0 DEF AttentiveNode, IsNode, Fields, Listening
  <2> QED
    BY <1>1, <2>1, NotifyIsAttentive DEF AddNeighbor
<1>2. ASSUME NEW n \in Nodes, NEW m \in DOMAIN LinkCost[n], RemoveNeighbor(n, m) PROVE Attentive'
  <2>1. AttentiveNode([node[n] EXCEPT !.table = @ \ {m}])
    BY <1>0 DEF AttentiveNode, IsNode, Fields, Listening
  <2> QED
    BY <1>2, <2>1, NotifyIsAttentive DEF RemoveNeighbor
<1>3. ASSUME NEW n \in Nodes, NEW cost \in Costs, ChangeCost(n, cost) PROVE Attentive'
  <2>1. AttentiveNode([node[n] EXCEPT !.cost = cost])
    BY <1>0 DEF AttentiveNode, IsNode, Fields, Listening
  <2> QED
    BY <1>3, <2>1, NotifyIsAttentive DEF ChangeCost
<1>4. ASSUME NEW n \in Nodes, ReceiveFrame(n) PROVE Attentive'
  BY <1>0, <1>4, NotifyIsAttentive DEF ReceiveFrame
<1>5. ASSUME NEW n \in Nodes, Subscribe(n) PROVE Attentive'
  <2>1. AttentiveNode(Subscribed(node[n]))
    BY <1>0 DEF AttentiveNode, IsNode, Fields, Listening, Subscribed
  <2>2. node' = [node EXCEPT ![n] = Subscribed(node[n])]
    BY <1>5 DEF Subscribe
  <2> QED
    BY <2>1, <2>2, Replaced
<1>6. ASSUME NEW n \in Nodes, ExpireSubscriber(n) PROVE Attentive'
  <2> DEFINE state == [node[n] EXCEPT !.subscribed = FALSE,
                                      !.task = IF @ = "current" THEN "waiting" ELSE @]
  <2>1. AttentiveNode(state)
    BY <1>0 DEF AttentiveNode, IsNode, Fields, Listening
  <2>2. node' = [node EXCEPT ![n] = state]
    BY <1>0, <1>6 DEF ExpireSubscriber, Attentive, AttentiveNode, IsNode, Fields
  <2> QED
    BY <2>1, <2>2, Replaced
<1>7. ASSUME NEW n \in Nodes, NotifySink(n) PROVE Attentive'
  <2> DEFINE state == [node[n] EXCEPT !.timer = FALSE, !.buffer = <<>>]
  <2>1. AttentiveNode(state)
    BY <1>0 DEF AttentiveNode, IsNode, Fields, Listening
  <2>2. node' = [node EXCEPT ![n] = state]
    BY <1>0, <1>7 DEF NotifySink, Attentive, AttentiveNode, IsNode, Fields
  <2> QED
    BY <2>1, <2>2, Replaced
<1>8. node' = node => Attentive'
  BY Zenon DEF Attentive, AttentiveNode, IsNode, Listening
<1>9. CASE \E n \in Nodes : Sync(n)
  BY <1>8, <1>9 DEF Sync
<1>10. CASE \E frame \in toSink : Lose(frame) \/ Receive(frame)
  BY <1>8, <1>10, Zenon DEF Lose, Receive
<1>11. CASE PruneSink \/ ReceiveNetworkSubscription \/ ExpireClient \/ NotifyClient
            \/ (\E i \in DOMAIN sink.jobs : SendFrame(i))
            \/ ReceiveNetworkNotification \/ PruneCopy
  BY <1>8, <1>11, Zenon DEF PruneSink, ReceiveNetworkSubscription, ExpireClient, NotifyClient,
                            SendFrame, ReceiveNetworkNotification, PruneCopy
<1>12. CASE UNCHANGED vars
  BY <1>8, <1>12 DEF vars
<1> QED
  BY <1>1, <1>2, <1>3, <1>4, <1>5, <1>6, <1>7, <1>9, <1>10, <1>11, <1>12, Zenon DEF Next

(* In every network, however subscriptions come and run out: a node that has*)
(* a subscriber listens to its throttle, and a notification that waits has a*)
(* timer that sends it.                                                     *)
THEOREM NothingHeldBack == Spec => []NothingIsHeldBack
<1>1. Attentive => NothingIsHeldBack
  BY Zenon DEF Attentive, AttentiveNode, NothingIsHeldBack
<1> QED
  BY <1>1, InitAttentive, NextAttentive, PTL DEF Spec
=============================================================================
