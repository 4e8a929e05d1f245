---------------------------- MODULE NetworkState ----------------------------
(***************************************************************************)
(* NetworkState (net/node/networkState.ts): a network as a sink or a       *)
(* client of the observer knows it.  Each link is kept at both its ends,   *)
(* as a strong link at one and a weak link at the other.                   *)
(*                                                                         *)
(* An operation returns the new state and the updates it amounts to; what  *)
(* nodes are, and the order in which the code goes through its maps, is    *)
(* left open.                                                              *)
(***************************************************************************)
EXTENDS Integers, SequencesExt

CONSTANT None   \* a cost or a cluster that is not known

(* PartialNode.                                                             *)
PartialNode(id, cost, clusterId) == [id |-> id, cost |-> cost, clusterId |-> clusterId]
OnlyId(id) == PartialNode(id, None, None)

(* NetworkTopologyUpdate.                                                   *)
NodeUpdated(node) == [type |-> "NodeUpdated", node |-> node]
NodeRemoved(id) == [type |-> "NodeRemoved", id |-> id]
LinkUpdated(sourceId, destinationId, linkCost) ==
  [type |-> "LinkUpdated", source |-> sourceId, destination |-> destinationId, linkCost |-> linkCost]
LinkRemoved(sourceId, destinationId) ==
  [type |-> "LinkRemoved", source |-> sourceId, destination |-> destinationId]

(* Maps.                                                                    *)
Set(map, key, value) ==
  [k \in DOMAIN map \cup {key} |-> IF k = key THEN value ELSE map[k]]
Delete(map, key) == [k \in DOMAIN map \ {key} |-> map[k]]

(* nodes and priorities map ids, strong and weak map <<from, to>> to costs. *)
NewNetworkState ==
  [nodes |-> <<>>, strong |-> <<>>, weak |-> <<>>, priorities |-> <<>>, nextPriority |-> 0]

Result(state, updates) == [state |-> state, updates |-> updates]

-----------------------------------------------------------------------------
Known(new, old) == IF new = None THEN old ELSE new

(* NetworkNode.update.                                                      *)
Merged(old, new) == PartialNode(old.id, Known(new.cost, old.cost), Known(new.clusterId, old.clusterId))

GetOrUpdateNode(state, node) ==
  LET isNew == node.id \notin DOMAIN state.nodes
      merged == IF isNew THEN node ELSE Merged(state.nodes[node.id], node)
      updated == isNew \/ merged # state.nodes[node.id]
  IN  Result([state EXCEPT !.nodes = Set(@, node.id, merged)],
             IF updated THEN <<NodeUpdated(node)>> ELSE <<>>)

UpdateNode(state, node) == GetOrUpdateNode(state, node)

(* NodePriority: who is seen first is the stronger for good.                *)
GetOrInsert(state, id) ==
  IF id \in DOMAIN state.priorities THEN state
  ELSE [state EXCEPT !.priorities = Set(@, id, state.nextPriority), !.nextPriority = @ + 1]

Prioritized(state, id1, id2) == GetOrInsert(GetOrInsert(state, id1), id2)

Stronger(state, id1, id2) ==
  IF state.priorities[id1] < state.priorities[id2] THEN <<id1, id2>> ELSE <<id2, id1>>

Reversed(link) == <<link[2], link[1]>>

(* updateStrongLink and updateWeakLink, of the two ends.                    *)
UpdateBothEnds(state, sourceId, destinationId, linkCost) ==
  LET prioritized == Prioritized(state, sourceId, destinationId)
      link == Stronger(prioritized, sourceId, destinationId)
      updated == link \notin DOMAIN state.strong \/ state.strong[link] # linkCost
  IN  Result([prioritized EXCEPT !.strong = Set(@, link, linkCost),
                                 !.weak = Set(@, Reversed(link), linkCost)],
             IF updated THEN <<LinkUpdated(link[1], link[2], linkCost)>> ELSE <<>>)

UpdateLink(state, source, destination, linkCost) ==
  LET r1 == GetOrUpdateNode(state, source)
      r2 == GetOrUpdateNode(r1.state, destination)
      r3 == UpdateBothEnds(r2.state, source.id, destination.id, linkCost)
  IN  Result(r3.state, r1.updates \o r2.updates \o r3.updates)

(* NodeLinks.removeLink: a link that is strong and weak stays weak.         *)
HasLink(state, link) == link \in DOMAIN state.strong \/ link \in DOMAIN state.weak

RemoveOneEnd(state, link) ==
  IF link \in DOMAIN state.strong THEN [state EXCEPT !.strong = Delete(@, link)]
  ELSE [state EXCEPT !.weak = Delete(@, link)]

\* Mutant of RemoveLink: the other end keeps the link.
RemoveLinkAtSource(state, sourceId, destinationId) ==
  LET link == <<sourceId, destinationId>>
  IN  Result(RemoveOneEnd(state, link),
             IF HasLink(state, link) THEN <<LinkRemoved(sourceId, destinationId)>> ELSE <<>>)

RemoveLink(state, sourceId, destinationId) ==
  LET link == <<sourceId, destinationId>>
      other == RemoveOneEnd(state, Reversed(link))
  IN  IF {sourceId, destinationId} \subseteq DOMAIN state.nodes
      THEN Result(RemoveOneEnd(other, link),
                  IF HasLink(other, link) THEN <<LinkRemoved(sourceId, destinationId)>> ELSE <<>>)
      ELSE Result(state, <<>>)

-----------------------------------------------------------------------------
AllLinks(state, id) ==
  {link[2] : link \in {l \in DOMAIN state.strong \cup DOMAIN state.weak : l[1] = id}}

(* One operation after the other, for some order of the elements of a set.  *)
ForEach(S, state, Op(_, _)) ==
  FoldSet(LAMBDA x, result :
            LET next == Op(result.state, x) IN Result(next.state, result.updates \o next.updates),
          Result(state, <<>>), S)

RemoveLinks(state, id, neighbors) ==
  ForEach(neighbors, state, LAMBDA s, neighbor : RemoveLink(s, id, neighbor))

\* Mutant of SyncLink: links that the node no longer has stay.
SyncLinkAdding(state, sourceId, links) ==
  LET r1 == GetOrUpdateNode(state, OnlyId(sourceId))
      Sync(s, neighbor) == UpdateLink(s, OnlyId(sourceId), OnlyId(neighbor), links[neighbor])
      r2 == ForEach(DOMAIN links, r1.state, Sync)
  IN  Result(r2.state, r1.updates \o r2.updates)

(* links maps the neighbors to the costs of the links.                      *)
SyncLink(state, sourceId, links) ==
  LET r1 == GetOrUpdateNode(state, OnlyId(sourceId))
      Sync(s, neighbor) ==
        LET n1 == GetOrUpdateNode(s, OnlyId(neighbor))
            n2 == UpdateBothEnds(n1.state, sourceId, neighbor, links[neighbor])
        IN  Result(n2.state, n1.updates \o n2.updates)
      r2 == ForEach(DOMAIN links, r1.state, Sync)
      r3 == RemoveLinks(r2.state, sourceId, AllLinks(r2.state, sourceId) \ DOMAIN links)
  IN  Result(r3.state, r1.updates \o r2.updates \o r3.updates)

RemoveNode(state, id) ==
  LET r == RemoveLinks(state, id, AllLinks(state, id))
  IN  IF id \in DOMAIN state.nodes
      THEN Result([r.state EXCEPT !.nodes = Delete(@, id)], Append(r.updates, NodeRemoved(id)))
      ELSE Result(state, <<>>)

RemoveNodes(state, ids) == ForEach(ids, state, RemoveNode)

-----------------------------------------------------------------------------
(* What can be reached from a node, with as many rounds of the search as    *)
(* there are nodes.                                                         *)
Reachable(state, initialId) ==
  LET found[i \in 0..Cardinality(DOMAIN state.nodes)] ==
        IF i = 0 THEN {initialId}
        ELSE found[i - 1] \cup ((UNION {AllLinks(state, id) : id \in found[i - 1]}) \cap DOMAIN state.nodes)
  IN  found[Cardinality(DOMAIN state.nodes)]

UnreachableNodes(state, initialId) ==
  IF initialId \in DOMAIN state.nodes THEN DOMAIN state.nodes \ Reachable(state, initialId) ELSE {}

(* The elements of a set, in some order.                                    *)
Listed(S) == FoldSet(LAMBDA x, list : Append(list, x), <<>>, S)

DumpAsUpdates(state) ==
  Listed({NodeUpdated(state.nodes[id]) : id \in DOMAIN state.nodes}) \o
  Listed({LinkUpdated(link[1], link[2], state.strong[link]) : link \in DOMAIN state.strong})

(* Ends of updated links are partial nodes of which an update between nodes *)
(* carries the id alone.                                                    *)
ApplyUpdate(state, update) ==
  CASE update.type = "NodeUpdated" -> UpdateNode(state, update.node)
    [] update.type = "NodeRemoved" -> RemoveNode(state, update.id)
    [] update.type = "LinkUpdated" ->
         UpdateLink(state, OnlyId(update.source), OnlyId(update.destination), update.linkCost)
    [] update.type = "LinkRemoved" -> RemoveLink(state, update.source, update.destination)

ApplyUpdates(state, updates) ==
  FoldLeft(LAMBDA result, update :
             LET next == ApplyUpdate(result.state, update)
             IN  Result(next.state, result.updates \o next.updates),
           Result(state, <<>>), updates)

-----------------------------------------------------------------------------
(* Every link is strong at one end, and weak, at the same cost, at the      *)
(* other; and both ends are nodes that are known.  dumpAsUpdates() throws   *)
(* for a link to a node that is not.                                        *)
Mutual(state) ==
  /\ \A link \in DOMAIN state.strong :
       /\ Reversed(link) \in DOMAIN state.weak
       /\ state.weak[Reversed(link)] = state.strong[link]
       /\ link \notin DOMAIN state.weak
       /\ {link[1], link[2]} \subseteq DOMAIN state.nodes
  /\ \A link \in DOMAIN state.weak : Reversed(link) \in DOMAIN state.strong
=============================================================================
