------------------------------ MODULE Observer ------------------------------
(***************************************************************************)
(* The observer (net/observer): every node tells the sink of its neighbors *)
(* and its cost, when they change (NotifyTask) and now and then (SyncTask);*)
(* the sink keeps a NetworkState and tells its client of the changes; the  *)
(* client, here at the node of the sink, keeps a copy.                     *)
(*                                                                         *)
(* A handler runs up to its next wait in one step.  Frames of a node to the*)
(* sink may be lost and may overtake each other.  Clusters are left out.   *)
(***************************************************************************)
EXTENDS NetworkState, FiniteSets

CONSTANTS
  Nodes,
  Sink,          \* the node of the sink and of the client
  LinkCost,      \* for every node, the costs of the links it may have
  Costs,         \* costs of nodes
  FirstCost,     \* what every node costs at first
  FrameSize,     \* entries in a notification of the sink (the MTU)
  FreshLinks,    \* links of a network without client that nobody has told of
  SettledLinks,  \* links of a network with a client that the sink knows
  MaxChanges,    \* bound: changes of the network and lost frames
  MaxInFlight,   \* bound: frames on the way to the sink
  MaxPrunes,     \* bound: removals of unreachable nodes under way, at either side
  MaxJobs,       \* bound: notifications in the making at the sink
  MaxToClient    \* bound: notifications on the way to the client

ASSUME ObserverAssumption ==
  /\ Sink \in Nodes /\ FirstCost \in Costs /\ None \notin Costs
  /\ FrameSize \in Nat \ {0}
  /\ IsFiniteSet(Nodes)
  /\ \A n \in Nodes : DOMAIN LinkCost[n] \subseteq Nodes \ {n}
  /\ \A link \in FreshLinks \cup SettledLinks :
       /\ {link[1], link[2]} \subseteq Nodes
       /\ link[1] \in DOMAIN LinkCost[link[2]] /\ link[2] \in DOMAIN LinkCost[link[1]]

VARIABLES
  node,      \* [Nodes -> state of the node service and the tables it reads]
  toSink,    \* frames of nodes to the sink
  sink,      \* SinkService
  client,    \* ClientService
  toClient,  \* frames of the sink to the client, over loopback
  changes,   \* bounded by MaxChanges
  synced,    \* history: nodes of which the sink has taken, and kept, all that is so now
  flawed     \* history: in which ways the copy may have come apart from the sink

vars == <<node, toSink, sink, client, toClient, changes, synced, flawed>>

-----------------------------------------------------------------------------
(* LocalNotification and the entries of NodeNotificationFrame.              *)
SelfUpdated(cost) == [type |-> "SelfUpdated", cost |-> cost]
NeighborUpdated(m) == [type |-> "NeighborUpdated", neighbor |-> m]
NeighborRemoved(m) == [type |-> "NeighborRemoved", neighbor |-> m]
FrameReceived == [type |-> "FrameReceived"]

(* Nodes that a node reaches over links both ends of which know.            *)
Hears(n, m) == n \in node[m].table /\ m \in node[n].table
Connected(n) ==
  LET near[i \in 0..Cardinality(Nodes)] ==
        IF i = 0 THEN {Sink} ELSE near[i - 1] \cup {m \in Nodes : \E k \in near[i - 1] : Hears(k, m)}
  IN  n \in near[Cardinality(Nodes)]

Listening(state) == state.task # "waiting"

(* Throttle.emit.                                                           *)
Emitted(state, notification) ==
  [state EXCEPT !.buffer = Append(@, notification), !.timer = IF Listening(state) THEN TRUE ELSE @]

-----------------------------------------------------------------------------
(* The network changes: the neighbor table, the cost, a frame that comes to *)
(* the tunnel; each notifies the local node service.                        *)
Changes == changes < MaxChanges /\ changes' = changes + 1

Notify(n, state, notification) ==
  /\ Changes
  /\ node' = [node EXCEPT ![n] = Emitted(state, notification)]
  /\ synced' = {}
  /\ UNCHANGED <<toSink, sink, client, toClient, flawed>>

AddNeighbor(n, m) ==
  /\ m \notin node[n].table
  /\ Notify(n, [node[n] EXCEPT !.table = @ \cup {m}], NeighborUpdated(m))

RemoveNeighbor(n, m) ==
  /\ m \in node[n].table
  /\ Notify(n, [node[n] EXCEPT !.table = @ \ {m}], NeighborRemoved(m))

ChangeCost(n, cost) ==
  /\ cost # node[n].cost
  /\ Notify(n, [node[n] EXCEPT !.cost = cost], SelfUpdated(cost))

ReceiveFrame(n) == Notify(n, node[n], FrameReceived)

Lose(frame) ==
  /\ Changes
  /\ toSink' = toSink \ {frame}
  /\ UNCHANGED <<node, sink, client, toClient, synced, flawed>>

-----------------------------------------------------------------------------
(* NodeService.                                                             *)

\* Mutant of Subscribed: a listener that is added does not see to the buffer.
SubscribedWithoutTimer(state) ==
  [state EXCEPT !.subscribed = TRUE, !.task = IF @ = "waiting" THEN "current" ELSE "stale"]

(* SubscriberStore.subscribe, and what the notify task does about it: a task*)
(* that waits takes the new entry, a task that has an entry goes on waiting *)
(* for that one although it has been replaced ("stale").                    *)
Subscribed(state) ==
  [state EXCEPT
     !.subscribed = TRUE,
     !.task = IF @ = "waiting" THEN "current" ELSE "stale",
     !.timer = IF state.buffer # <<>> THEN TRUE ELSE @]

Subscribe(n) ==
  /\ Connected(n)
  /\ node' = [node EXCEPT ![n] = Subscribed(@)]
  /\ UNCHANGED <<toSink, sink, client, toClient, changes, synced, flawed>>

(* The timeout of a subscriber.                                             *)
ExpireSubscriber(n) ==
  /\ node[n].subscribed
  /\ Changes
  /\ node' = [node EXCEPT ![n].subscribed = FALSE,
                          ![n].task = IF @ = "current" THEN "waiting" ELSE @]
  /\ UNCHANGED <<toSink, sink, client, toClient, synced, flawed>>

(* RoutingSocket.send: without a route the frame is lost.                   *)
SendToSink(n, frame) ==
  IF Connected(n)
  THEN /\ Cardinality(toSink) < MaxInFlight
       /\ toSink' = toSink \cup {frame}
  ELSE UNCHANGED toSink

NotificationFrame(n, entries) == [type |-> "Notification", source |-> n, entries |-> entries]

SyncFrame(n) ==
  [type |-> "Sync", source |-> n, cost |-> node[n].cost, neighbors |-> node[n].table]

(* The timer of the throttle: without a listener the buffer is dropped.     *)
NotifySink(n) ==
  /\ node[n].timer
  /\ node' = [node EXCEPT ![n].timer = FALSE, ![n].buffer = <<>>]
  /\ IF Listening(node[n])
     THEN SendToSink(n, NotificationFrame(n, node[n].buffer))
     ELSE UNCHANGED toSink
  /\ UNCHANGED <<sink, client, toClient, changes, synced, flawed>>

(* Bound: where there is a client, a sync counts as one of the changes.     *)
Sync(n) ==
  /\ node[n].subscribed
  /\ Connected(n)
  /\ SendToSink(n, SyncFrame(n))
  /\ IF client.launched THEN Changes ELSE UNCHANGED changes
  /\ UNCHANGED <<node, sink, client, toClient, synced, flawed>>

-----------------------------------------------------------------------------
(* SinkService.                                                             *)

(* The entries of a list that are not of these types.                       *)
OtherThan(types, entries) ==
  FoldLeft(LAMBDA kept, entry : IF entry.type \in types THEN kept ELSE Append(kept, entry), <<>>, entries)

(* NetworkUpdate.intoNotificationEntry: removed nodes are not told of.      *)
\* Mutant of IntoNotificationEntries: neither are removed links.
IntoEntriesOfUpdates(updates) == OtherThan({"NodeRemoved", "LinkRemoved"}, updates)

IntoNotificationEntries(updates) == OtherThan({"NodeRemoved"}, updates)

OnNotificationEntry(state, source, entry) ==
  CASE entry.type = "NeighborUpdated" ->
         UpdateLink(state, OnlyId(source), OnlyId(entry.neighbor), LinkCost[source][entry.neighbor])
    [] entry.type = "NeighborRemoved" -> RemoveLink(state, source, entry.neighbor)
    [] entry.type = "SelfUpdated" -> UpdateNode(state, PartialNode(source, entry.cost, None))
    [] entry.type = "FrameReceived" -> Result(state, <<FrameReceived>>)

OnReceiveNodeNotificationFrame(state, frame) ==
  FoldLeft(LAMBDA result, entry :
             LET next == OnNotificationEntry(result.state, frame.source, entry)
             IN  Result(next.state, result.updates \o next.updates),
           Result(state, <<>>), frame.entries)

OnReceiveNodeSyncFrame(state, frame) ==
  LET r1 == UpdateNode(state, PartialNode(frame.source, frame.cost, None))
      r2 == SyncLink(r1.state, frame.source, [m \in frame.neighbors |-> LinkCost[frame.source][m]])
  IN  Result(r2.state, r1.updates \o r2.updates)

Taken(state, frame) ==
  IF frame.type = "Sync" THEN OnReceiveNodeSyncFrame(state, frame)
  ELSE OnReceiveNodeNotificationFrame(state, frame)

(* #removeUnreachableNodes: what is unreachable now is removed a second     *)
(* later if it is still unreachable then.  The delays are equal, so that    *)
(* they end in the order they begin.                                        *)
PruneLater(prunes, state) ==
  LET unreachable == UnreachableNodes(state, Sink)
  IN  IF unreachable = {} THEN prunes ELSE Append(prunes, unreachable)

Pruned(state, unreachable) ==
  RemoveNodes(state, unreachable \cap UnreachableNodes(state, Sink)).state

(* Without a client nobody will read what the sink has to tell.             *)
Told(buffer, entries) == IF client.launched THEN buffer \o entries ELSE buffer

NewsUnderWay == toClient # <<>> \/ sink.jobs # <<>> \/ sink.buffer # <<>>

(* The sink takes for new a node that the copy has, or is about to have,    *)
(* kept from before: then what was known of it stays in the copy alone.     *)
Recreated(old, new) ==
  LET created == DOMAIN new.nodes \ DOMAIN old.nodes
  IN  created \cap DOMAIN client.state.nodes # {} \/ (created # {} /\ NewsUnderWay)

Receive(frame) ==
  LET result == Taken(sink.state, frame)
      entries == IntoNotificationEntries(result.updates)
  IN  /\ Len(sink.prunes) < MaxPrunes
      /\ toSink' = toSink \ {frame}
      /\ sink' = [sink EXCEPT !.state = result.state,
                              !.buffer = Told(@, entries),
                              !.timer = @ \/ Told(<<>>, entries) # <<>>,
                              !.prunes = PruneLater(@, result.state)]
      /\ flawed' = flawed \cup (IF Recreated(sink.state, result.state) THEN {"raced"} ELSE {})
      /\ synced' = IF frame = SyncFrame(frame.source) THEN synced \cup {frame.source} ELSE {}
      /\ UNCHANGED <<node, client, toClient, changes>>

(* The sink removes a node and keeps one that it was linked to, which was   *)
(* not yet unreachable when the delay began: the copy is not told.          *)
Torn(old, new) ==
  \E link \in DOMAIN old.strong : ~(link[1] \in DOMAIN new.nodes <=> link[2] \in DOMAIN new.nodes)

PruneSink ==
  LET state == Pruned(sink.state, Head(sink.prunes)) IN
  /\ sink.prunes # <<>>
  /\ sink' = [sink EXCEPT !.state = state, !.prunes = Tail(@)]
  /\ synced' = synced \cap DOMAIN state.nodes
  /\ flawed' = flawed \cup (IF Torn(sink.state, state) THEN {"raced"} ELSE {})
  /\ UNCHANGED <<node, toSink, client, toClient, changes>>

(* The client asks for everything until it has heard something.             *)
ForceDump == ~client.heard

(* The client subscribes, and its frame comes over loopback: a subscriber   *)
(* that is new, or asks for it, is sent everything.  A renewal that changes *)
(* nothing is left out.                                                     *)
ReceiveNetworkSubscription ==
  LET entries == DumpAsUpdates(sink.state) IN
  /\ client.launched
  /\ ~sink.subscribed \/ ForceDump
  /\ Len(sink.jobs) < MaxJobs
  /\ sink' = [sink EXCEPT !.subscribed = TRUE,
                          !.jobs = IF entries = <<>> THEN @ ELSE Append(@, entries)]
  /\ UNCHANGED <<node, toSink, client, toClient, changes, synced, flawed>>

ExpireClient ==
  /\ sink.subscribed
  /\ Changes
  /\ sink' = [sink EXCEPT !.subscribed = FALSE]
  /\ UNCHANGED <<node, toSink, client, toClient, synced, flawed>>

(* The timer of the throttle: NetworkNotificationSender.send begins.        *)
NotifyClient ==
  /\ sink.timer
  /\ Len(sink.jobs) < MaxJobs
  /\ sink' = [sink EXCEPT !.timer = FALSE, !.buffer = <<>>,
                          !.jobs = IF sink.subscribed THEN Append(@, sink.buffer) ELSE @]
  /\ flawed' = flawed \cup (IF sink.subscribed THEN {} ELSE {"missed"})
  /\ UNCHANGED <<node, toSink, client, toClient, changes, synced>>

(* One turn of its loop, createLimitedByMtu and a send; sends that have     *)
(* begun at different times take turns.                                     *)
SendFrame(i) ==
  LET job == sink.jobs[i]
      rest == SubSeq(job, FrameSize + 1, Len(job))
  IN  /\ Len(toClient) < MaxToClient
      /\ toClient' = Append(toClient, SubSeq(job, 1, IF Len(job) < FrameSize THEN Len(job) ELSE FrameSize))
      /\ sink' = [sink EXCEPT !.jobs = IF rest = <<>> THEN RemoveAt(@, i) ELSE [@ EXCEPT ![i] = rest]]
      /\ flawed' = flawed \cup (IF i > 1 THEN {"overtaken"} ELSE {})
      /\ UNCHANGED <<node, toSink, client, changes, synced>>

-----------------------------------------------------------------------------
(* ClientService.                                                           *)
TopologyUpdates(entries) == OtherThan({"FrameReceived"}, entries)

ReceiveNetworkNotification ==
  /\ toClient # <<>>
  /\ Len(client.prunes) < MaxPrunes
  /\ LET copy == ApplyUpdates(client.state, TopologyUpdates(Head(toClient))).state
     IN  client' = [client EXCEPT !.heard = TRUE, !.state = copy, !.prunes = PruneLater(@, copy)]
  /\ toClient' = Tail(toClient)
  /\ UNCHANGED <<node, toSink, sink, changes, synced, flawed>>

PruneCopy ==
  /\ client.prunes # <<>>
  /\ LET copy == Pruned(client.state, Head(client.prunes))
         removed == DOMAIN client.state.nodes \ DOMAIN copy.nodes
         early == removed \cap DOMAIN sink.state.nodes # {} \/ NewsUnderWay
     IN  /\ client' = [client EXCEPT !.state = copy, !.prunes = Tail(@)]
         /\ flawed' = flawed \cup (IF removed # {} /\ early THEN {"raced"} ELSE {})
  /\ UNCHANGED <<node, toSink, sink, toClient, changes, synced>>

-----------------------------------------------------------------------------
Neighbors(links, n) == {m \in Nodes : <<n, m>> \in links \/ <<m, n>> \in links}

(* A node that has just started: what it has found out is in the buffer.    *)
FreshNode(n) ==
  [table |-> Neighbors(FreshLinks, n), cost |-> FirstCost,
   subscribed |-> FALSE, task |-> "waiting", timer |-> FALSE,
   buffer |-> <<SelfUpdated(FirstCost)>> \o
              Listed({NeighborUpdated(m) : m \in Neighbors(FreshLinks, n)})]

SettledNode(n) ==
  [table |-> Neighbors(SettledLinks, n), cost |-> FirstCost,
   subscribed |-> TRUE, task |-> "stale", timer |-> FALSE, buffer |-> <<>>]

SettledState ==
  FoldSet(LAMBDA n, state :
            OnReceiveNodeSyncFrame(state, [source |-> n, cost |-> FirstCost,
                                           neighbors |-> Neighbors(SettledLinks, n)]).state,
          NewNetworkState, Nodes)

Init ==
  /\ \E launched \in BOOLEAN :
       /\ node = [n \in Nodes |-> IF launched THEN SettledNode(n) ELSE FreshNode(n)]
       /\ sink = [state |-> IF launched THEN SettledState ELSE NewNetworkState,
                  buffer |-> <<>>, timer |-> FALSE, prunes |-> <<>>, subscribed |-> FALSE, jobs |-> <<>>]
       /\ client = [launched |-> launched, state |-> NewNetworkState, heard |-> FALSE, prunes |-> <<>>]
  /\ toSink = {}
  /\ toClient = <<>>
  /\ changes = 0
  /\ synced = {}
  /\ flawed = {}

Next ==
  \/ \E n \in Nodes :
       \/ \E m \in DOMAIN LinkCost[n] : AddNeighbor(n, m) \/ RemoveNeighbor(n, m)
       \/ \E cost \in Costs : ChangeCost(n, cost)
       \/ ReceiveFrame(n) \/ Subscribe(n) \/ ExpireSubscriber(n) \/ NotifySink(n) \/ Sync(n)
  \/ \E frame \in toSink : Lose(frame) \/ Receive(frame)
  \/ PruneSink \/ ReceiveNetworkSubscription \/ ExpireClient \/ NotifyClient
  \/ \E i \in DOMAIN sink.jobs : SendFrame(i)
  \/ ReceiveNetworkNotification \/ PruneCopy

Spec == Init /\ [][Next]_vars

-----------------------------------------------------------------------------
(* Properties.                                                              *)

(* The sink and the client keep every link at both its ends, at one cost,   *)
(* and of nodes they know, whatever order updates, removals and dumps come  *)
(* in: dumpAsUpdates() throws where a link leads to an unknown node.        *)
LinksMutual == Mutual(sink.state) /\ Mutual(client.state)

(* While a node has a subscriber, the notify task listens to the throttle,  *)
(* and notifications that wait have a timer that will send them.            *)
NothingIsHeldBack ==
  \A n \in Nodes :
    node[n].subscribed => /\ Listening(node[n])
                          /\ node[n].buffer # <<>> => node[n].timer

(* What both ends of each link know, and what the nodes cost.               *)
NothingPending ==
  /\ toSink = {} /\ ~NewsUnderWay
  /\ sink.prunes = <<>> /\ client.prunes = <<>>

Near(state) == IF Sink \in DOMAIN state.nodes THEN Reachable(state, Sink) ELSE {}
KnownLinks(state) ==
  {<<link, state.strong[link]>> : link \in {l \in DOMAIN state.strong : {l[1], l[2]} \subseteq Near(state)}}
EitherWay(links) == {<<{l[1][1], l[1][2]}, l[2]>> : l \in links}
KnownNodes(state) == {state.nodes[id] : id \in Near(state)}

(* When nothing is on its way, a client that has been told everything in    *)
(* order (no subscription ran out, no two notifications took turns, no node *)
(* was removed by one side alone) knows what the sink knows of the part of  *)
(* the network that is connected to them.                                   *)
CopyAgrees ==
  (NothingPending /\ client.heard /\ flawed = {}) =>
    /\ KnownNodes(client.state) = KnownNodes(sink.state)
    /\ EitherWay(KnownLinks(client.state)) = EitherWay(KnownLinks(sink.state))

(* Once every connected node has synced since the network last changed, and *)
(* both ends of its links agree, the sink knows the links and costs of all  *)
(* that is connected to it, whatever was lost, dropped or removed before.   *)
(* A node that is removed because what it is linked to has not synced yet   *)
(* has to sync again: a link to it brings back its id, not its cost.        *)
Agreed == \A n, m \in Nodes : m \in node[n].table <=> n \in node[m].table
ConnectedNodes == {n \in Nodes : Connected(n)}
KnowsTheNetwork ==
  /\ \A n \in ConnectedNodes :
       /\ n \in DOMAIN sink.state.nodes /\ sink.state.nodes[n].cost = node[n].cost
       /\ AllLinks(sink.state, n) = node[n].table
SinkCatchesUp == (Agreed /\ ConnectedNodes \subseteq synced) => KnowsTheNetwork
=============================================================================
