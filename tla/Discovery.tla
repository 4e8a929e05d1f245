------------------------------ MODULE Discovery ------------------------------
(***************************************************************************)
(* DiscoveryService (ts-core/src/net/discovery) at every node of a network *)
(* whose neighbor tables are complete and do not change: lookups flood a   *)
(* request, nodes that know the target answer, and every frame heard fills *)
(* a cache of gateways, by node and by cluster.                            *)
(*                                                                         *)
(* The handler of a received frame awaits only a promise that has long     *)
(* been resolved, and so does a lookup before it registers its request: no *)
(* frame arrives in between, and each is one step here.                    *)
(***************************************************************************)
EXTENDS FrameIdCache, Naturals, FiniteSets

CONSTANTS
  Node, Cluster,
  Broadcast,        \* NodeId.broadcast()
  NoCluster,        \* ClusterId.noCluster()
  ClusterOf,        \* the cluster of each node
  Link,             \* the links, a function from pairs of nodes to linkCost
  NodeCost,         \* the cost of each node
  Distance,         \* a lower bound of the cost from a node or cluster to a node
  StaticRoute(_, _),\* what the injected RouteResolvers say of a destination
  ByDiscovery, Abort,
  MaxCacheSize,     \* frame ids remembered
  MaxCacheEntries,  \* MAX_DISCOVERY_CACHE_ENTRIES
  MaxCost,          \* Cost throws above 0xffff
  Wanted,           \* the destinations that each node's callers look up
  MaxCalls,         \* bound: lookups of one destination at one node
  Shared,           \* whether a broadcast also reaches the node it ignores
  Lossy,            \* whether frames may be lost
  Expires,          \* whether cache entries live for a bounded time
  Timely            \* whether a timeout outlasts every exchange under way

ASSUME GraphAssumption ==
  /\ DOMAIN Link \subseteq Node \X Node
  /\ \A edge \in DOMAIN Link : Link[edge] \in Nat /\ edge[1] # edge[2]
  /\ \A n, m \in Node : <<n, m>> \in DOMAIN Link => <<m, n>> \in DOMAIN Link
  /\ NodeCost \in [Node -> Nat]
  /\ ClusterOf \in [Node -> Cluster \cup {NoCluster}]
  /\ Broadcast \notin Node /\ NoCluster \notin Cluster
  /\ Node \cap Cluster = {}
ASSUME LimitsAssumption ==
  /\ MaxCacheSize \in Nat \ {0} /\ MaxCacheEntries \in Nat \ {0}
  /\ MaxCost \in Nat /\ MaxCalls \in Nat
  /\ {Shared, Lossy, Expires, Timely} \subseteq BOOLEAN

ASSUME DistanceAssumption ==
  /\ Distance \in [Node \cup Cluster -> [Node -> Nat]]
  /\ \A n \in Node : Distance[n][n] = 0
  /\ \A n, s \in Node : ClusterOf[s] \in Cluster =>
       Distance[ClusterOf[s]][n] <= Distance[s][n]
  /\ \A edge \in DOMAIN Link : \A start \in Node \cup Cluster :
       Distance[start][edge[1]]
         <= Distance[start][edge[2]] + Link[edge] + NodeCost[edge[1]]

Destination == [node : Node \cup {Broadcast}, cluster : Cluster \cup {NoCluster}]

ASSUME WantedAssumption ==
  /\ Wanted \in [Node -> SUBSET Destination]
  /\ \A n \in Node : \A d \in Wanted[n] :
       \/ d.node = Broadcast /\ d.cluster # NoCluster
       \/ d.node \in Node \ {n} /\ d.cluster \in {NoCluster, ClusterOf[d.node]}
ASSUME RoutesAssumption ==
  \A n \in Node : \A d \in Destination :
    StaticRoute(n, d) \in {ByDiscovery, Abort} \cup Node

VARIABLES
  seen,           \* FrameIdCache of each node
  generated,      \* how many frame ids each node has drawn
  nodeCache,      \* DiscoveryRequestCache#nodeIdCache, in insertion order
  clusterCache,   \* DiscoveryRequestCache#clusterIdCache
  requests,       \* LocalRequestStore: destination -> best response so far
  calls,          \* how often each destination has been looked up
  answer,         \* what the last lookup of each destination resolved to
  network         \* frames in transit, a copy to each receiver

storeVars == <<requests, calls, answer>>
vars == <<seen, generated, nodeCache, clusterCache, storeVars, network>>

-----------------------------------------------------------------------------
Neighbors(n) == {m \in Node : <<n, m>> \in DOMAIN Link}

(* Source.intoDestination, and the Destination of a frame. *)
AsDestination(n) == [node |-> n, cluster |-> ClusterOf[n]]
FrameDestination(frame) ==
  IF frame.type = "request" THEN frame.target ELSE AsDestination(frame.source)

(* The end of the walk that a frame's cost has been summed up over. *)
FrameStart(frame) ==
  IF frame.type = "request" THEN AsDestination(frame.source) ELSE frame.target

(* Source.matches, for a destination that is not broadcast. *)
Matches(n, d) ==
  IF d.node # Broadcast THEN n = d.node ELSE ClusterOf[n] = d.cluster

(* NeighborSocket.send refuses a node that is no neighbor; a frame whose    *)
(* cost is too high cannot be built, and the handler ends there.            *)
Unicast(from, to, frame) ==
  {msg \in {[from |-> from, to |-> to, frame |-> frame]} :
     to \in Neighbors(from) /\ frame.cost <= MaxCost}

(* NeighborSocket.sendBroadcast: neighbors on a medium that broadcasts get  *)
(* the frame anyway, the others one by one except the node to ignore.       *)
Flooded(n, ignore, frame) ==
  UNION {Unicast(n, m, frame) :
           m \in IF Shared THEN Neighbors(n) ELSE Neighbors(n) \ {ignore}}

(* generateWithoutAdding.  Ids are drawn at random from 16 bits; two equal  *)
(* ones at the same time are not modelled.                                  *)
NewId(n, k) == <<n, generated[n] + k>>

-----------------------------------------------------------------------------
(* CacheList. *)

Keys(entries) == {entries[i].key : i \in DOMAIN entries}
Lookup(entries, key) ==
  entries[CHOOSE i \in DOMAIN entries : entries[i].key = key]

(* Mutant: CacheList.add that never removes the first entry. *)
PutUnbounded(entries, key, gateway, cost) ==
  Append(SelectSeq(entries, LAMBDA entry : entry.key # key),
         [key |-> key, gateway |-> gateway, cost |-> cost])

(* Map.set leaves a key that is there in its place. *)
Put(entries, key, gateway, cost) ==
  LET entry == [key |-> key, gateway |-> gateway, cost |-> cost]
      added == IF key \in Keys(entries)
               THEN [i \in DOMAIN entries |->
                       IF entries[i].key = key THEN entry ELSE entries[i]]
               ELSE Append(entries, entry)
  IN  IF Len(added) > MaxCacheEntries THEN Tail(added) ELSE added

-----------------------------------------------------------------------------
(* The store of the lookups under way at a node.  An entry holds the best   *)
(* response so far.                                                         *)

NoResponse == [gateway |-> Broadcast, cost |-> MaxCost + 1]

Asking(n, d) == d \in DOMAIN requests[n]

Known(n, d) ==
  IF d.node \in Neighbors(n) THEN d.node
  ELSE IF StaticRoute(n, d) # ByDiscovery THEN StaticRoute(n, d)
  ELSE IF d.node \in Keys(nodeCache[n]) THEN Lookup(nodeCache[n], d.node).gateway
  ELSE ByDiscovery

Init ==
  /\ seen = [n \in Node |-> <<>>]
  /\ generated = [n \in Node |-> 0]
  /\ nodeCache = [n \in Node |-> <<>>]
  /\ clusterCache = [n \in Node |-> <<>>]
  /\ requests = [n \in Node |-> <<>>]
  /\ calls = [n \in Node |-> [d \in Wanted[n] |-> 0]]
  /\ answer = [n \in Node |-> [d \in Wanted[n] |-> "none"]]
  /\ network = {}

(* resolveGatewayNode, called k times at once: the calls all find that      *)
(* nothing is known and nobody is asking, each floods a request, and the    *)
(* first one's entry answers them all.                                      *)
Resolve(n, d, k) ==
  /\ calls[n][d] + k <= MaxCalls
  /\ k > 1 => Known(n, d) = ByDiscovery /\ ~Asking(n, d)
  /\ calls' = [calls EXCEPT ![n][d] = @ + k]
  /\ answer' = [answer EXCEPT ![n][d] =
       CASE Known(n, d) = ByDiscovery -> "pending"
         [] Known(n, d) = Abort -> "unreachable"
         [] OTHER -> Known(n, d)]
  /\ IF Known(n, d) # ByDiscovery \/ Asking(n, d)
     THEN UNCHANGED <<generated, requests, network>>
     ELSE /\ requests' = [requests EXCEPT ![n] =
               [o \in DOMAIN @ \cup {d} |-> IF o = d THEN NoResponse ELSE @[o]]]
          /\ generated' = [generated EXCEPT ![n] = @ + k]
          /\ network' = network \cup UNION {
               Flooded(n, n, [type |-> "request", id |-> NewId(n, i), cost |-> 0,
                              source |-> n, target |-> d]) : i \in 1..k}
  /\ UNCHANGED <<seen, nodeCache, clusterCache>>

-----------------------------------------------------------------------------
(* The handler of a received frame.  What every rule does first: remember   *)
(* the frame's id, sum up its cost, and cache its sender as the gateway to  *)
(* where the walk of its cost began.                                        *)

TotalCost(n, msg) == msg.frame.cost + Link[<<n, msg.from>>] + NodeCost[n]

NodesHeard(n, msg) ==
  LET start == FrameStart(msg.frame).node
  IN  IF start = Broadcast THEN nodeCache[n]
      ELSE Put(nodeCache[n], start, msg.from, TotalCost(n, msg))

ClustersHeard(n, msg) ==
  LET start == FrameStart(msg.frame).cluster
  IN  IF start = NoCluster THEN clusterCache[n]
      ELSE Put(clusterCache[n], start, msg.from, TotalCost(n, msg))

(* Mutant: A frame id that is looked up and not remembered. *)
InsertNothing(n, id) == seen' = seen

Insert(n, id) == seen' = [seen EXCEPT ![n] = InsertId(@, id, MaxCacheSize)]

IsNew(n, msg) ==
  ~Contains(seen[n], msg.frame.id) /\ TotalCost(n, msg) <= MaxCost

Hear(n, msg) ==
  /\ IsNew(n, msg)
  /\ Insert(n, msg.frame.id)
  /\ nodeCache' = [nodeCache EXCEPT ![n] = NodesHeard(n, msg)]
  /\ clusterCache' = [clusterCache EXCEPT ![n] = ClustersHeard(n, msg)]

(* Heard before; or Cost throws, before anything is cached. *)
Ignore(n, msg) ==
  /\ ~IsNew(n, msg)
  /\ Insert(n, msg.frame.id)
  /\ network' = network \ {msg}
  /\ UNCHANGED <<generated, nodeCache, clusterCache, storeVars>>

(* Which of the handler's cases a frame falls under.  The caches are read   *)
(* after this frame has been cached.                                        *)
Rule(n, msg) ==
  LET d == FrameDestination(msg.frame)
  IN  CASE Matches(n, d) -> "local"
        [] ~Matches(n, d) /\ StaticRoute(n, d) # ByDiscovery -> "static"
        [] OTHER ->
             IF d.node \in Keys(NodesHeard(n, msg)) THEN "node cache"
             ELSE IF d.node \in Neighbors(n) THEN "neighbor"
             ELSE IF d.cluster \in Keys(ClustersHeard(n, msg)) THEN "cluster cache"
             ELSE "unknown"

IsRequest(msg) == msg.frame.type = "request"

(* Mutant: frame.repeat that passes the cost on as it came. *)
RepeatForFree(n, msg) == msg.frame

(* frame.repeat; frame.reply and replyByCache. *)
Repeat(n, msg) == [msg.frame EXCEPT !.cost = TotalCost(n, msg)]
Reply(n, msg, cost) ==
  [msg.frame EXCEPT !.type = "response", !.id = NewId(n, 1), !.cost = cost]

SendInstead(msg, sent) == network' = (network \ {msg}) \cup sent

SendReply(n, msg, cost, to) ==
  /\ SendInstead(msg, Unicast(n, to, Reply(n, msg, cost)))
  /\ generated' = [generated EXCEPT ![n] = @ + 1]
  /\ UNCHANGED storeVars

Pass(n, msg, sent) == SendInstead(msg, sent) /\ UNCHANGED <<generated, storeVars>>

AnswerRequest(n, msg) ==
  /\ Rule(n, msg) = "local" /\ IsRequest(msg)
  /\ SendReply(n, msg, 0, msg.from)

(* DiscoveryRequestEntry.handleResponse: the cost compared is the frame's,  *)
(* as the sender of the response has summed it up.                          *)
TakeResponse(n, msg) ==
  /\ Rule(n, msg) = "local" /\ ~IsRequest(msg)
  /\ requests' = [requests EXCEPT ![n] = [d \in DOMAIN @ |->
       IF d = msg.frame.target /\ msg.frame.cost < @[d].cost
       THEN [gateway |-> msg.from, cost |-> msg.frame.cost] ELSE @[d]]]
  /\ network' = network \ {msg}
  /\ UNCHANGED <<generated, calls, answer>>

(* A resolver that says Abort makes the frame end here. *)
FollowStatic(n, msg) ==
  /\ Rule(n, msg) = "static"
  /\ Pass(n, msg, Unicast(n, StaticRoute(n, FrameDestination(msg.frame)),
                          Repeat(n, msg)))

(* The reply goes to the gateway towards the node that is looked for. *)
AnswerFromCache(n, msg) ==
  /\ Rule(n, msg) = "node cache" /\ IsRequest(msg)
  /\ LET cache == Lookup(NodesHeard(n, msg), msg.frame.target.node)
     IN  SendReply(n, msg, cache.cost, cache.gateway)

(* Mutant: A reply for a neighbor that leaves out the link to it. *)
AnswerForFreeNeighbor(n, msg) ==
  /\ Rule(n, msg) = "neighbor" /\ IsRequest(msg)
  /\ SendReply(n, msg, NodeCost[n], msg.from)

AnswerForNeighbor(n, msg) ==
  /\ Rule(n, msg) = "neighbor" /\ IsRequest(msg)
  /\ SendReply(n, msg, Link[<<n, msg.frame.target.node>>] + NodeCost[n], msg.from)

RelayResponse(n, msg) ==
  LET source == msg.frame.source
  IN  /\ ~IsRequest(msg)
      /\ \/ /\ Rule(n, msg) = "node cache"
            /\ Pass(n, msg, Unicast(n, Lookup(NodesHeard(n, msg), source).gateway,
                                    Repeat(n, msg)))
         \/ /\ Rule(n, msg) = "neighbor"
            /\ Pass(n, msg, Unicast(n, source, Repeat(n, msg)))

(* Flooded inside the cluster, passed on towards it outside. *)
FollowCluster(n, msg) ==
  LET cluster == FrameDestination(msg.frame).cluster
  IN  /\ Rule(n, msg) = "cluster cache"
      /\ \/ /\ ClusterOf[n] = cluster
            /\ Pass(n, msg, Flooded(n, msg.from, Repeat(n, msg)))
         \/ /\ ClusterOf[n] # cluster
            /\ Pass(n, msg, Unicast(n, Lookup(ClustersHeard(n, msg), cluster).gateway,
                                    Repeat(n, msg)))

Flood(n, msg) ==
  /\ Rule(n, msg) = "unknown"
  /\ Pass(n, msg, Flooded(n, msg.from, Repeat(n, msg)))

Handle(n, msg) ==
  /\ Hear(n, msg)
  /\ \/ AnswerRequest(n, msg) \/ TakeResponse(n, msg) \/ FollowStatic(n, msg)
     \/ AnswerFromCache(n, msg) \/ AnswerForNeighbor(n, msg)
     \/ RelayResponse(n, msg) \/ FollowCluster(n, msg) \/ Flood(n, msg)

Receive(n) ==
  \E msg \in network : msg.to = n /\ (Ignore(n, msg) \/ Handle(n, msg))

-----------------------------------------------------------------------------
(* The timers of a lookup and of a cache entry, and the network.            *)

Conclude(n, d, outcome) ==
  /\ answer' = [answer EXCEPT ![n][d] = outcome]
  /\ requests' = [requests EXCEPT ![n] = [o \in DOMAIN @ \ {d} |-> @[o]]]
  /\ UNCHANGED <<seen, generated, nodeCache, clusterCache, calls, network>>

(* Mutant: onTimeout that leaves the promise of the lookup unresolved. *)
FirstResponseTimeoutForgets(n, d) ==
  /\ Asking(n, d) /\ requests[n][d] = NoResponse
  /\ Timely => network = {}
  /\ Conclude(n, d, "pending")

(* No response within DISCOVERY_FIRST_RESPONSE_TIMEOUT. *)
FirstResponseTimeout(n, d) ==
  /\ Asking(n, d) /\ requests[n][d] = NoResponse
  /\ Timely => network = {}
  /\ Conclude(n, d, "unreachable")

(* The wait for better responses, a fifth of the wait for the first, ends. *)
BetterResponseTimeout(n, d) ==
  /\ Asking(n, d) /\ requests[n][d] # NoResponse
  /\ Conclude(n, d, requests[n][d].gateway)

Expire(n) ==
  /\ Expires
  /\ \/ /\ \E i \in DOMAIN nodeCache[n] :
             nodeCache' = [nodeCache EXCEPT ![n] = RemoveAt(@, i)]
        /\ UNCHANGED clusterCache
     \/ /\ \E i \in DOMAIN clusterCache[n] :
             clusterCache' = [clusterCache EXCEPT ![n] = RemoveAt(@, i)]
        /\ UNCHANGED nodeCache
  /\ UNCHANGED <<seen, generated, storeVars, network>>

Lose(msg) ==
  /\ Lossy
  /\ network' = network \ {msg}
  /\ UNCHANGED <<seen, generated, nodeCache, clusterCache, storeVars>>

Next ==
  \/ \E n \in Node :
       \/ Receive(n) \/ Expire(n)
       \/ \E d \in Wanted[n] :
            \/ \E k \in 1..MaxCalls : Resolve(n, d, k)
            \/ FirstResponseTimeout(n, d) \/ BetterResponseTimeout(n, d)
  \/ \E msg \in network : Lose(msg)

Spec == Init /\ [][Next]_vars

(* Frames that are not lost arrive, and timers go off.  Applications may    *)
(* look nothing up, and entries need not expire.                            *)
FairSpec ==
  /\ Spec
  /\ \A n \in Node :
       /\ WF_vars(Receive(n))
       /\ \A d \in Wanted[n] : WF_vars(FirstResponseTimeout(n, d))
                             /\ WF_vars(BetterResponseTimeout(n, d))

-----------------------------------------------------------------------------
(* Properties. *)

Id == Node \X Nat
Frame == [type : {"request", "response"}, id : Id, cost : 0..MaxCost,
          source : Node, target : Destination]
Message == [from : Node, to : Node, frame : Frame]
Entry(keys) == [key : keys, gateway : Node, cost : 0..MaxCost]

(* Every variable has the shape that the code's classes give it, and no     *)
(* cache outgrows its limit.                                                *)
TypeOK ==
  /\ seen \in [Node -> Seq(Id)]
  /\ generated \in [Node -> Nat]
  /\ nodeCache \in [Node -> Seq(Entry(Node))]
  /\ clusterCache \in [Node -> Seq(Entry(Cluster))]
  /\ network \subseteq Message
  /\ \A n \in Node :
       /\ Len(seen[n]) <= MaxCacheSize
       /\ Len(nodeCache[n]) <= MaxCacheEntries
       /\ Len(clusterCache[n]) <= MaxCacheEntries
       /\ DOMAIN requests[n] \subseteq Wanted[n]
       /\ \A d \in DOMAIN requests[n] :
            requests[n][d] \in {NoResponse} \cup [gateway : Node, cost : 0..MaxCost]
       /\ calls[n] \in [Wanted[n] -> 0..MaxCalls]
       /\ answer[n] \in [Wanted[n] -> {"none", "pending", "unreachable"} \cup Node]

(* No node takes another node, or a cluster, to be nearer than it is by the *)
(* gateway it has cached for it: whatever path a frame took, and whichever  *)
(* node answered for another from its neighbor table or its cache, the cost *)
(* that calculateTotalCost, repeat, reply and replyByCache have summed up is *)
(* at least the distance from the gateway and the last link.                *)
NotNearerThanItIs(n, entry) ==
  entry.cost >= Distance[entry.key][entry.gateway]
                  + Link[<<n, entry.gateway>>] + NodeCost[n]
NoUnderestimate ==
  \A n \in Node : \A i \in DOMAIN nodeCache[n] : NotNearerThanItIs(n, nodeCache[n][i])
NoClusterUnderestimate ==
  \A n \in Node : \A i \in DOMAIN clusterCache[n] : NotNearerThanItIs(n, clusterCache[n][i])

(* "Replies to the node that is searching" (service.ts:72): once the        *)
(* network is quiet, and nothing has been lost, every lookup under way has  *)
(* heard a response.                                                        *)
RepliesReachTheSearcher ==
  network = {} => \A n \in Node : \A d \in DOMAIN requests[n] : requests[n][d] # NoResponse

(* A lookup ends, with a gateway or without: withTimeout bounds the wait    *)
(* for the first response and sleep the wait for better ones, and both ends *)
(* delete the entry that later lookups would wait for.                      *)
LookupSettles ==
  \A n \in Node : \A d \in Wanted[n] :
    answer[n][d] = "pending" ~> answer[n][d] # "pending"

(* Floods die out, even that of a request that its own sender hears, whose  *)
(* id it has not added to its cache, and relays again.                      *)
FloodsEnd == <>[](network = {})

-----------------------------------------------------------------------------
(* The inductive invariant behind NoUnderestimate and its like for clusters: *)
(* what a frame in transit says of the distance to its sender is no          *)
(* underestimate either, so that neither is what its receiver caches, sends  *)
(* on, or answers from its cache.                                            *)

Sound(n, keys) ==
  {entry \in [key : keys, gateway : Neighbors(n), cost : Nat] : NotNearerThanItIs(n, entry)}

IsTarget(d) ==
  \/ d.node = Broadcast /\ d.cluster \in Cluster
  \/ d.node \in Node /\ d.cluster \in {NoCluster, ClusterOf[d.node]}

NoNearer(n, start, cost) ==
  /\ start.node \in Node => cost >= Distance[start.node][n]
  /\ start.cluster \in Cluster => cost >= Distance[start.cluster][n]

SoundFrame ==
  {frame \in [type : {"request", "response"}, id : Id, cost : Nat,
              source : Node, target : Destination] : IsTarget(frame.target)}

SoundMessage(msg) ==
  /\ msg.from \in Node /\ msg.to \in Neighbors(msg.from)
  /\ msg.frame \in SoundFrame
  /\ NoNearer(msg.from, FrameStart(msg.frame), msg.frame.cost)

CostInv ==
  /\ generated \in [Node -> Nat]
  /\ nodeCache \in [Node -> Seq([key : Node, gateway : Node, cost : Nat])]
  /\ clusterCache \in [Node -> Seq([key : Cluster, gateway : Node, cost : Nat])]
  /\ \A n \in Node : /\ nodeCache[n] \in Seq(Sound(n, Node))
                     /\ clusterCache[n] \in Seq(Sound(n, Cluster))
  /\ \A msg \in network : SoundMessage(msg)
=============================================================================
