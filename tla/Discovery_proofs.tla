--------------------------- MODULE Discovery_proofs ---------------------------
(***************************************************************************)
(* Costs are no underestimates, in every network: CostInv of Discovery is  *)
(* inductive.  All that is assumed of Distance is DistanceAssumption, so   *)
(* it may be the cost of the cheapest path.  With it, the state keeps its  *)
(* shape and the caches their limits.                                      *)
(***************************************************************************)
EXTENDS Discovery, TLAPS

-----------------------------------------------------------------------------
(* The graph and the distances in it. *)

LEMMA LinkIsNat ==
  ASSUME NEW n \in Node, NEW m \in Neighbors(n)
  PROVE  /\ m \in Node /\ n \in Neighbors(m) /\ n # m
         /\ Link[<<n, m>>] \in Nat /\ Link[<<m, n>>] \in Nat
         /\ NodeCost[n] \in Nat
BY GraphAssumption DEF Neighbors

LEMMA DistanceIsNat ==
  ASSUME NEW start \in Node \cup Cluster, NEW n \in Node
  PROVE  Distance[start][n] \in Nat
BY DistanceAssumption

(* One more link is no shortcut. *)
LEMMA Triangle ==
  ASSUME NEW n \in Node, NEW m \in Neighbors(n), NEW start \in Node \cup Cluster
  PROVE  Distance[start][n] <= Distance[start][m] + Link[<<n, m>>] + NodeCost[n]
<1>1. <<n, m>> \in DOMAIN Link
  BY DEF Neighbors
<1>2. <<n, m>>[1] = n /\ <<n, m>>[2] = m
  OBVIOUS
<1> QED
  BY <1>1, <1>2, DistanceAssumption

(* Where a walk that ended at one neighbor goes on to the other. *)
LEMMA NoNearerBeyond ==
  ASSUME NEW n \in Node, NEW m \in Neighbors(n), NEW start, NEW cost \in Nat,
         NoNearer(m, start, cost)
  PROVE  NoNearer(n, start, cost + Link[<<n, m>>] + NodeCost[n])
<1>1. ASSUME NEW key \in Node \cup Cluster, cost >= Distance[key][m]
      PROVE  cost + Link[<<n, m>>] + NodeCost[n] >= Distance[key][n]
  <2>1. Distance[key][n] \in Nat /\ Distance[key][m] \in Nat
    BY LinkIsNat, DistanceIsNat
  <2>2. Distance[key][n] <= Distance[key][m] + Link[<<n, m>>] + NodeCost[n]
    BY Triangle
  <2>3. Link[<<n, m>>] \in Nat /\ NodeCost[n] \in Nat
    BY LinkIsNat
  <2> QED
    BY <2>1, <2>2, <2>3, <1>1
<1> QED
  BY <1>1 DEF NoNearer

(* A cost that reaches a target reaches its cluster. *)
LEMMA NoNearerTarget ==
  ASSUME NEW n \in Node, NEW d, IsTarget(d), NEW cost \in Nat,
         IF d.node = Broadcast THEN ClusterOf[n] = d.cluster
         ELSE cost >= Distance[d.node][n]
  PROVE  NoNearer(n, d, cost)
<1>1. CASE d.node = Broadcast
  <2>1. d.node \notin Node /\ ClusterOf[n] \in Cluster
    BY <1>1, GraphAssumption DEF IsTarget
  <2>2. Distance[ClusterOf[n]][n] <= Distance[n][n] /\ Distance[n][n] = 0
    BY <2>1, DistanceAssumption
  <2>3. Distance[d.cluster][n] \in Nat /\ Distance[d.cluster][n] <= 0
    BY <1>1, <2>1, <2>2, DistanceIsNat
  <2> QED
    BY <2>1, <2>3 DEF NoNearer
<1>2. CASE d.node # Broadcast
  <2>1. d.node \in Node /\ d.cluster \in {NoCluster, ClusterOf[d.node]}
    BY <1>2 DEF IsTarget
  <2>2. ASSUME d.cluster \in Cluster
        PROVE  cost >= Distance[d.cluster][n]
    <3>1. d.cluster = ClusterOf[d.node]
      BY <2>1, <2>2, GraphAssumption
    <3>2. Distance[d.cluster][n] <= Distance[d.node][n]
      BY <2>1, <2>2, <3>1, DistanceAssumption
    <3>3. Distance[d.cluster][n] \in Nat /\ Distance[d.node][n] \in Nat
      BY <2>1, <2>2, DistanceIsNat
    <3> QED
      BY <1>2, <3>2, <3>3
  <2> QED
    BY <1>2, <2>2 DEF NoNearer
<1> QED
  BY <1>1, <1>2

(* A node is at no distance from itself. *)
LEMMA NoNearerSelf ==
  ASSUME NEW n \in Node
  PROVE  IsTarget(AsDestination(n)) /\ NoNearer(n, AsDestination(n), 0)
<1>1. IsTarget(AsDestination(n)) /\ AsDestination(n).node = n /\ n # Broadcast
  BY GraphAssumption DEF IsTarget, AsDestination
<1>2. 0 >= Distance[n][n]
  BY DistanceAssumption
<1> QED
  BY <1>1, <1>2, NoNearerTarget

-----------------------------------------------------------------------------
(* The caches. *)

LEMMA SoundIsEntry ==
  ASSUME NEW n \in Node, NEW keys, NEW entry \in Sound(n, keys)
  PROVE  entry \in [key : keys, gateway : Node, cost : Nat]
BY DEF Sound, Neighbors

LEMMA PutSound ==
  ASSUME NEW S, NEW entries \in Seq(S), NEW key, NEW gateway, NEW cost,
         [key |-> key, gateway |-> gateway, cost |-> cost] \in S
  PROVE  Put(entries, key, gateway, cost) \in Seq(S)
<1> DEFINE entry == [key |-> key, gateway |-> gateway, cost |-> cost]
           added == IF key \in Keys(entries)
                    THEN [i \in DOMAIN entries |->
                            IF entries[i].key = key THEN entry ELSE entries[i]]
                    ELSE Append(entries, entry)
<1>1. added \in Seq(S)
  <2>1. CASE key \in Keys(entries)
    <3>1. \A i \in DOMAIN entries : added[i] \in S
      BY <2>1
    <3>2. added = [i \in 1..Len(entries) |-> added[i]]
      BY <2>1
    <3> QED
      BY <3>1, <3>2
  <2>2. CASE key \notin Keys(entries)
    BY <2>2
  <2> QED
    BY <2>1, <2>2
<1>2. MaxCacheEntries \in Nat \ {0}
  BY LimitsAssumption
<1>3. Len(added) > MaxCacheEntries => Tail(added) \in Seq(S)
  BY <1>1, <1>2
<1> HIDE DEF added
<1>4. Put(entries, key, gateway, cost) = IF Len(added) > MaxCacheEntries THEN Tail(added) ELSE added
  BY DEF Put, added
<1> QED
  BY <1>1, <1>3, <1>4

LEMMA LookupSound ==
  ASSUME NEW S, NEW entries \in Seq(S), NEW key \in Keys(entries)
  PROVE  Lookup(entries, key) \in S /\ Lookup(entries, key).key = key
<1>1. PICK i \in DOMAIN entries : entries[i].key = key
  BY DEF Keys
<1>2. (CHOOSE j \in DOMAIN entries : entries[j].key = key) \in DOMAIN entries
      /\ entries[CHOOSE j \in DOMAIN entries : entries[j].key = key].key = key
  BY <1>1
<1> QED
  BY <1>2 DEF Lookup

LEMMA RemoveSound ==
  ASSUME NEW S, NEW entries \in Seq(S), NEW i \in DOMAIN entries
  PROVE  RemoveAt(entries, i) \in Seq(S)
<1>1. i \in 1..Len(entries)
  OBVIOUS
<1>2. SubSeq(entries, 1, i - 1) \in Seq(S) /\ SubSeq(entries, i + 1, Len(entries)) \in Seq(S)
  BY <1>1
<1> QED
  BY <1>2 DEF RemoveAt

-----------------------------------------------------------------------------
(* The frames. *)

LEMMA FloodSound ==
  ASSUME NEW n \in Node, NEW frame \in SoundFrame,
         NoNearer(n, FrameStart(frame), frame.cost)
  PROVE  /\ \A to : \A msg \in Unicast(n, to, frame) : SoundMessage(msg)
         /\ \A ignore : \A msg \in Flooded(n, ignore, frame) : SoundMessage(msg)
<1>1. ASSUME NEW to, NEW msg \in Unicast(n, to, frame)
      PROVE  SoundMessage(msg)
  BY <1>1 DEF Unicast, SoundMessage
<1>2. ASSUME NEW ignore, NEW msg \in Flooded(n, ignore, frame)
      PROVE  SoundMessage(msg)
  <2>1. PICK m : msg \in Unicast(n, m, frame)
    BY <1>2 DEF Flooded
  <2> QED
    BY <2>1, <1>1
<1> QED
  BY <1>1, <1>2

(* Hearing a frame: its total cost is no underestimate here, so that it may *)
(* be cached and passed on.                                                 *)
LEMMA HeardSound ==
  ASSUME NEW n \in Node, NEW msg, SoundMessage(msg), msg.to = n
  PROVE  /\ msg.from \in Neighbors(n)
         /\ TotalCost(n, msg) \in Nat
         /\ NoNearer(n, FrameStart(msg.frame), TotalCost(n, msg))
         /\ Repeat(n, msg) \in SoundFrame
         /\ FrameStart(Repeat(n, msg)) = FrameStart(msg.frame)
         /\ Repeat(n, msg).cost = TotalCost(n, msg)
<1>1. msg.from \in Neighbors(n) /\ msg.frame \in SoundFrame
  BY LinkIsNat DEF SoundMessage
<1>2. msg.frame.cost \in Nat /\ TotalCost(n, msg) \in Nat
  <2>1. msg.frame.cost \in Nat
    BY <1>1 DEF SoundFrame
  <2>2. Link[<<n, msg.from>>] \in Nat /\ NodeCost[n] \in Nat
    BY <1>1, LinkIsNat
  <2> QED
    BY <2>1, <2>2 DEF TotalCost
<1>3. NoNearer(n, FrameStart(msg.frame), TotalCost(n, msg))
  BY <1>1, <1>2, NoNearerBeyond DEF SoundMessage, TotalCost
<1>4. Repeat(n, msg) \in SoundFrame /\ Repeat(n, msg).cost = TotalCost(n, msg)
  BY <1>1, <1>2 DEF SoundFrame, Repeat
<1>5. FrameStart(Repeat(n, msg)) = FrameStart(msg.frame)
  BY <1>1 DEF SoundFrame, Repeat, FrameStart
<1> QED
  BY <1>1, <1>2, <1>3, <1>4, <1>5

LEMMA ReplySound ==
  ASSUME NEW n \in Node, NEW msg, msg.frame \in SoundFrame, NEW cost \in Nat,
         NoNearer(n, msg.frame.target, cost), generated \in [Node -> Nat]
  PROVE  /\ Reply(n, msg, cost) \in SoundFrame
         /\ NoNearer(n, FrameStart(Reply(n, msg, cost)), Reply(n, msg, cost).cost)
<1>1. NewId(n, 1) \in Id
  BY DEF NewId, Id
<1>2. Reply(n, msg, cost) \in SoundFrame
  BY <1>1 DEF Reply, SoundFrame
<1>3. /\ FrameStart(Reply(n, msg, cost)) = msg.frame.target
      /\ Reply(n, msg, cost).cost = cost
  BY DEF Reply, SoundFrame, FrameStart
<1> QED
  BY <1>2, <1>3

(* What a walk of no underestimated cost may be cached as. *)
LEMMA EntrySound ==
  ASSUME NEW n \in Node, NEW msg, SoundMessage(msg), msg.to = n
  PROVE  /\ nodeCache[n] \in Seq(Sound(n, Node)) =>
              NodesHeard(n, msg) \in Seq(Sound(n, Node))
         /\ clusterCache[n] \in Seq(Sound(n, Cluster)) =>
              ClustersHeard(n, msg) \in Seq(Sound(n, Cluster))
<1> DEFINE start == FrameStart(msg.frame)
           Entry0(key) == [key |-> key, gateway |-> msg.from, cost |-> TotalCost(n, msg)]
<1>1. /\ msg.from \in Neighbors(n) /\ msg.from \in Node
      /\ TotalCost(n, msg) \in Nat /\ msg.frame \in SoundFrame
  BY HeardSound DEF SoundMessage
<1>2. /\ start.node \in Node \cup {Broadcast}
      /\ start.cluster \in Cluster \cup {NoCluster}
  BY <1>1, GraphAssumption DEF SoundFrame, FrameStart, AsDestination, Destination
<1>3. ASSUME NEW key \in Node \cup Cluster, msg.frame.cost >= Distance[key][msg.from]
      PROVE  NotNearerThanItIs(n, Entry0(key))
  <2>1. /\ msg.frame.cost \in Nat /\ Distance[key][msg.from] \in Nat
        /\ Link[<<n, msg.from>>] \in Nat /\ NodeCost[n] \in Nat
    BY <1>1, LinkIsNat, DistanceIsNat DEF SoundFrame
  <2>2. msg.frame.cost + Link[<<n, msg.from>>] + NodeCost[n]
          >= Distance[key][msg.from] + Link[<<n, msg.from>>] + NodeCost[n]
    BY <2>1, <1>3
  <2> QED
    BY <2>2 DEF NotNearerThanItIs, TotalCost
<1>4. start.node \in Node => Entry0(start.node) \in Sound(n, Node)
  BY <1>1, <1>3 DEF SoundMessage, NoNearer, Sound
<1>5. start.cluster \in Cluster => Entry0(start.cluster) \in Sound(n, Cluster)
  BY <1>1, <1>3 DEF SoundMessage, NoNearer, Sound
<1>6. ASSUME nodeCache[n] \in Seq(Sound(n, Node))
      PROVE  NodesHeard(n, msg) \in Seq(Sound(n, Node))
  BY <1>2, <1>4, <1>6, PutSound DEF NodesHeard
<1>7. ASSUME clusterCache[n] \in Seq(Sound(n, Cluster))
      PROVE  ClustersHeard(n, msg) \in Seq(Sound(n, Cluster))
  BY <1>2, <1>5, <1>7, PutSound DEF ClustersHeard
<1> QED
  BY <1>6, <1>7

-----------------------------------------------------------------------------
(* The steps. *)

LEMMA InitCost == Init => CostInv
<1> SUFFICES ASSUME Init PROVE CostInv
  OBVIOUS
<1>1. \A S : <<>> \in Seq(S)
  OBVIOUS
<1> QED
  BY <1>1 DEF Init, CostInv

(* The frames that the handler of a received frame sends are sound. *)
LEMMA HandleSends ==
  ASSUME CostInv, NEW n \in Node, NEW msg \in network, msg.to = n, Handle(n, msg)
  PROVE  /\ \A sent \in network' : SoundMessage(sent)
         /\ generated' \in [Node -> Nat]
<1>1. SoundMessage(msg) /\ msg.frame \in SoundFrame /\ generated \in [Node -> Nat]
  BY DEF CostInv, SoundMessage
<1>2. NodesHeard(n, msg) \in Seq(Sound(n, Node))
      /\ ClustersHeard(n, msg) \in Seq(Sound(n, Cluster))
  BY <1>1, EntrySound DEF CostInv
<1>3. ASSUME NEW out, SendInstead(msg, out), \A sent \in out : SoundMessage(sent)
      PROVE  \A sent \in network' : SoundMessage(sent)
  BY <1>3 DEF SendInstead, CostInv
<1>4. /\ \A to : \A sent \in Unicast(n, to, Repeat(n, msg)) : SoundMessage(sent)
      /\ \A ignore : \A sent \in Flooded(n, ignore, Repeat(n, msg)) : SoundMessage(sent)
  <2>1. /\ Repeat(n, msg) \in SoundFrame
        /\ NoNearer(n, FrameStart(Repeat(n, msg)), Repeat(n, msg).cost)
    BY <1>1, HeardSound
  <2> QED
    BY <2>1, FloodSound
<1>5. ASSUME NEW out, Pass(n, msg, out), \A sent \in out : SoundMessage(sent)
      PROVE  (\A sent \in network' : SoundMessage(sent)) /\ generated' \in [Node -> Nat]
  BY <1>1, <1>3, <1>5 DEF Pass
<1>6. ASSUME IsRequest(msg), NEW cost \in Nat, NEW to, SendReply(n, msg, cost, to),
             IF msg.frame.target.node = Broadcast
             THEN ClusterOf[n] = msg.frame.target.cluster
             ELSE cost >= Distance[msg.frame.target.node][n]
      PROVE  (\A sent \in network' : SoundMessage(sent)) /\ generated' \in [Node -> Nat]
  <2>1. IsTarget(msg.frame.target)
    BY <1>1 DEF SoundFrame
  <2>2. NoNearer(n, msg.frame.target, cost)
    BY <2>1, <1>6, NoNearerTarget
  <2>3. /\ Reply(n, msg, cost) \in SoundFrame
        /\ NoNearer(n, FrameStart(Reply(n, msg, cost)), Reply(n, msg, cost).cost)
    BY <1>1, <2>2, ReplySound
  <2>4. \A sent \in Unicast(n, to, Reply(n, msg, cost)) : SoundMessage(sent)
    BY <2>3, FloodSound
  <2>5. generated' \in [Node -> Nat]
    BY <1>1, <1>6 DEF SendReply
  <2> QED
    BY <1>3, <1>6, <2>4, <2>5 DEF SendReply
<1>7. CASE AnswerRequest(n, msg)
  <2>1. IsRequest(msg) /\ Rule(n, msg) = "local" /\ SendReply(n, msg, 0, msg.from)
    BY <1>7 DEF AnswerRequest
  <2>2. Matches(n, msg.frame.target)
    BY <2>1 DEF Rule, IsRequest, FrameDestination
  <2>3. 0 >= Distance[n][n]
    BY DistanceAssumption
  <2> QED
    BY <1>6, <2>1, <2>2, <2>3 DEF Matches
<1>8. CASE TakeResponse(n, msg)
  BY <1>1, <1>8 DEF TakeResponse, CostInv
<1>9. CASE FollowStatic(n, msg)
  BY <1>4, <1>5, <1>9 DEF FollowStatic
<1>10. CASE AnswerFromCache(n, msg)
  <2> DEFINE target == msg.frame.target.node
             cache == Lookup(NodesHeard(n, msg), target)
  <2>1. /\ IsRequest(msg) /\ Rule(n, msg) = "node cache"
        /\ SendReply(n, msg, cache.cost, cache.gateway)
    BY <1>10 DEF AnswerFromCache
  <2>2. target \in Keys(NodesHeard(n, msg))
    BY <2>1 DEF Rule, IsRequest, FrameDestination
  <2>3. cache \in Sound(n, Node) /\ cache.key = target
    BY <1>2, <2>2, LookupSound
  <2>4. /\ target \in Node /\ cache.cost \in Nat /\ cache.gateway \in Neighbors(n)
        /\ cache.cost >= Distance[target][cache.gateway] + Link[<<n, cache.gateway>>] + NodeCost[n]
    BY <2>3 DEF Sound, NotNearerThanItIs
  <2>5. /\ Distance[target][n] \in Nat /\ Distance[target][cache.gateway] \in Nat
        /\ Link[<<n, cache.gateway>>] \in Nat /\ NodeCost[n] \in Nat
        /\ Distance[target][n]
             <= Distance[target][cache.gateway] + Link[<<n, cache.gateway>>] + NodeCost[n]
    BY <2>4, LinkIsNat, DistanceIsNat, Triangle
  <2>6. cache.cost >= Distance[target][n]
    BY <2>4, <2>5
  <2>7. target # Broadcast
    BY <2>4, GraphAssumption
  <2> QED
    BY <1>6, <2>1, <2>4, <2>6, <2>7
<1>11. CASE AnswerForNeighbor(n, msg)
  <2> DEFINE target == msg.frame.target.node
             cost == Link[<<n, target>>] + NodeCost[n]
  <2>1. IsRequest(msg) /\ Rule(n, msg) = "neighbor" /\ SendReply(n, msg, cost, msg.from)
    BY <1>11 DEF AnswerForNeighbor
  <2>2. target \in Neighbors(n) /\ target \in Node
    BY <2>1 DEF Rule, IsRequest, FrameDestination, Neighbors
  <2>3. /\ Link[<<n, target>>] \in Nat /\ NodeCost[n] \in Nat
        /\ Distance[target][n] \in Nat /\ Distance[target][target] = 0
        /\ Distance[target][n] <= Distance[target][target] + Link[<<n, target>>] + NodeCost[n]
    BY <2>2, LinkIsNat, DistanceIsNat, Triangle, DistanceAssumption
  <2>4. cost \in Nat /\ cost >= Distance[target][n]
    BY <2>3
  <2>5. target # Broadcast
    BY <2>2, GraphAssumption
  <2> HIDE DEF cost
  <2> QED
    BY <1>6, <2>1, <2>4, <2>5
<1>12. CASE RelayResponse(n, msg)
  BY <1>4, <1>5, <1>12 DEF RelayResponse
<1>13. CASE FollowCluster(n, msg)
  BY <1>4, <1>5, <1>13 DEF FollowCluster
<1>14. CASE Flood(n, msg)
  BY <1>4, <1>5, <1>14 DEF Flood
<1> QED
  BY <1>7, <1>8, <1>9, <1>10, <1>11, <1>12, <1>13, <1>14 DEF Handle

LEMMA SoundSeqIsEntries ==
  ASSUME NEW n \in Node, NEW keys, NEW entries \in Seq(Sound(n, keys))
  PROVE  entries \in Seq([key : keys, gateway : Node, cost : Nat])
<1> DEFINE S == Sound(n, keys)
           E == [key : keys, gateway : Node, cost : Nat]
<1>1. \A entry \in S : entry \in E
  BY SoundIsEntry
<1>2. entries \in Seq(S)
  OBVIOUS
<1> HIDE DEF S, E
<1>3. entries \in Seq(E)
  BY <1>1, <1>2
<1> QED
  BY <1>3 DEF E

(* Enough to show of a step that changes the caches of one node. *)
LEMMA CachesKept ==
  ASSUME CostInv, NEW n \in Node,
         NEW nodes \in Seq(Sound(n, Node)), NEW clusters \in Seq(Sound(n, Cluster)),
         nodeCache' = [nodeCache EXCEPT ![n] = nodes],
         clusterCache' = [clusterCache EXCEPT ![n] = clusters],
         generated' \in [Node -> Nat], \A msg \in network' : SoundMessage(msg)
  PROVE  CostInv'
<1>1. nodes \in Seq([key : Node, gateway : Node, cost : Nat])
  BY SoundSeqIsEntries
<1>2. clusters \in Seq([key : Cluster, gateway : Node, cost : Nat])
  BY SoundSeqIsEntries
<1> QED
  BY <1>1, <1>2 DEF CostInv

LEMMA NextCost == CostInv /\ [Next]_vars => CostInv'
<1> SUFFICES ASSUME CostInv, [Next]_vars PROVE CostInv'
  OBVIOUS
<1>1. ASSUME NEW n \in Node, Receive(n)
      PROVE  CostInv'
  <2>1. PICK msg \in network : msg.to = n /\ (Ignore(n, msg) \/ Handle(n, msg))
    BY <1>1 DEF Receive
  <2>2. CASE Ignore(n, msg)
    BY <2>2 DEF Ignore, CostInv
  <2>3. CASE Handle(n, msg)
    <3>1. /\ nodeCache' = [nodeCache EXCEPT ![n] = NodesHeard(n, msg)]
          /\ clusterCache' = [clusterCache EXCEPT ![n] = ClustersHeard(n, msg)]
      BY <2>3 DEF Handle, Hear
    <3>2. /\ NodesHeard(n, msg) \in Seq(Sound(n, Node))
          /\ ClustersHeard(n, msg) \in Seq(Sound(n, Cluster))
      BY <2>1, EntrySound DEF CostInv
    <3>3. (\A sent \in network' : SoundMessage(sent)) /\ generated' \in [Node -> Nat]
      BY <2>1, <2>3, HandleSends
    <3> QED
      BY <3>1, <3>2, <3>3, CachesKept
  <2> QED
    BY <2>1, <2>2, <2>3
<1>2. ASSUME NEW n \in Node, Expire(n)
      PROVE  CostInv'
  <2>1. \A i \in DOMAIN nodeCache[n] : RemoveAt(nodeCache[n], i) \in Seq(Sound(n, Node))
    BY RemoveSound DEF CostInv
  <2>2. \A i \in DOMAIN clusterCache[n] :
          RemoveAt(clusterCache[n], i) \in Seq(Sound(n, Cluster))
    BY RemoveSound DEF CostInv
  <2>3. /\ nodeCache[n] \in Seq(Sound(n, Node)) /\ clusterCache[n] \in Seq(Sound(n, Cluster))
        /\ nodeCache = [nodeCache EXCEPT ![n] = nodeCache[n]]
        /\ clusterCache = [clusterCache EXCEPT ![n] = clusterCache[n]]
    BY DEF CostInv
  <2>4. generated' \in [Node -> Nat] /\ \A msg \in network' : SoundMessage(msg)
    BY <1>2 DEF Expire, CostInv
  <2>5. PICK nodes \in Seq(Sound(n, Node)) :
          nodeCache' = [nodeCache EXCEPT ![n] = nodes]
    BY <1>2, <2>1, <2>3 DEF Expire
  <2>6. PICK clusters \in Seq(Sound(n, Cluster)) :
          clusterCache' = [clusterCache EXCEPT ![n] = clusters]
    BY <1>2, <2>2, <2>3 DEF Expire
  <2> QED
    BY <2>4, <2>5, <2>6, CachesKept
<1>3. ASSUME NEW n \in Node, NEW d \in Wanted[n], NEW k \in 1..MaxCalls, Resolve(n, d, k)
      PROVE  CostInv'
  <2> DEFINE request(i) == [type |-> "request", id |-> NewId(n, i), cost |-> 0,
                            source |-> n, target |-> d]
  <2>1. d \in Destination /\ IsTarget(d)
    BY WantedAssumption DEF IsTarget, Destination
  <2>2. ASSUME NEW i \in 1..k
        PROVE  \A msg \in Flooded(n, n, request(i)) : SoundMessage(msg)
    <3>1. NewId(n, i) \in Id
      BY DEF NewId, Id, CostInv
    <3>2. request(i) \in SoundFrame
      BY <2>1, <3>1 DEF SoundFrame
    <3>3. FrameStart(request(i)) = AsDestination(n) /\ request(i).cost = 0
      BY DEF FrameStart
    <3>4. NoNearer(n, FrameStart(request(i)), request(i).cost)
      BY <3>3, NoNearerSelf
    <3> HIDE DEF request
    <3> QED
      BY <3>2, <3>4, FloodSound
  <2>3. CASE UNCHANGED <<generated, requests, network>>
    BY <1>3, <2>3 DEF Resolve, CostInv
  <2>4. CASE /\ generated' = [generated EXCEPT ![n] = @ + k]
             /\ network' = network \cup UNION {Flooded(n, n, request(i)) : i \in 1..k}
    <3>1. k \in Nat
      BY LimitsAssumption
    <3>2. generated' \in [Node -> Nat]
      BY <2>4, <3>1 DEF CostInv
    <3>3. \A msg \in network : SoundMessage(msg)
      BY DEF CostInv
    <3> HIDE DEF request
    <3>4. \A msg \in network' : SoundMessage(msg)
      BY <2>2, <2>4, <3>3
    <3> QED
      BY <1>3, <3>2, <3>4 DEF Resolve, CostInv
  <2> QED
    BY <1>3, <2>3, <2>4 DEF Resolve
<1>4. ASSUME NEW n \in Node, NEW d \in Wanted[n],
             FirstResponseTimeout(n, d) \/ BetterResponseTimeout(n, d)
      PROVE  CostInv'
  BY <1>4 DEF FirstResponseTimeout, BetterResponseTimeout, Conclude, CostInv
<1>5. ASSUME NEW msg \in network, Lose(msg)
      PROVE  CostInv'
  BY <1>5 DEF Lose, CostInv
<1>6. CASE UNCHANGED vars
  BY <1>6 DEF vars, CostInv
<1> QED
  BY <1>1, <1>2, <1>3, <1>4, <1>5, <1>6 DEF Next

(* CostInv holds in every state, whatever the network, the limits of the    *)
(* caches and the order in which frames arrive.                             *)
THEOREM CostsAreSound == Spec => []CostInv
<1>1. Init => CostInv
  BY InitCost
<1>2. CostInv /\ [Next]_vars => CostInv'
  BY NextCost
<1> QED
  BY <1>1, <1>2, PTL DEF Spec

LEMMA SoundEntries ==
  CostInv => NoUnderestimate /\ NoClusterUnderestimate
<1>1. ASSUME NEW n \in Node, NEW keys, NEW entries \in Seq(Sound(n, keys)),
             NEW i \in DOMAIN entries
      PROVE  NotNearerThanItIs(n, entries[i])
  <2>1. entries[i] \in Sound(n, keys)
    OBVIOUS
  <2> QED
    BY <2>1 DEF Sound
<1> QED
  BY <1>1 DEF CostInv, NoUnderestimate, NoClusterUnderestimate

(* No node caches a gateway to a node at a cost that understates the way    *)
(* through that gateway: calculateTotalCost, repeat, reply and replyByCache *)
(* add up, and loss, expiry, eviction, floods that meet and replies that go *)
(* astray never lower a cost.                                               *)
THEOREM CostsAreNoUnderestimates == Spec => []NoUnderestimate
  BY SoundEntries, CostsAreSound, PTL

(* Nor does it cache one to a cluster, whose nearest node the frames may    *)
(* come from.                                                               *)
THEOREM ClusterCostsAreNoUnderestimates == Spec => []NoClusterUnderestimate
  BY SoundEntries, CostsAreSound, PTL

-----------------------------------------------------------------------------
(* Type correctness.  That costs are numbers is known from CostInv; the     *)
(* stores are functions of the nodes.                                       *)

StoresInv ==
  /\ requests = [n \in Node |-> requests[n]]
  /\ calls = [n \in Node |-> calls[n]]
  /\ answer = [n \in Node |-> answer[n]]

CachesOK ==
  /\ nodeCache \in [Node -> Seq(Entry(Node))]
  /\ clusterCache \in [Node -> Seq(Entry(Cluster))]
  /\ \A n \in Node : /\ Len(nodeCache[n]) <= MaxCacheEntries
                     /\ Len(clusterCache[n]) <= MaxCacheEntries

SeenOK ==
  /\ seen \in [Node -> Seq(Id)]
  /\ generated \in [Node -> Nat]
  /\ \A n \in Node : Len(seen[n]) <= MaxCacheSize

Response == [gateway : Node, cost : 0..MaxCost]

StoreOK(n) ==
  /\ DOMAIN requests[n] \subseteq Wanted[n]
  /\ \A d \in DOMAIN requests[n] : requests[n][d] \in {NoResponse} \cup Response
  /\ calls[n] \in [Wanted[n] -> 0..MaxCalls]
  /\ answer[n] \in [Wanted[n] -> {"none", "pending", "unreachable"} \cup Node]

StoresOK == \A n \in Node : StoreOK(n)

LEMMA TypeParts ==
  /\ TypeOK <=> SeenOK /\ CachesOK /\ network \subseteq Message /\ StoresOK
  /\ TypeOK' <=> SeenOK' /\ CachesOK' /\ network' \subseteq Message /\ StoresOK'
BY DEF TypeOK, SeenOK, CachesOK, StoresOK, StoreOK, Response

LEMMA PutLength ==
  ASSUME NEW S, NEW entries \in Seq(S), Len(entries) <= MaxCacheEntries,
         NEW key, NEW gateway, NEW cost,
         [key |-> key, gateway |-> gateway, cost |-> cost] \in S
  PROVE  Len(Put(entries, key, gateway, cost)) <= MaxCacheEntries
<1> DEFINE entry == [key |-> key, gateway |-> gateway, cost |-> cost]
           added == IF key \in Keys(entries)
                    THEN [i \in DOMAIN entries |->
                            IF entries[i].key = key THEN entry ELSE entries[i]]
                    ELSE Append(entries, entry)
<1>1. added \in Seq(S) /\ Len(added) <= Len(entries) + 1
  <2>1. CASE key \in Keys(entries)
    <3>1. \A i \in DOMAIN entries : added[i] \in S
      BY <2>1
    <3>2. added = [i \in 1..Len(entries) |-> added[i]] /\ DOMAIN added = 1..Len(entries)
      BY <2>1
    <3>3. added \in Seq(S)
      BY <3>1, <3>2
    <3> HIDE DEF added
    <3>4. Len(added) = Len(entries)
      BY <3>2, <3>3
    <3> QED
      BY <3>3, <3>4
  <2>2. CASE key \notin Keys(entries)
    BY <2>2
  <2> QED
    BY <2>1, <2>2
<1>2. MaxCacheEntries \in Nat \ {0}
  BY LimitsAssumption
<1> HIDE DEF added
<1>3. Len(added) > MaxCacheEntries => Len(Tail(added)) <= MaxCacheEntries
  BY <1>1, <1>2
<1>4. Put(entries, key, gateway, cost) = IF Len(added) > MaxCacheEntries THEN Tail(added) ELSE added
  BY DEF Put, added
<1> QED
  BY <1>1, <1>2, <1>3, <1>4

LEMMA RemoveLength ==
  ASSUME NEW S, NEW entries \in Seq(S), Len(entries) <= MaxCacheEntries,
         NEW i \in DOMAIN entries
  PROVE  Len(RemoveAt(entries, i)) <= MaxCacheEntries
<1>1. i \in 1..Len(entries) /\ Len(entries) \in Nat /\ MaxCacheEntries \in Nat
  BY LimitsAssumption
<1>2. /\ SubSeq(entries, 1, i - 1) \in Seq(S)
      /\ SubSeq(entries, i + 1, Len(entries)) \in Seq(S)
      /\ Len(SubSeq(entries, 1, i - 1)) = i - 1
      /\ Len(SubSeq(entries, i + 1, Len(entries))) = Len(entries) - i
  BY <1>1
<1>3. PICK before \in Seq(S), after \in Seq(S) :
        /\ before = SubSeq(entries, 1, i - 1) /\ after = SubSeq(entries, i + 1, Len(entries))
        /\ Len(before) = i - 1 /\ Len(after) = Len(entries) - i
  BY <1>2, Zenon
<1>4. RemoveAt(entries, i) = before \o after
  BY <1>3, Zenon DEF RemoveAt
<1>5. Len(before \o after) = Len(before) + Len(after)
  OBVIOUS
<1>6. Len(RemoveAt(entries, i)) = Len(before) + Len(after)
  BY <1>4, <1>5, Zenon
<1> HIDE <1>2, <1>4, <1>5
<1>7. Len(RemoveAt(entries, i)) = Len(entries) - 1
  <2>1. Len(before) = i - 1 /\ Len(after) = Len(entries) - i
    BY <1>3, Zenon
  <2> QED
    BY <1>1, <1>6, <2>1
<1> QED
  BY <1>1, <1>7

LEMMA InsertAny ==
  ASSUME NEW S, NEW cache \in Seq(S), NEW id \in S, Len(cache) <= MaxCacheSize
  PROVE  /\ InsertId(cache, id, MaxCacheSize) \in Seq(S)
         /\ Len(InsertId(cache, id, MaxCacheSize)) <= MaxCacheSize
<1>1. Append(cache, id) \in Seq(S) /\ Len(Append(cache, id)) = Len(cache) + 1
  OBVIOUS
<1>2. MaxCacheSize \in Nat \ {0} /\ Len(cache) \in Nat
  BY LimitsAssumption
<1>3. Len(cache) = MaxCacheSize =>
        /\ Tail(Append(cache, id)) \in Seq(S)
        /\ Len(Tail(Append(cache, id))) = MaxCacheSize
  BY <1>1, <1>2
<1> QED
  BY <1>1, <1>2, <1>3 DEF InsertId

(* What is cached of a frame that is not too far. *)
LEMMA HeardType ==
  ASSUME TypeOK, CostInv, NEW n \in Node, NEW msg \in network, msg.to = n,
         TotalCost(n, msg) <= MaxCost
  PROVE  /\ NodesHeard(n, msg) \in Seq(Entry(Node))
         /\ Len(NodesHeard(n, msg)) <= MaxCacheEntries
         /\ ClustersHeard(n, msg) \in Seq(Entry(Cluster))
         /\ Len(ClustersHeard(n, msg)) <= MaxCacheEntries
         /\ Repeat(n, msg) \in Frame
<1> DEFINE start == FrameStart(msg.frame)
<1>1. msg \in Message /\ CachesOK
  BY TypeParts
<1>2. /\ start.node \in Node \cup {Broadcast}
      /\ start.cluster \in Cluster \cup {NoCluster}
  BY <1>1, GraphAssumption DEF Message, Frame, FrameStart, AsDestination, Destination
<1>3. TotalCost(n, msg) \in 0..MaxCost
  <2>1. TotalCost(n, msg) \in Nat /\ MaxCost \in Nat
    BY HeardSound, LimitsAssumption DEF CostInv
  <2> QED
    BY <2>1
<1>4. ASSUME NEW keys, NEW key \in keys
      PROVE  [key |-> key, gateway |-> msg.from, cost |-> TotalCost(n, msg)] \in Entry(keys)
  BY <1>1, <1>3 DEF Message, Entry
<1>5. NodesHeard(n, msg) \in Seq(Entry(Node)) /\ Len(NodesHeard(n, msg)) <= MaxCacheEntries
  BY <1>1, <1>2, <1>4, PutSound, PutLength DEF NodesHeard, CachesOK
<1>6. ClustersHeard(n, msg) \in Seq(Entry(Cluster)) /\ Len(ClustersHeard(n, msg)) <= MaxCacheEntries
  BY <1>1, <1>2, <1>4, PutSound, PutLength DEF ClustersHeard, CachesOK
<1>7. Repeat(n, msg) \in Frame
  BY <1>1, <1>3 DEF Repeat, Message, Frame
<1> QED
  BY <1>5, <1>6, <1>7

LEMMA SendType ==
  ASSUME NEW n \in Node, NEW frame,
         frame.cost <= MaxCost => frame \in Frame
  PROVE  /\ \A to : Unicast(n, to, frame) \subseteq Message
         /\ \A ignore : Flooded(n, ignore, frame) \subseteq Message
<1>1. \A to : Unicast(n, to, frame) \subseteq Message
  BY DEF Unicast, Message, Neighbors
<1> QED
  BY <1>1 DEF Flooded

LEMMA ReplyType ==
  ASSUME TypeOK, NEW n \in Node, NEW msg \in network, NEW cost \in Nat
  PROVE  \A to : Unicast(n, to, Reply(n, msg, cost)) \subseteq Message
<1>1. NewId(n, 1) \in Id
  BY DEF NewId, Id, TypeOK
<1>2. msg \in Message /\ MaxCost \in Nat
  BY LimitsAssumption DEF TypeOK
<1>3. Reply(n, msg, cost).cost = cost
  BY <1>2 DEF Reply, Message, Frame
<1>4. ASSUME cost <= MaxCost PROVE Reply(n, msg, cost) \in Frame
  <2>1. cost \in 0..MaxCost /\ msg.frame \in Frame
    BY <1>2, <1>4 DEF Message
  <2> QED
    BY <1>1, <2>1 DEF Reply, Frame
<1> QED
  BY <1>3, <1>4, SendType

LEMMA HandleType ==
  ASSUME TypeOK, CostInv, StoresInv, NEW n \in Node, NEW msg \in network,
         msg.to = n, Handle(n, msg)
  PROVE  TypeOK' /\ StoresInv'
<1>1. msg \in Message /\ SoundMessage(msg) /\ msg.from \in Node
  BY DEF TypeOK, CostInv, Message
<1>2. TotalCost(n, msg) <= MaxCost /\ TotalCost(n, msg) \in Nat
  BY <1>1, HeardSound DEF Handle, Hear, IsNew
<1>3. CachesOK'
  <2>1. /\ nodeCache' = [nodeCache EXCEPT ![n] = NodesHeard(n, msg)]
        /\ clusterCache' = [clusterCache EXCEPT ![n] = ClustersHeard(n, msg)]
    BY DEF Handle, Hear
  <2> QED
    BY <1>2, <2>1, HeardType, TypeParts DEF CachesOK
<1>4. seen' \in [Node -> Seq(Id)] /\ \A m \in Node : Len(seen'[m]) <= MaxCacheSize
  <2>1. seen' = [seen EXCEPT ![n] = InsertId(seen[n], msg.frame.id, MaxCacheSize)]
    BY DEF Handle, Hear, Insert
  <2>2. msg.frame.id \in Id
    BY <1>1 DEF Message, Frame
  <2>3. /\ InsertId(seen[n], msg.frame.id, MaxCacheSize) \in Seq(Id)
        /\ Len(InsertId(seen[n], msg.frame.id, MaxCacheSize)) <= MaxCacheSize
    BY <2>2, InsertAny, TypeParts DEF SeenOK
  <2> QED
    BY <2>1, <2>3, TypeParts DEF SeenOK
<1>5. ASSUME NEW sent, SendInstead(msg, sent), sent \subseteq Message
      PROVE  network' \subseteq Message
  BY <1>5 DEF SendInstead, TypeOK
<1>6. ASSUME NEW sent, Pass(n, msg, sent), sent \subseteq Message
      PROVE  /\ network' \subseteq Message /\ generated' \in [Node -> Nat]
             /\ StoresOK' /\ StoresInv'
  <2>1. UNCHANGED <<generated, requests, calls, answer>>
    BY <1>6 DEF Pass, storeVars
  <2> QED
    BY <1>5, <1>6, <2>1, TypeParts DEF Pass, SeenOK, StoresOK, StoreOK, StoresInv
<1>7. ASSUME NEW cost \in Nat, NEW to, SendReply(n, msg, cost, to)
      PROVE  /\ network' \subseteq Message /\ generated' \in [Node -> Nat]
             /\ StoresOK' /\ StoresInv'
  <2>1. /\ UNCHANGED <<requests, calls, answer>>
        /\ generated' = [generated EXCEPT ![n] = @ + 1]
        /\ SendInstead(msg, Unicast(n, to, Reply(n, msg, cost)))
    BY <1>7 DEF SendReply, storeVars
  <2>2. network' \subseteq Message
    BY <1>5, <2>1, ReplyType
  <2> QED
    BY <2>1, <2>2, TypeParts DEF SeenOK, StoresOK, StoreOK, StoresInv
<1>8. /\ \A to : Unicast(n, to, Repeat(n, msg)) \subseteq Message
      /\ \A ignore : Flooded(n, ignore, Repeat(n, msg)) \subseteq Message
  BY <1>2, HeardType, SendType
<1>9. /\ network' \subseteq Message /\ generated' \in [Node -> Nat]
      /\ StoresOK' /\ StoresInv'
  <2>1. CASE AnswerRequest(n, msg)
    BY <1>7, <2>1 DEF AnswerRequest
  <2>2. CASE TakeResponse(n, msg)
    <3> DEFINE taken == [d \in DOMAIN requests[n] |->
                 IF d = msg.frame.target /\ msg.frame.cost < requests[n][d].cost
                 THEN [gateway |-> msg.from, cost |-> msg.frame.cost] ELSE requests[n][d]]
    <3>1. /\ requests' = [requests EXCEPT ![n] = taken]
          /\ network' = network \ {msg} /\ UNCHANGED <<generated, calls, answer>>
      BY <2>2 DEF TakeResponse
    <3>2. StoreOK(n)
      BY TypeParts DEF StoresOK
    <3>3. [gateway |-> msg.from, cost |-> msg.frame.cost] \in Response
      BY <1>1 DEF Message, Frame, Response
    <3>4. /\ DOMAIN taken = DOMAIN requests[n]
          /\ \A d \in DOMAIN requests[n] : taken[d] \in {NoResponse} \cup Response
      BY <3>2, <3>3 DEF StoreOK
    <3> HIDE DEF taken
    <3>5. /\ requests'[n] = taken /\ \A m \in Node : m # n => requests'[m] = requests[m]
          /\ requests' = [m \in Node |-> requests'[m]]
      BY <3>1 DEF StoresInv
    <3>6. StoresOK'
      <4>1. ASSUME NEW m \in Node PROVE StoreOK(m)'
        <5>1. StoreOK(m)
          BY TypeParts DEF StoresOK
        <5> QED
          BY <3>1, <3>2, <3>4, <3>5, <5>1 DEF StoreOK
      <4> QED
        BY <4>1 DEF StoresOK
    <3> QED
      BY <3>1, <3>5, <3>6, TypeParts DEF StoresInv, SeenOK
  <2>3. CASE FollowStatic(n, msg)
    BY <1>6, <1>8, <2>3 DEF FollowStatic
  <2>4. CASE AnswerFromCache(n, msg)
    <3> DEFINE cache == Lookup(NodesHeard(n, msg), msg.frame.target.node)
    <3>1. /\ Rule(n, msg) = "node cache" /\ IsRequest(msg)
          /\ SendReply(n, msg, cache.cost, cache.gateway)
      BY <2>4 DEF AnswerFromCache
    <3>2. msg.frame.target.node \in Keys(NodesHeard(n, msg))
      BY <3>1 DEF Rule, IsRequest, FrameDestination
    <3>3. cache \in Entry(Node)
      BY <1>2, <3>2, HeardType, LookupSound
    <3>4. cache.cost \in Nat
      BY <3>3, LimitsAssumption DEF Entry
    <3> QED
      BY <1>7, <3>1, <3>4
  <2>5. CASE AnswerForNeighbor(n, msg)
    <3>1. /\ Rule(n, msg) = "neighbor" /\ IsRequest(msg)
          /\ SendReply(n, msg, Link[<<n, msg.frame.target.node>>] + NodeCost[n], msg.from)
      BY <2>5 DEF AnswerForNeighbor
    <3>2. msg.frame.target.node \in Neighbors(n)
      BY <3>1 DEF Rule, IsRequest, FrameDestination
    <3>3. Link[<<n, msg.frame.target.node>>] + NodeCost[n] \in Nat
      <4>1. Link[<<n, msg.frame.target.node>>] \in Nat /\ NodeCost[n] \in Nat
        BY <3>2, LinkIsNat
      <4> QED
        BY <4>1
    <3> QED
      BY <1>7, <3>1, <3>3
  <2>6. CASE RelayResponse(n, msg)
    BY <1>6, <1>8, <2>6 DEF RelayResponse
  <2>7. CASE FollowCluster(n, msg)
    BY <1>6, <1>8, <2>7 DEF FollowCluster
  <2>8. CASE Flood(n, msg)
    BY <1>6, <1>8, <2>8 DEF Flood
  <2> QED
    BY <2>1, <2>2, <2>3, <2>4, <2>5, <2>6, <2>7, <2>8 DEF Handle
<1> QED
  BY <1>3, <1>4, <1>9, TypeParts DEF SeenOK

(* What a lookup may find. *)
LEMMA KnownType ==
  ASSUME TypeOK, NEW n \in Node, NEW d \in Wanted[n]
  PROVE  Known(n, d) \in {ByDiscovery, Abort} \cup Node
<1>1. d \in Destination /\ CachesOK
  BY WantedAssumption, TypeParts
<1>2. StaticRoute(n, d) \in {ByDiscovery, Abort} \cup Node
  BY <1>1, RoutesAssumption
<1>3. d.node \in Keys(nodeCache[n]) => Lookup(nodeCache[n], d.node).gateway \in Node
  <2>1. d.node \in Keys(nodeCache[n]) => Lookup(nodeCache[n], d.node) \in Entry(Node)
    BY <1>1, LookupSound DEF CachesOK
  <2> QED
    BY <2>1 DEF Entry
<1> QED
  BY <1>2, <1>3 DEF Known, Neighbors

LEMMA ResolveType ==
  ASSUME TypeOK, StoresInv, NEW n \in Node, NEW d \in Wanted[n],
         NEW k \in 1..MaxCalls, Resolve(n, d, k)
  PROVE  TypeOK' /\ StoresInv'
<1> DEFINE found == CASE Known(n, d) = ByDiscovery -> "pending"
                      [] Known(n, d) = Abort -> "unreachable"
                      [] OTHER -> Known(n, d)
           request(i) == [type |-> "request", id |-> NewId(n, i), cost |-> 0,
                          source |-> n, target |-> d]
<1>1. k \in Nat /\ MaxCalls \in Nat /\ MaxCost \in Nat /\ d \in Destination
  BY LimitsAssumption, WantedAssumption
<1>2. /\ calls' = [calls EXCEPT ![n][d] = @ + k] /\ calls[n][d] + k <= MaxCalls
      /\ answer' = [answer EXCEPT ![n][d] = found]
      /\ UNCHANGED <<seen, nodeCache, clusterCache>>
  BY DEF Resolve
<1>3. found \in {"none", "pending", "unreachable"} \cup Node
  BY KnownType
<1> HIDE DEF found
<1>4. StoreOK(n) /\ \A m \in Node : StoreOK(m)
  BY TypeParts DEF StoresOK
<1>5. /\ calls' = [m \in Node |-> calls'[m]] /\ answer' = [m \in Node |-> answer'[m]]
      /\ calls'[n] = [calls[n] EXCEPT ![d] = @ + k]
      /\ answer'[n] = [answer[n] EXCEPT ![d] = found]
      /\ \A m \in Node : m # n => calls'[m] = calls[m] /\ answer'[m] = answer[m]
  BY <1>2 DEF StoresInv
<1>6. calls'[n] \in [Wanted[n] -> 0..MaxCalls]
  <2>1. calls[n] \in [Wanted[n] -> 0..MaxCalls] /\ calls[n][d] + k \in 0..MaxCalls
    BY <1>1, <1>2, <1>4 DEF StoreOK
  <2> QED
    BY <1>5, <2>1
<1>7. answer'[n] \in [Wanted[n] -> {"none", "pending", "unreachable"} \cup Node]
  BY <1>3, <1>4, <1>5 DEF StoreOK
<1>8. /\ network' \subseteq Message /\ generated' \in [Node -> Nat]
      /\ requests' = [m \in Node |-> requests'[m]]
      /\ \A m \in Node : m # n => requests'[m] = requests[m]
      /\ DOMAIN requests'[n] \subseteq Wanted[n]
      /\ \A o \in DOMAIN requests'[n] : requests'[n][o] \in {NoResponse} \cup Response
  <2>1. CASE UNCHANGED <<generated, requests, network>>
    BY <1>4, <2>1, TypeParts DEF StoresInv, StoreOK, SeenOK
  <2>2. CASE /\ requests' = [requests EXCEPT ![n] =
                  [o \in DOMAIN @ \cup {d} |-> IF o = d THEN NoResponse ELSE @[o]]]
             /\ generated' = [generated EXCEPT ![n] = @ + k]
             /\ network' = network \cup UNION {Flooded(n, n, request(i)) : i \in 1..k}
    <3> DEFINE added == [o \in DOMAIN requests[n] \cup {d} |->
                           IF o = d THEN NoResponse ELSE requests[n][o]]
    <3>1. /\ DOMAIN added \subseteq DOMAIN requests[n] \cup {d}
          /\ \A o \in DOMAIN added : added[o] = NoResponse \/ (o \in DOMAIN requests[n] /\ added[o] = requests[n][o])
      OBVIOUS
    <3> HIDE DEF added
    <3>2. /\ requests'[n] = added
          /\ requests' = [m \in Node |-> requests'[m]]
          /\ \A m \in Node : m # n => requests'[m] = requests[m]
      BY <2>2 DEF StoresInv, added
    <3>3. \A i \in 1..k : Flooded(n, n, request(i)) \subseteq Message
      <4>1. SUFFICES ASSUME NEW i \in 1..k PROVE request(i) \in Frame
        BY SendType
      <4>2. NewId(n, i) \in Id
        BY TypeParts DEF NewId, Id, SeenOK
      <4> QED
        BY <1>1, <4>2 DEF Frame
    <3>4. network' \subseteq Message
      BY <2>2, <3>3, TypeParts
    <3>5. generated' \in [Node -> Nat]
      BY <1>1, <2>2, TypeParts DEF SeenOK
    <3> QED
      BY <1>4, <3>1, <3>2, <3>4, <3>5 DEF StoreOK
  <2> QED
    BY <2>1, <2>2 DEF Resolve
<1>9. ASSUME NEW m \in Node PROVE StoreOK(m)'
  BY <1>4, <1>5, <1>6, <1>7, <1>8 DEF StoreOK
<1> QED
  BY <1>2, <1>5, <1>8, <1>9, TypeParts DEF SeenOK, CachesOK, StoresOK, StoresInv

LEMMA ConcludeType ==
  ASSUME TypeOK, StoresInv, NEW n \in Node, NEW d \in Wanted[n],
         NEW outcome \in {"none", "pending", "unreachable"} \cup Node,
         Conclude(n, d, outcome)
  PROVE  TypeOK' /\ StoresInv'
<1>1. /\ answer' = [answer EXCEPT ![n][d] = outcome]
      /\ requests' = [requests EXCEPT ![n] = [o \in DOMAIN @ \ {d} |-> @[o]]]
      /\ UNCHANGED <<seen, generated, nodeCache, clusterCache, calls, network>>
  BY DEF Conclude
<1>2. /\ answer' = [m \in Node |-> answer'[m]] /\ requests' = [m \in Node |-> requests'[m]]
      /\ answer'[n] = [answer[n] EXCEPT ![d] = outcome]
      /\ requests'[n] = [o \in DOMAIN requests[n] \ {d} |-> requests[n][o]]
      /\ \A m \in Node : m # n => requests'[m] = requests[m] /\ answer'[m] = answer[m]
  BY <1>1 DEF StoresInv
<1>3. ASSUME NEW m \in Node PROVE StoreOK(m)'
  <2>1. StoreOK(m)
    BY TypeParts DEF StoresOK
  <2> QED
    BY <1>1, <1>2, <2>1 DEF StoreOK
<1> QED
  BY <1>1, <1>2, <1>3, TypeParts DEF SeenOK, CachesOK, StoresOK, StoresInv

LEMMA InitType == Init => TypeOK /\ StoresInv
<1> SUFFICES ASSUME Init PROVE TypeOK /\ StoresInv
  OBVIOUS
<1>1. MaxCalls \in Nat /\ MaxCacheSize \in Nat /\ MaxCacheEntries \in Nat
  BY LimitsAssumption
<1>2. SeenOK /\ CachesOK /\ network \subseteq Message
  BY <1>1 DEF Init, SeenOK, CachesOK
<1>3. \A n \in Node : StoreOK(n)
  BY <1>1 DEF Init, StoreOK
<1>4. StoresInv
  BY DEF Init, StoresInv
<1> QED
  BY <1>2, <1>3, <1>4, TypeParts DEF StoresOK

LEMMA NextType == TypeOK /\ CostInv /\ StoresInv /\ [Next]_vars => TypeOK' /\ StoresInv'
<1> SUFFICES ASSUME TypeOK, CostInv, StoresInv, [Next]_vars PROVE TypeOK' /\ StoresInv'
  OBVIOUS
<1>1. ASSUME UNCHANGED <<requests, calls, answer>>
      PROVE  StoresOK' /\ StoresInv'
  BY <1>1, TypeParts DEF StoresOK, StoreOK, StoresInv
<1>2. ASSUME NEW n \in Node, NEW msg \in network, msg.to = n, Ignore(n, msg)
      PROVE  TypeOK' /\ StoresInv'
  <2>1. /\ seen' = [seen EXCEPT ![n] = InsertId(seen[n], msg.frame.id, MaxCacheSize)]
        /\ network' = network \ {msg}
        /\ UNCHANGED <<generated, nodeCache, clusterCache, requests, calls, answer>>
    BY <1>2 DEF Ignore, Insert, storeVars
  <2>2. msg.frame.id \in Id
    BY DEF TypeOK, Message, Frame
  <2>3. /\ InsertId(seen[n], msg.frame.id, MaxCacheSize) \in Seq(Id)
        /\ Len(InsertId(seen[n], msg.frame.id, MaxCacheSize)) <= MaxCacheSize
    BY <2>2, InsertAny, TypeParts DEF SeenOK
  <2>4. SeenOK'
    BY <2>1, <2>3, TypeParts DEF SeenOK
  <2>5. CachesOK' /\ network' \subseteq Message
    BY <2>1, TypeParts DEF CachesOK
  <2> QED
    BY <1>1, <2>1, <2>4, <2>5, TypeParts
<1>3. ASSUME NEW n \in Node, Receive(n)
      PROVE  TypeOK' /\ StoresInv'
  BY <1>2, <1>3, HandleType DEF Receive
<1>4. ASSUME NEW n \in Node, Expire(n)
      PROVE  TypeOK' /\ StoresInv'
  <2>1. UNCHANGED <<seen, generated, requests, calls, answer, network>>
    BY <1>4 DEF Expire, storeVars
  <2>2. SeenOK' /\ network' \subseteq Message
    BY <2>1, TypeParts DEF SeenOK
  <2>3. CachesOK'
    <3>1. CachesOK
      BY TypeParts
    <3>2. ASSUME NEW i \in DOMAIN nodeCache[n]
          PROVE  /\ RemoveAt(nodeCache[n], i) \in Seq(Entry(Node))
                 /\ Len(RemoveAt(nodeCache[n], i)) <= MaxCacheEntries
      BY <3>1, RemoveSound, RemoveLength DEF CachesOK
    <3>3. ASSUME NEW i \in DOMAIN clusterCache[n]
          PROVE  /\ RemoveAt(clusterCache[n], i) \in Seq(Entry(Cluster))
                 /\ Len(RemoveAt(clusterCache[n], i)) <= MaxCacheEntries
      BY <3>1, RemoveSound, RemoveLength DEF CachesOK
    <3>4. CASE \E i \in DOMAIN nodeCache[n] :
                 /\ nodeCache' = [nodeCache EXCEPT ![n] = RemoveAt(@, i)]
                 /\ UNCHANGED clusterCache
      BY <3>1, <3>2, <3>4 DEF CachesOK
    <3>5. CASE \E i \in DOMAIN clusterCache[n] :
                 /\ clusterCache' = [clusterCache EXCEPT ![n] = RemoveAt(@, i)]
                 /\ UNCHANGED nodeCache
      BY <3>1, <3>3, <3>5 DEF CachesOK
    <3> QED
      BY <1>4, <3>4, <3>5 DEF Expire
  <2> QED
    BY <1>1, <2>1, <2>2, <2>3, TypeParts
<1>5. ASSUME NEW n \in Node, NEW d \in Wanted[n], FirstResponseTimeout(n, d)
      PROVE  TypeOK' /\ StoresInv'
  BY <1>5, ConcludeType DEF FirstResponseTimeout
<1>6. ASSUME NEW n \in Node, NEW d \in Wanted[n], BetterResponseTimeout(n, d)
      PROVE  TypeOK' /\ StoresInv'
  <2>1. d \in DOMAIN requests[n] /\ requests[n][d] # NoResponse
    BY <1>6 DEF BetterResponseTimeout, Asking
  <2>2. requests[n][d].gateway \in Node
    BY <2>1, TypeParts DEF StoresOK, StoreOK, Response
  <2> QED
    BY <1>6, <2>2, ConcludeType DEF BetterResponseTimeout
<1>7. ASSUME NEW msg \in network, Lose(msg)
      PROVE  TypeOK' /\ StoresInv'
  <2>1. /\ network' = network \ {msg}
        /\ UNCHANGED <<seen, generated, nodeCache, clusterCache, requests, calls, answer>>
    BY <1>7 DEF Lose, storeVars
  <2>2. SeenOK' /\ CachesOK' /\ network' \subseteq Message
    BY <2>1, TypeParts DEF SeenOK, CachesOK
  <2> QED
    BY <1>1, <2>1, <2>2, TypeParts
<1>8. CASE UNCHANGED vars
  <2>1. UNCHANGED <<seen, generated, nodeCache, clusterCache, requests, calls, answer, network>>
    BY <1>8 DEF vars, storeVars
  <2>2. SeenOK' /\ CachesOK' /\ network' \subseteq Message
    BY <2>1, TypeParts DEF SeenOK, CachesOK
  <2> QED
    BY <1>1, <2>1, <2>2, TypeParts
<1> QED
  BY <1>3, <1>4, <1>5, <1>6, <1>7, <1>8, ResolveType DEF Next

(* Every variable keeps its shape and no cache outgrows its limit, whatever *)
(* the network, the static routes and the order in which frames arrive.     *)
THEOREM DiscoveryTypeCorrect == Spec => []TypeOK
<1>1. Init => TypeOK /\ StoresInv
  BY InitType
<1>2. TypeOK /\ CostInv /\ StoresInv /\ [Next]_vars => TypeOK' /\ StoresInv'
  BY NextType
<1> QED
  BY <1>1, <1>2, CostsAreSound, PTL DEF Spec
=============================================================================
