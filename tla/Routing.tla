------------------------------- MODULE Routing -------------------------------
(***************************************************************************)
(* RoutingSocket (ts-core/src/net/routing) at every node of a network whose*)
(* neighbor tables are complete and do not change: a unicast goes from     *)
(* gateway to gateway, a broadcast is flooded, and a multicast travels     *)
(* like a unicast until it reaches its cluster, where it is flooded.  A    *)
(* node knows the frames it has sent and the frames it has received by     *)
(* their ids, and remembers a few of each.                                 *)
(*                                                                         *)
(* The handler of a received frame awaits the local node's record, which   *)
(* has long been there: no frame arrives in between.  It may then await    *)
(* discovery for long: such frames are in waiting.                         *)
(***************************************************************************)
EXTENDS FrameIdCache, Naturals, Bags, BagsExt

CONSTANTS
  Node, Cluster,
  Broadcast,     \* NodeId.broadcast()
  Loopback,      \* NodeId.loopback()
  NoCluster,     \* ClusterId.noCluster()
  ClusterOf,     \* the cluster of each node
  Neighbors,     \* the neighbors of each node, other than itself
  Gateways,      \* what discovery may answer at a node for a destination
  IdsOf,         \* the ids that a node may draw: those below 65536
  MaxCacheSize,  \* MAX_FRAME_ID_CACHE_SIZE
  Wanted,        \* the destinations that applications of a node send to
  MaxFrames,     \* bound: frames sent by applications
  MaxHandled,    \* bound: frames handled by a node
  Shared         \* whether media carry a broadcast to all neighbors at once

Destination == [node : Node \cup {Broadcast, Loopback},
                cluster : Cluster \cup {NoCluster}]
Everyone == [node |-> Broadcast, cluster |-> NoCluster]

ASSUME NetworkAssumption ==
  /\ {Broadcast, Loopback} \cap Node = {} /\ Broadcast # Loopback
  /\ NoCluster \notin Cluster
  /\ ClusterOf \in [Node -> Cluster \cup {NoCluster}]
  /\ Neighbors \in [Node -> SUBSET Node]
  /\ \A n \in Node : n \notin Neighbors[n]
  /\ \A n, m \in Node : m \in Neighbors[n] => n \in Neighbors[m]
  /\ Gateways \in [Node -> [Destination -> SUBSET Node]]
  /\ \A n \in Node : \A d \in Destination : Gateways[n][d] \subseteq Neighbors[n]
ASSUME LimitsAssumption ==
  /\ MaxCacheSize \in Nat \ {0} /\ MaxFrames \in Nat /\ MaxHandled \in Nat
  /\ DOMAIN IdsOf = Node
  /\ Wanted \in [Node -> SUBSET Destination]
  /\ Shared \in BOOLEAN

VARIABLES
  sent,      \* AsymmetricalFrameIdCache#send of each node
  received,  \* AsymmetricalFrameIdCache#receive of each node
  waiting,   \* frames for which a node awaits a gateway
  network,   \* copies of frames in transit, those to the node itself included
  handled,   \* history: the frames that each node has not taken for duplicates
  frames     \* history: the frames that applications have sent

vars == <<sent, received, waiting, network, handled, frames>>

-----------------------------------------------------------------------------
(* Destinations. *)

IsMulticast(d) == d.node = Broadcast /\ d.cluster # NoCluster

(* Source.matches.  A node without a cluster is in no cluster's multicast.  *)
Matches(n, d) ==
  \/ d = Everyone
  \/ d.node = n
  \/ IsMulticast(d) /\ ClusterOf[n] = d.cluster

(* The condition under which a received frame is the application's.         *)
IsForLocal(n, d) == Matches(n, d) \/ d.node = Loopback

(* Whether #sendFrame broadcasts. *)
IsFlooded(n, d) == d = Everyone \/ (IsMulticast(d) /\ Matches(n, d))

(* resolveGatewayNode: the node itself, the neighbor, or what resolvers,    *)
(* the cache and lookups give.  No node: unreachable.                       *)
GatewaysTo(n, d) ==
  IF d.node \in {n, Loopback} THEN {n}
  ELSE IF d.node \in Neighbors[n] THEN {d.node}
  ELSE Gateways[n][d]

-----------------------------------------------------------------------------
(* Sending. *)

Copy(from, to, frame) == [from |-> from, to |-> to, frame |-> frame]

(* Mutant: sendBroadcast that leaves out the node itself. *)
CopiesToOthers(n, previousHop, frame) ==
  SetToBag({Copy(n, m, frame) : m \in Neighbors[n] \ {previousHop}})

(* NeighborSocket.sendBroadcast.  The node is in its own table twice, under *)
(* its id and as loopback, and loopback is where its own copies come from.  *)
Copies(n, previousHop, frame) ==
  LET others == IF Shared THEN Neighbors[n] ELSE Neighbors[n] \ {previousHop}
      self == [copy \in {Copy(n, n, frame)} |-> IF previousHop = n THEN 1 ELSE 2]
  IN  SetToBag({Copy(n, m, frame) : m \in others}) (+) self

(* #sendFrame, after the frames that bag holds have left the network. *)
SendFrame(n, frame, previousHop, bag) ==
  IF IsFlooded(n, frame.destination)
  THEN network' = bag (+) Copies(n, previousHop, frame) /\ UNCHANGED waiting
  ELSE /\ network' = bag
       /\ waiting' = [waiting EXCEPT ![n] = BagAdd(@, frame)]

Init ==
  /\ sent = [n \in Node |-> <<>>]
  /\ received = [n \in Node |-> <<>>]
  /\ waiting = [n \in Node |-> EmptyBag]
  /\ network = EmptyBag
  /\ handled = [n \in Node |-> <<>>]
  /\ frames = <<>>

(* AsymmetricalFrameIdCache.generate: an id not yet sent is drawn, and again *)
(* if it has been received, but what was drawn first stays among the ids    *)
(* sent.  Bound: one id is rejected.  All users of a RoutingSocket want     *)
(* their broadcasts back, so the id does not count as received.             *)
Drawn(n, cache) ==
  {[id |-> id, cache |-> InsertId(cache, id, MaxCacheSize)] :
     id \in {x \in IdsOf[n] : ~Contains(cache, x)}}
Generated(n) ==
  LET first == Drawn(n, sent[n])
      Rejected(draw) == Contains(received[n], draw.id)
      second == UNION {Drawn(n, draw.cache) : draw \in {d \in first : Rejected(d)}}
  IN  {draw \in first \cup second : ~Rejected(draw)}

Send(n, d) ==
  /\ Len(frames) < MaxFrames
  /\ \E draw \in Generated(n) :
       LET frame == [id |-> draw.id, source |-> n, destination |-> d,
                     number |-> Len(frames)]
       IN  /\ sent' = [sent EXCEPT ![n] = draw.cache]
           /\ frames' = Append(frames, frame)
           /\ SendFrame(n, frame, Broadcast, network)
  /\ UNCHANGED <<received, handled>>

(* resolveGatewayNode has answered. *)
Forward(n) ==
  \E frame \in BagToSet(waiting[n]) :
    LET gateways == GatewaysTo(n, frame.destination)
    IN  /\ waiting' = [waiting EXCEPT ![n] = BagRemove(@, frame)]
        /\ \/ /\ gateways = {} /\ UNCHANGED network
           \/ \E gateway \in gateways :
                network' = BagAdd(network, Copy(n, gateway, frame))
        /\ UNCHANGED <<sent, received, handled, frames>>

-----------------------------------------------------------------------------
(* The handler of a received frame. *)

Ignore(n, msg) ==
  /\ Contains(received[n], msg.frame.id)
  /\ network' = BagRemove(network, msg)
  /\ UNCHANGED <<sent, received, waiting, handled, frames>>

(* Mutants: a check of the id that does not remember it; a cache without a  *)
(* limit.                                                                  *)
RememberNothing(n, id) == received' = received
RememberAll(n, id) ==
  received' = [received EXCEPT ![n] = Append(@, id)]

Remember(n, id) ==
  received' = [received EXCEPT ![n] = InsertId(@, id, MaxCacheSize)]

Handle(n, msg) ==
  /\ ~Contains(received[n], msg.frame.id)
  /\ Len(handled[n]) < MaxHandled
  /\ Remember(n, msg.frame.id)
  /\ handled' = [handled EXCEPT ![n] =
       Append(@, [frame |-> msg.frame,
                  delivered |-> IsForLocal(n, msg.frame.destination)])]
  /\ IF Contains(sent[n], msg.frame.id)
     THEN network' = BagRemove(network, msg) /\ UNCHANGED waiting
     ELSE SendFrame(n, msg.frame, msg.from, BagRemove(network, msg))
  /\ UNCHANGED <<sent, frames>>

Receive(n) ==
  \E msg \in BagToSet(network) : msg.to = n /\ (Ignore(n, msg) \/ Handle(n, msg))

Next ==
  \E n \in Node : Receive(n) \/ Forward(n) \/ \E d \in Wanted[n] : Send(n, d)

Spec == Init /\ [][Next]_vars

(* A frame that is lost is one that never arrives: without fairness Spec    *)
(* allows for loss.  Here frames arrive, and lookups come to an end.        *)
FairSpec == Spec /\ \A n \in Node : WF_vars(Receive(n)) /\ WF_vars(Forward(n))

-----------------------------------------------------------------------------
(* Properties. *)

Frame == [id : UNION {IdsOf[n] : n \in Node}, source : Node,
          destination : Destination, number : Nat]

(* Every variable has the shape that the code's classes give it, and no     *)
(* cache of ids outgrows its limit.                                         *)
TypeOK ==
  /\ sent \in [Node -> Seq(UNION {IdsOf[n] : n \in Node})]
  /\ received \in [Node -> Seq(UNION {IdsOf[n] : n \in Node})]
  /\ handled \in [Node -> Seq([frame : Frame, delivered : BOOLEAN])]
  /\ frames \in Seq(Frame)
  /\ BagToSet(network) \subseteq [from : Node, to : Node, frame : Frame]
  /\ DOMAIN waiting = Node
  /\ \A n \in Node :
       /\ BagToSet(waiting[n]) \subseteq Frame
       /\ Len(sent[n]) <= MaxCacheSize /\ Len(received[n]) <= MaxCacheSize

(* A node does not take a frame up again, to deliver it once more or to     *)
(* relay it once more, before it has taken up MaxCacheSize others: neither  *)
(* the second copy of its own broadcast, nor the copies that come back      *)
(* around a cycle of links or of gateways, nor what a shared medium         *)
(* carries back are new to it.                                              *)
RepeatsAreFarApart ==
  \A n \in Node : \A i, j \in DOMAIN handled[n] :
    i < j /\ handled[n][i].frame.id = handled[n][j].frame.id
      => j - i > MaxCacheSize

(* Why: a node remembers just the frames that it has taken up last.         *)
RemembersLatest ==
  \A n \in Node :
    /\ Len(received[n]) =
         IF Len(handled[n]) < MaxCacheSize THEN Len(handled[n]) ELSE MaxCacheSize
    /\ \A k \in 1..Len(received[n]) :
         received[n][k] =
           handled[n][Len(handled[n]) - Len(received[n]) + k].frame.id

(* Frames that a node can remember.  With more of them, forgotten ids let a *)
(* frame travel again (RepeatsAreFarApart is about them all).              *)
FewFrames == Len(frames) <= MaxCacheSize

(* Whatever gateways discovery gives, a routing loop included, the frames   *)
(* that applications send stop travelling, if they are no more than a node  *)
(* remembers.                                                               *)
FramesSettle ==
  <>[](FewFrames => network = EmptyBag /\ \A n \in Node : waiting[n] = EmptyBag)

(* The nodes a frame is for, those that no link connects left out.          *)
Recipients(frame) == {n \in Node :
  /\ {} \notin {Neighbors[n], Neighbors[frame.source]}
  /\ \/ Matches(n, frame.destination)
     \/ frame.destination.node = Loopback /\ n = frame.source}

DeliveredTo(n, frame) ==
  [frame |-> frame, delivered |-> TRUE] \in Range(handled[n])

(* A frame reaches every node that it is for, the sender of a broadcast     *)
(* too, although nodes on the way drop what they have heard: if no frame    *)
(* is lost, nodes draw different ids, gateways lead to the destination, and *)
(* a cluster holds together.                                                *)
EveryFrameArrives ==
  <>[](FewFrames =>
         \A frame \in Range(frames) : \A n \in Recipients(frame) : DeliveredTo(n, frame))
=============================================================================
