\* A line of three nodes on a medium that broadcasts, and one apart, whose frames are sent
\* back and forth; two frames of any kind, caches of one id.
SPECIFICATION FairSpec
CONSTANTS
  n1 = n1  n2 = n2  n3 = n3  n4 = n4  k1 = k1
  Node = {n1, n2, n3, n4}
  Cluster = {k1}
  Broadcast = Broadcast
  Loopback = Loopback
  NoCluster = NoCluster
  ClusterOf <- LastCluster
  Neighbors <- LineAndOne
  Gateways <- OnTheWay
  IdsOf <- OwnIds
  MaxCacheSize = 1
  Wanted <- AllKinds
  MaxFrames = 2
  MaxHandled = 3
  Shared = TRUE
\* Applications send what they want, and then nothing happens.
CHECK_DEADLOCK FALSE
INVARIANTS
  TypeOK
  RepeatsAreFarApart
PROPERTIES
  EveryFrameArrives
  FramesSettle
