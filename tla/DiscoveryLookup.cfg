\* A line of four nodes on a medium that broadcasts, at no cost; n1 looks the cluster of n4
\* up twice, perhaps at once, and answers may be late.
SPECIFICATION FairSpec
CONSTANTS
  n1 = n1  n2 = n2  n3 = n3  n4 = n4  n5 = n5  k1 = k1
  Cluster = {k1}
  Broadcast = Broadcast
  NoCluster = NoCluster
  ByDiscovery = ByDiscovery
  Abort = Abort
  Distance <- Shortest
  NodeCost <- AllCost0
  Node = {n1, n2, n3, n4}
  ClusterOf <- LastCluster
  Link <- FreeLineLinks
  StaticRoute <- Fixed
  Wanted <- OneForCluster
  MaxCalls = 2
  MaxCacheSize = 8
  MaxCacheEntries = 4
  MaxCost = 40
  Shared = TRUE
  Lossy = FALSE
  Expires = FALSE
  Timely = FALSE
\* Applications look up what they want, and then nothing happens.
CHECK_DEADLOCK FALSE
PROPERTIES
  LookupSettles
  FloodsEnd
