\* On a line, n1 looks n5 up after n2 has; nothing is lost or late.
SPECIFICATION Spec
CONSTANTS
  n1 = n1  n2 = n2  n3 = n3  n4 = n4  n5 = n5  k1 = k1
  Cluster = {k1}
  Broadcast = Broadcast
  NoCluster = NoCluster
  ByDiscovery = ByDiscovery
  Abort = Abort
  Distance <- Shortest
  NodeCost <- AllCost1
  Node = {n1, n2, n3, n4, n5}
  ClusterOf <- NoClusters
  Link <- LineLinks
  StaticRoute <- Discover
  Wanted <- TwoForLast
  MaxCalls = 1
  MaxCacheSize = 8
  MaxCacheEntries = 4
  MaxCost = 40
  Shared = FALSE
  Lossy = FALSE
  Expires = FALSE
  Timely = TRUE
\* Applications look up what they want, and then nothing happens.
CHECK_DEADLOCK FALSE
INVARIANTS
  RepliesReachTheSearcher
