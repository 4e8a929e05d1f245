\* Two nodes look the same member of a cluster up; the caches are small, entries
\* expire, frames are lost, and the largest cost is soon reached.
SPECIFICATION Spec
CONSTANTS
  n1 = n1  n2 = n2  n3 = n3  n4 = n4  n5 = n5  k1 = k1
  Cluster = {k1}
  Broadcast = Broadcast
  NoCluster = NoCluster
  ByDiscovery = ByDiscovery
  Abort = Abort
  Distance <- Shortest
  NodeCost <- AllCost1
  Node = {n1, n2, n3, n4}
  ClusterOf <- MiddleCluster
  Link <- KiteLinks
  StaticRoute <- Discover
  Wanted <- TwoForMember
  MaxCalls = 1
  MaxCacheSize = 2
  MaxCacheEntries = 2
  MaxCost = 4
  Shared = FALSE
  Lossy = TRUE
  Expires = TRUE
  Timely = TRUE
\* Applications look up what they want, and then nothing happens.
CHECK_DEADLOCK FALSE
INVARIANTS
  TypeOK
  NoUnderestimate
  NoClusterUnderestimate
