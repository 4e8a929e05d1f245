SPECIFICATION Spec
CONSTANTS
  ServerPorts = {1}
  DynamicPorts = {2, 3, 4}
  Peers = {"peer"}
  Protocols = {"tunnel", "stream"}
  Sizes = {0, 2}
  MaxCalls = 3
  MaxPending = 2
  MaxFrames = 2
INVARIANTS
  SocketsAgree
  ReceivedInOrder
  MessagesWhole
CHECK_DEADLOCK FALSE

  
