SPECIFICATION Spec
CONSTANTS
  Client = "client"
  Server = "peer"
  Connections = {"c1", "c2"}
  Serial = "serial"
  SEND_HELLO_INTERVAL = 1
  NEIGHBOR_EXPIRATION_TIMEOUT = 3
  MaxHellos = 2
  MaxDisturbances = 1
  MaxFrames = 1
INVARIANTS
  AddressesLive
  

  
