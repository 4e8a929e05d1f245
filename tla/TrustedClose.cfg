\* The ends open and the client closes; frames are lost, transmissions fail.
SPECIFICATION Spec
CONSTANTS
  RetryCount = 1
  SeqModulus = 65536
  Client = client
  Server = server
  MaxSends <- NoSends
  Closers = {client}
  Lossy = TRUE
  MayFail = TRUE
  MaxNetwork = 1
  MaxSending = 2
  MaxTimers = 1
  Timely = FALSE
  Revives = FALSE
\* The network may lose everything, sockets close, and applications stop.
CHECK_DEADLOCK FALSE
INVARIANTS
  HandshakeInv
  OpenMeansAnswered
  StateAgrees
  OrderlyClose
