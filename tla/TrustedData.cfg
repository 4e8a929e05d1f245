\* The client queues two sends, with one bit for the numbers on the wire; frames are lost
\* and transmissions fail.
SPECIFICATION FairSpec
CONSTANTS
  RetryCount = 1
  SeqModulus = 2
  Client = client
  Server = server
  MaxSends <- TwoFromClient
  Closers = {}
  Lossy = TRUE
  MayFail = TRUE
  MaxNetwork = 1
  MaxSending = 2
  MaxTimers = 1
  Timely = FALSE
  Revives = FALSE
\* The network may lose everything, sockets close, and applications stop.
CHECK_DEADLOCK FALSE
INVARIANTS
  TypeOK
  DeliveryInv
  OkMeansDelivered
  InOrderDelivery
PROPERTIES
  ForgetsOnlyFrameInFlight
  ImplementsChannel
  SendSettlesOnceSendsSucceed
