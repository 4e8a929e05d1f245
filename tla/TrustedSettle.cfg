\* The client sends, both applications close, over a network that delivers in time.
SPECIFICATION FairSpec
CONSTANTS
  RetryCount = 1
  SeqModulus = 65536
  Client = client
  Server = server
  MaxSends <- OneFromClient
  Closers = {client, server}
  Lossy = FALSE
  MayFail = FALSE
  MaxNetwork = 3
  MaxSending = 4
  MaxTimers = 3
  Timely = TRUE
  Revives = TRUE
\* The network may lose everything, sockets close, and applications stop.
CHECK_DEADLOCK FALSE
PROPERTIES
  ConnectSettles
  CloseSettles
  BothOpen
  EverySendOk
