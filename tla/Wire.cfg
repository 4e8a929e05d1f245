\* Messages, streams, updates and the serial line of Wire.
CONSTANTS
  Messages <- MCMessages
  Streams <- MCStreams
  Updates <- MCUpdates
  Source0 <- MCSource0
  Destination0 <- MCDestination0
  SerialFrames <- MCSerialFrames
  NoiseBytes = {0, 171}
  MaxFrames = 2
  MaxNoise = 1
SPECIFICATION Spec
\* A message that has arrived is the end of a behaviour.
CHECK_DEADLOCK FALSE
INVARIANTS
  RoundTrip
  FrameFits
  StreamWhole
  UpdatesWhole
  SerialInOrder

