-------------------------------- MODULE Wire --------------------------------
(***************************************************************************)
(* Everything a node and a Python program tell others, from the value that *)
(* is handed to a serializer to the value its reader makes of the bytes:   *)
(* single messages, streams through all the layers below them, updates of  *)
(* the network cut to the size of a frame, and frames on a serial line.    *)
(* Each behaviour takes one of the four ways.                              *)
(***************************************************************************)
EXTENDS IpcMessages, SerialLine, Checksum

CONSTANTS
  Messages,      \* sequence of [kind, value]: single messages
  Streams,       \* sequence of [source, destination, length, byte]: frames of a stream
  Updates,       \* sequence of sequences of entries for one destination
  Source0, Destination0,  \* who sends updates to whom
  SerialFrames,  \* frames to write to the serial line
  NoiseBytes,    \* what the idle serial line may be heard to say
  MaxFrames, MaxNoise     \* bounds: frames and noise on the serial line

VARIABLES
  way,       \* "none" until something is sent
  sent,      \* values handed to serializers, in order
  wire,      \* packets on their way, or the bytes of the serial line
  received,  \* results of deserializers, in order
  failed,    \* what serializing or sending has come to: "ok" or how it ended
  parser,    \* the serial deserializer
  starts,    \* where on the serial line the frames that were sent start
  dropped,   \* how many bytes the first chunk had
  consumed   \* how many bytes have been received from the line

vars == <<way, sent, wire, received, failed, parser, starts, dropped, consumed>>

serialVars == <<parser, starts, dropped, consumed>>

(* Writer and reader of each kind of message.                               *)
Same(serdeable) == [writer |-> serdeable, reader |-> serdeable]
Kinds == [
  neighborControl |-> Same(NeighborControlFrame), discovery |-> Same(DiscoveryFrame),
  routing |-> Same(RoutingFrame), tunnel |-> Same(TunnelFrame), trusted |-> Same(TrustedFrame),
  stream |-> Same(StreamFrame), observer |-> Same(ObserverFrame), rpc |-> Same(RpcFrame),
  blink |-> Same(BlinkParam), mediaList |-> Same(GetMediaListResult),
  connectToAccessPoint |-> Same(ConnectToAccessPointParam), startServer |-> Same(StartServerParam),
  closeServer |-> Same(CloseServerParam), setAddress |-> Same(SetAddressParam),
  ipAddress |-> Same(SetEthernetIpAddressParam), subnetMask |-> Same(SetEthernetSubnetMaskParam),
  config |-> Same(Config), sendHello |-> Same(SendHelloParam),
  resolve |-> Same(ResolveAddressParam), resolved |-> Same(ResolveAddressResult),
  vRouters |-> Same(GetVRoutersResult), deleteVRouter |-> Same(DeleteVRouterParam),
  aiImage |-> Same(AiImagePacket), params |-> Same(ParamsFrame), result |-> Same(CaptionResult),
  message |-> Same(MessagePacket), file |-> Same(FilePacket), posting |-> Same(PostingPacket),
  request |-> [writer |-> PyRequestMessage, reader |-> RequestMessage],
  response |-> [writer |-> ResponseMessage, reader |-> PyResponseMessage]]

(* What is sent are values of what it is sent as.                           *)
ASSUME MessagesAssumption ==
  \A i \in DOMAIN Messages :
    /\ Messages[i].kind \in DOMAIN Kinds
    /\ Messages[i].value \in Kinds[Messages[i].kind].writer.values

ASSUME StreamsAssumption ==
  \A i \in DOMAIN Streams :
    /\ Streams[i].source \in Source.values /\ Streams[i].destination \in Destination.values
    /\ Streams[i].length \in Nat /\ Streams[i].byte \in Byte

ASSUME UpdatesAssumption ==
  /\ Source0 \in Source.values /\ Destination0 \in Destination.values
  /\ \A i \in DOMAIN Updates : Updates[i] \in Seq(NetworkNotificationEntry.values)

(* The noise of the idle line is not taken for a preamble.                  *)
ASSUME SerialAssumption ==
  /\ SerialFrames \subseteq Protocol \X Byte \X Byte \X {payload \in Bytes : Len(payload) <= 255}
  /\ NoiseBytes \subseteq Byte \ {NORMAL_PREAMBLE_VALUE}
  /\ MaxFrames \in Nat /\ MaxNoise \in Nat

Init ==
  /\ way = "none" /\ failed = "ok"
  /\ sent = <<>> /\ wire = <<>> /\ received = <<>>
  /\ parser = NewParser /\ starts = <<>> /\ dropped = 0 /\ consumed = 0

-----------------------------------------------------------------------------
(* A single message.                                                        *)

SendMessage(message) ==
  LET result == Serialize(Kinds[message.kind].writer, message.value)
  IN  /\ way = "none"
      /\ way' = "message" /\ sent' = <<message>> /\ failed' = result.is
      /\ wire' = IF result.is = "ok" THEN <<result.bytes>> ELSE <<>>
      /\ UNCHANGED <<received, serialVars>>

ReceiveMessage ==
  /\ way = "message" /\ wire # <<>>
  /\ wire' = Tail(wire)
  /\ received' = Append(received, Decode(Kinds[sent[1].kind].reader, Head(wire)))
  /\ UNCHANGED <<way, sent, failed, serialVars>>

-----------------------------------------------------------------------------
(* A frame of a stream, in a trusted frame, in a tunnel frame, in a routing *)
(* frame.  Ports and numbers are fixed.                                     *)

Ports == <<1024, 102>>

(* What the checksum covers: the frame and the pseudo header.               *)
Checked(frame, source, destination, length) ==
  Encode(TrustedFrame, frame) \o
  Encode(PseudoHeader, <<source, destination, Ports[1], Ports[2], length>>)

(* TrustedFrame.create.                                                     *)
CreateTrusted(body, source, destination) ==
  LET frame == <<0, body>>
  IN  <<ChecksumOfBytes(Checked(frame, source, destination, SerializedLength(TrustedFrame, frame))),
        body>>

(* Mutant of VerifyChecksum: the length of the payload, not of the frame.   *)
VerifyChecksumOfPayload(frame, source, destination, length) ==
  VerifyBytes(Checked(frame, source, destination, length - TrustedDataHeaderLength))

VerifyChecksum(frame, source, destination, length) ==
  VerifyBytes(Checked(frame, source, destination, length))

Data(stream) == [i \in 1..stream.length |-> stream.byte]

SendStream(stream) ==
  LET streamFrame == Encode(StreamFrame, <<TRUE, Data(stream)>>)
      trusted == CreateTrusted(<<5, <<1, 2, streamFrame>>>>, stream.source, stream.destination)
      tunnel == Encode(TunnelFrame, <<Ports[1], Ports[2], Encode(TrustedFrame, trusted)>>)
      frame == <<stream.source, stream.destination, 7, tunnel>>
  IN  /\ way = "none"
      /\ stream.length <= StreamMaxPayload(stream.source, stream.destination)
      /\ way' = "stream" /\ sent' = <<stream>>
      /\ wire' = <<Encode(RoutingFrame, frame)>>
      /\ UNCHANGED <<received, failed, serialVars>>

(* The layers of the receiver.  A frame that does not verify is dropped.    *)
ReceiveStream ==
  LET result ==
        AndThen(Decode(RoutingFrame, Head(wire)), LAMBDA routing, r1 :
        AndThen(Decode(TunnelFrame, routing[4]), LAMBDA tunnel, r2 :
        AndThen(Decode(TrustedFrame, tunnel[3]), LAMBDA trusted, r3 :
          IF VerifyChecksum(trusted, routing[1], routing[2], Len(tunnel[3]))
          THEN Decode(StreamFrame, trusted[2][2][3]) ELSE Failed("dropped"))))
  IN  /\ way = "stream" /\ wire # <<>>
      /\ wire' = Tail(wire)
      /\ received' = Append(received, result)
      /\ UNCHANGED <<way, sent, failed, serialVars>>

-----------------------------------------------------------------------------
(* NetworkNotificationSender.send: as many frames as it takes.  A frame     *)
(* that the routing socket finds too long ends it.                          *)

MaxUpdateFrame == RoutingMaxPayload(Source0, Destination0)

SendUpdates(entries) ==
  LET rest == IF sent = <<>> THEN entries ELSE sent[1].rest
      n == LimitedByMtu(rest, MaxUpdateFrame)
      frame == Encode(ObserverFrame, <<5, SubSeq(rest, 1, n)>>)
      left == SubSeq(rest, n + 1, Len(rest))
      fits == Len(frame) <= MaxUpdateFrame
  IN  /\ \/ way = "none"
         \/ way = "updates" /\ failed = "ok" /\ entries = sent[1].entries
      /\ rest # <<>>
      /\ way' = "updates"
      /\ failed' = IF fits THEN "ok" ELSE "throws"
      /\ sent' = <<[entries |-> entries, rest |-> IF fits THEN left ELSE rest]>>
      /\ wire' = IF fits THEN Append(wire, frame) ELSE wire
      /\ UNCHANGED <<received, serialVars>>

ReceiveUpdates ==
  /\ way = "updates" /\ wire # <<>>
  /\ wire' = Tail(wire)
  /\ received' = Append(received, Decode(ObserverFrame, Head(wire)))
  /\ UNCHANGED <<way, sent, failed, serialVars>>

-----------------------------------------------------------------------------
(* The serial line.  Its writer writes one frame after the other.           *)

SendSerial(frame) ==
  /\ way \in {"none", "serial"} /\ Len(sent) < MaxFrames
  /\ way' = "serial"
  /\ sent' = Append(sent, frame)
  /\ starts' = Append(starts, consumed + Len(wire))
  /\ wire' = wire \o SerializeFrame(frame)
  /\ UNCHANGED <<received, failed, parser, dropped, consumed>>

(* Between frames the line is idle, and may be heard to say something.      *)
Noise(byte) ==
  /\ way = "serial"
  /\ consumed + Len(wire) <
       FoldLeft(LAMBDA length, frame : length + Len(SerializeFrame(frame)), MaxNoise, sent)
  /\ wire' = Append(wire, byte)
  /\ UNCHANGED <<way, sent, received, failed, serialVars>>

ReceiveSerial(length) ==
  LET result == DispatchReceivedBytes(parser, SubSeq(wire, 1, length))
  IN  /\ way = "serial"
      /\ parser' = result.parser
      /\ received' = received \o result.frames
      /\ dropped' = IF parser.at = "start" THEN length ELSE dropped
      /\ consumed' = consumed + length
      /\ wire' = SubSeq(wire, length + 1, Len(wire))
      /\ UNCHANGED <<way, sent, failed, starts>>

-----------------------------------------------------------------------------
Next ==
  \/ \E i \in DOMAIN Messages : SendMessage(Messages[i])
  \/ ReceiveMessage
  \/ \E i \in DOMAIN Streams : SendStream(Streams[i])
  \/ ReceiveStream
  \/ \E i \in DOMAIN Updates : SendUpdates(Updates[i])
  \/ ReceiveUpdates
  \/ \E frame \in SerialFrames : SendSerial(frame)
  \/ \E byte \in NoiseBytes : Noise(byte)
  \/ \E length \in 1..Len(wire) : ReceiveSerial(length)

Spec == Init /\ [][Next]_vars

-----------------------------------------------------------------------------
(* What a reader makes of a message is what its writer was given, with no   *)
(* byte left over, and no serializer runs out of its buffer or leaves some  *)
(* of it: also where the writer is in one language and the reader in        *)
(* another.                                                                 *)
RoundTrip ==
  way = "message" =>
    /\ failed = "ok"
    /\ \A i \in DOMAIN received : received[i] = Ok(sent[1].value, <<>>)

(* However much maxPayloadLength() lets a stream put into a frame, the      *)
(* headers of all layers still fit into the frame of the link, and the      *)
(* largest payload leaves none of it unused.                                *)
FrameFits ==
  way = "stream" /\ wire # <<>> =>
    LET slack == StreamMaxPayload(sent[1].source, sent[1].destination) - sent[1].length
    IN  Len(wire[1]) = FRAME_MTU - slack

(* The sum that the checksum of a stream's frame covers.                    *)
SumOf(stream) ==
  LET body == <<5, <<1, 2, Encode(StreamFrame, <<TRUE, Data(stream)>>)>>>>
  IN  WordSum(Checked(<<0, body>>, stream.source, stream.destination,
                      SerializedLength(TrustedFrame, <<0, body>>)))

(* What comes out of the layers of the receiver is what went into those of  *)
(* the sender; a frame is dropped only if folding its carries carries again.*)
StreamWhole ==
  way = "stream" =>
    \A i \in DOMAIN received :
      received[i] = IF Folded(SumOf(sent[1])) < Word
                    THEN Ok(<<TRUE, Data(sent[1])>>, <<>>) ELSE Failed("dropped")

(* Updates cut into frames arrive complete and in order, whatever the       *)
(* frames; only a frame whose entries fill it up to its tag and their count *)
(* is refused.                                                              *)
UpdatesWhole ==
  way = "updates" =>
    LET Entries(result) == result.value[2]
        arrived == FlattenSeq([i \in DOMAIN received |-> Entries(received[i])])
        coming == FlattenSeq([i \in DOMAIN wire |-> Entries(Decode(ObserverFrame, wire[i]))])
        rest == sent[1].rest
    IN  /\ arrived \o coming \o rest = sent[1].entries
        /\ failed # "ok" =>
             SerializedLength(NetworkNotificationFrame,
               SubSeq(rest, 1, LimitedByMtu(rest, MaxUpdateFrame))) \in
                 MaxUpdateFrame .. MaxUpdateFrame + 1

(* Of what is written to a line on which only noise other than the preamble *)
(* is heard between the frames, every frame that starts after the first     *)
(* chunk arrives, once, in order and as it was, however the bytes are cut   *)
(* into chunks: if the first chunk ends with a frame, or what it leaves of  *)
(* one cannot be taken for a preamble.                                      *)
SerialInOrder ==
  LET End(i) == starts[i] + Len(SerializeFrame(sent[i]))
      expected == {i \in DOMAIN starts : starts[i] >= dropped /\ End(i) <= consumed}
      cleanCut == \A i \in DOMAIN starts : ~(starts[i] < dropped /\ dropped < End(i))
      noPreamble == \A i \in DOMAIN sent : NORMAL_PREAMBLE_VALUE \notin Range(sent[i][4])
  IN  way = "serial" /\ (cleanCut \/ noPreamble) =>
        \E first \in 1..Len(sent) + 1, last \in 0..Len(sent) :
          expected = first..last /\ received = SubSeq(sent, first, last)
=============================================================================
