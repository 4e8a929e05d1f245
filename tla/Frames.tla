------------------------------- MODULE Frames -------------------------------
(***************************************************************************)
(* What the protocols of ts-core put on the wire: the serdeable of every   *)
(* address, identifier, frame and packet, in the terms of Serde.  A        *)
(* payload that is a frame of the next protocol is Remaining here.         *)
(***************************************************************************)
EXTENDS Serde

-----------------------------------------------------------------------------
(* Addresses and nodes.                                                     *)

SingleByteAddress == Uint8
IpV4Address == Tuple(<<Fixed(4), Uint16>>)
SerialAddress == SingleByteAddress
UhfAddress == SingleByteAddress
UdpAddress == IpV4Address
WebSocketAddress == IpV4Address
LoopbackAddress == Constant

AddressType == {1, 2, 3, 4, 127}

(* Address.table.                                                           *)
AddressOfType ==
  [type \in AddressType |->
    CASE type = 127 -> LoopbackAddress
      [] type = 1 -> SerialAddress
      [] type = 2 -> UhfAddress
      [] type = 3 -> UdpAddress
      [] type = 4 -> WebSocketAddress]

Address == ManualVariant(AddressOfType)

BodyBytesSize(addressType) ==
  CASE addressType = 127 -> 0 [] addressType \in {1, 2} -> 1 [] addressType \in {3, 4} -> 6

Broadcast == 255
NodeIdType == AddressType \cup {Broadcast}

BodyBytesSizeOf(type) == IF type = Broadcast THEN 0 ELSE BodyBytesSize(type)

NodeId == ManualVariant([type \in NodeIdType |-> Fixed(BodyBytesSizeOf(type))])
ClusterId == Uint8
Cost == Uint16
Destination == Tuple(<<NodeId, ClusterId>>)

(* The constructor of Source throws for the broadcast id.                   *)
Source ==
  Tuple(<<ManualVariant([type \in AddressType |-> Fixed(BodyBytesSizeOf(type))]), ClusterId>>)

MediaPortNumber == Uint8

-----------------------------------------------------------------------------
(* Neighbor, discovery, routing, tunnel.                                    *)

Protocol == 0..5
ProtocolSerdeable == Enum(Protocol, Uint8)
FRAME_MTU == 254

NeighborControlFrame == Object(<<Flags(1, Uint8), NodeId, Cost>>)

FrameId == Uint16
DiscoveryFrame == Tuple(<<Enum({1, 2}, Uint8), FrameId, Cost, Source, Destination>>)

RoutingFrame == Tuple(<<Source, Destination, FrameId, Remaining>>)
RoutingHeaderLength(source, destination) ==
  SerializedLength(RoutingFrame, <<source, destination, 0, <<>>>>)

TunnelPortId == Uint16
TunnelFrame == Object(<<TunnelPortId, TunnelPortId, Remaining>>)
TunnelHeaderLength == 2 * SerializedLength(TunnelPortId, 0)

-----------------------------------------------------------------------------
(* Trusted sockets and streams.                                             *)

SequenceNumber == Uint16
AcknowledgementNumber == Uint16

PseudoHeader == Object(<<Source, Destination, TunnelPortId, TunnelPortId, Uint8>>)

SynFrameBody == Constant
SynAckFrameBody == Constant
FinFrameBody == Constant
FinAckFrameBody == Constant
DataFrameBody == Object(<<SequenceNumber, AcknowledgementNumber, Remaining>>)
DataAckFrameBody == AcknowledgementNumber

ChecksumSerdeable == Uint16
TrustedFrame ==
  Object(<<ChecksumSerdeable,
          Variant(<<SynFrameBody, SynAckFrameBody, FinFrameBody, FinAckFrameBody,
                    DataFrameBody, DataAckFrameBody>>)>>)

DataBodyHeaderLength == SerializedLength(DataFrameBody, <<0, 0, <<>>>>)
TrustedHeaderLength == SerializedLength(TrustedFrame, <<0, <<1, <<>>>>>>)
(* Mutant of TrustedDataHeaderLength: the checksum and the tag forgotten.   *)
TrustedDataHeaderLengthOfBody == DataBodyHeaderLength
TrustedDataHeaderLength == TrustedHeaderLength + DataBodyHeaderLength

StreamFrame == Object(<<Bool, Remaining>>)
StreamHeaderLength == SerializedLength(StreamFrame, <<FALSE, <<>>>>)

(* maxPayloadLength() of the sockets, from the link up to the stream.       *)
LinkMaxPayload == FRAME_MTU
RoutingMaxPayload(source, destination) ==
  LinkMaxPayload - RoutingHeaderLength(source, destination)
TunnelMaxPayload(source, destination) ==
  RoutingMaxPayload(source, destination) - TunnelHeaderLength
TrustedMaxPayload(source, destination) ==
  TunnelMaxPayload(source, destination) - TrustedDataHeaderLength
StreamMaxPayload(source, destination) ==
  TrustedMaxPayload(source, destination) - StreamHeaderLength

-----------------------------------------------------------------------------
(* Observer.                                                                *)

SelfUpdatedEntry == Object(<<ClusterId, Cost>>)
NeighborUpdatedEntry == Object(<<NodeId, Cost>>)
NeighborRemovedEntry == Object(<<NodeId>>)
FrameReceivedEntry == Constant
NodeNotificationEntry ==
  Variant(<<SelfUpdatedEntry, NeighborUpdatedEntry, NeighborRemovedEntry, FrameReceivedEntry>>)

NodeSubscriptionFrame == Constant
NodeNotificationFrame == Object(<<Vector(NodeNotificationEntry, Uint8)>>)
NeighborSerdeable == Object(<<NodeId, Cost>>)
NodeSyncFrame == Object(<<Source, Cost, Vector(NeighborSerdeable, Uint8)>>)

NetworkNodeUpdatedEntry == Object(<<NodeId, Optional(Cost), Optional(ClusterId)>>)
NetworkLinkUpdatedEntry == Object(<<NodeId, NodeId, Cost>>)
NetworkLinkRemovedEntry == Object(<<NodeId, NodeId>>)
NetworkFrameReceivedEntry == Object(<<NodeId>>)
NetworkNotificationEntry ==
  Variant(<<NetworkNodeUpdatedEntry, NetworkLinkUpdatedEntry, NetworkLinkRemovedEntry,
            NetworkFrameReceivedEntry>>)

NetworkSubscriptionFrame == Object(<<Bool>>)
NetworkNotificationFrame == Vector(NetworkNotificationEntry, Uint8)

ObserverFrame ==
  Variant(<<NodeSubscriptionFrame, NodeNotificationFrame, NodeSyncFrame,
            NetworkSubscriptionFrame, NetworkNotificationFrame>>)

(* Mutant of LimitedByMtu: the entry that no longer fits is taken along.    *)
LimitedByMtuAndOne(entries, mtu) ==
  LET Lengths == [i \in DOMAIN entries |-> SerializedLength(NetworkNotificationEntry, entries[i])]
      LengthOf(n) == FoldLeft(+, 0, SubSeq(Lengths, 1, n))
  IN  Max({n \in 1..Len(entries) : LengthOf(n - 1) <= mtu})

(* createLimitedByMtu: how many of the entries go into the next frame.      *)
LimitedByMtu(entries, mtu) ==
  LET Lengths == [i \in DOMAIN entries |-> SerializedLength(NetworkNotificationEntry, entries[i])]
      LengthOf(n) == FoldLeft(+, 0, SubSeq(Lengths, 1, n))
  IN  Max({n \in 0..Len(entries) : LengthOf(n) <= mtu})

-----------------------------------------------------------------------------
(* Remote procedures.                                                       *)

Procedure ==
  {1, 100, 300, 301, 302, 303, 320, 321, 400, 500, 501, 2100, 2101, 2120, 2121, 2200, 2220,
   4000, 5000, 5001, 5002}
RpcStatus == 1..10

ProcedureSerdeable == Enum(Procedure, Uint16)
RpcStatusSerdeable == Enum(RpcStatus, Uint8)
RequestId == Uint16
RequestFrame == Tuple(<<ProcedureSerdeable, RequestId, Remaining>>)
ResponseFrame == Tuple(<<ProcedureSerdeable, RequestId, RpcStatusSerdeable, Remaining>>)
RpcFrame == Variant(<<RequestFrame, ResponseFrame>>)

BlinkParam == Enum({1, 2}, Uint8)
MediaInfo == Object(<<Optional(Enum(AddressType, Uint8)), Optional(Address)>>)
GetMediaListResult == Vector(MediaInfo, Uint8)
ConnectToAccessPointParam ==
  Object(<<MediaPortNumber, VariableBytes(Uint8), VariableBytes(Uint8)>>)
StartServerParam == Object(<<MediaPortNumber, Uint16>>)
CloseServerParam == Object(<<MediaPortNumber>>)
SetAddressParam == Object(<<MediaPortNumber, Address>>)
SetEthernetIpAddressParam == Object(<<MediaPortNumber, Fixed(4)>>)
SetEthernetSubnetMaskParam == Object(<<MediaPortNumber, Fixed(4)>>)
Config == Flags(7, Uint8)
SendHelloParam == Object(<<Address, Cost, Optional(MediaPortNumber)>>)
ResolveAddressParam == Object(<<NodeId>>)
ResolveAddressResult == Object(<<Vector(Address, Uint8)>>)
VRouter == Object(<<Uint16>>)
GetVRoutersResult == Object(<<Vector(VRouter, Uint8)>>)
DeleteVRouterParam == Object(<<Uint16>>)

-----------------------------------------------------------------------------
(* Applications.                                                            *)

ShortText == Text(Uint8)
LongText == Text(Uint32)

AiImagePacket == Object(<<ShortText, ShortText>>)
(* "left", "center" and "right" are the texts of one, two and three "l".    *)
Alignment == {<<<<108>>>>, <<<<108>>, <<108>>>>, <<<<108>>, <<108>>, <<108>>>>}
CaptionRenderOptions ==
  Object(<<Uint32, Uint32, ShortText, Uint32, ShortText, Accepting(ShortText, Alignment),
          Uint32, ShortText>>)
ServerInfo == Object(<<ShortText, Uint16>>)
ShowCaption == Object(<<ServerInfo, CaptionRenderOptions>>)
ClearCaption == Object(<<ServerInfo>>)
ParamsFrame == Variant(<<ShowCaption, ClearCaption>>)
CaptionResult == Enum({0, 1}, Uint8)
MessageData == Variant(<<Object(<<Constant, LongText>>), Object(<<Constant, LongText>>)>>)
MessagePacket == Object(<<Date, MessageData>>)
FilePacket == Object(<<ShortText, Remaining>>)
PostingPacket == Object(<<ShortText>>)
=============================================================================
