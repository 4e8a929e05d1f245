---------------------------- MODULE IpcMessages ----------------------------
(***************************************************************************)
(* The messages between a Python program and its node: as the node writes  *)
(* and reads them (py-core/node/src/message.ts), and, with the prefix Py,  *)
(* as the program does (py-core/py_core).  The Python serdes write the     *)
(* bytes that the serdeables of Serde do, with one exception: a Utf8 is    *)
(* preceded by its number of characters.                                   *)
(***************************************************************************)
EXTENDS Frames

MessageDescriptor == Uint32
ServerDescriptor == Uint32
SocketDescriptor == Uint32
SocketProtocol == Enum({1, 2, 3}, Uint8)

SendHello == Object(<<MessageDescriptor, Address, Cost>>)
StartServer == Object(<<MessageDescriptor, SocketProtocol, TunnelPortId>>)
CloseServer == Object(<<MessageDescriptor, ServerDescriptor>>)
ConnectSocket == Object(<<MessageDescriptor, SocketProtocol, NodeId, TunnelPortId>>)
SendData == Object(<<MessageDescriptor, SocketDescriptor, Remaining>>)
CloseSocket == Object(<<MessageDescriptor, SocketDescriptor>>)
Terminate == Empty

(* Mutant of RequestMessage: in the order of the index fields.              *)
RequestMessageByIndex ==
  Variant(<<SendHello, StartServer, CloseServer, ConnectSocket, SendData, CloseSocket, Terminate>>)

(* The order of requestMessageTypes: SendData is the sixth, though its      *)
(* index says five; the node only reads requests.                           *)
RequestMessage ==
  Variant(<<SendHello, StartServer, CloseServer, ConnectSocket, CloseSocket, SendData, Terminate>>)

OperationSuccess == Object(<<MessageDescriptor>>)
OperationFailure == Object(<<MessageDescriptor, LongText>>)
ServerStarted == Object(<<MessageDescriptor, ServerDescriptor>>)
ServerClosed == Object(<<ServerDescriptor>>)
ServerSocketConnected ==
  Object(<<ServerDescriptor, SocketDescriptor, SocketProtocol, NodeId, TunnelPortId>>)
SocketConnected ==
  Object(<<MessageDescriptor, SocketDescriptor, SocketProtocol, NodeId, TunnelPortId>>)
SocketReceived == Object(<<SocketDescriptor, Remaining>>)
SocketClosed == Object(<<SocketDescriptor>>)

ResponseMessage ==
  Variant(<<OperationSuccess, OperationFailure, ServerStarted, ServerClosed,
            ServerSocketConnected, SocketConnected, SocketReceived, SocketClosed>>)

-----------------------------------------------------------------------------
(* Python.  A dataclass of a single number is that number.                  *)

PyUInt(bits) == Uint(bits \div 8)
PyEnumSerde(values) == Enum(values, Uint8)
PyFixedBytes(length) == Fixed(length)
PyRemainingBytes == Remaining
PyDeriveSerde(fields) == Tuple(fields)
PyVariant(types) == Variant(types)

PyUInt16 == PyUInt(16)
PyUInt32 == PyUInt(32)

PyLoopbackAddress == Constant
PySingleByteAddress == Uint8
PyIPv4AndPortAddress == Tuple(<<PyFixedBytes(4), PyUInt16>>)
PyAddress ==
  PyVariant([type \in AddressType |->
    CASE type = 127 -> PyLoopbackAddress
      [] type \in {1, 2} -> PySingleByteAddress
      [] type \in {3, 4} -> PyIPv4AndPortAddress])

PyNodeIdType == {255, 1, 2, 3, 4, 127}
PyBodyBytesSize(type) ==
  CASE type \in {255, 127} -> 0 [] type \in {1, 2} -> 1 [] type \in {3, 4} -> 6
PyNodeId == PyVariant([type \in PyNodeIdType |-> Fixed(PyBodyBytesSize(type))])
PyCost == PyUInt16
PyTunnelPort == PyUInt16

PyMessageDescriptor == PyUInt32
PyServerDescriptor == PyUInt32
PySocketDescriptor == PyUInt32
PySocketProtocol == PyEnumSerde({1, 2, 3})

PySendHello == PyDeriveSerde(<<PyMessageDescriptor, PyAddress, PyCost>>)
PyStartServer == PyDeriveSerde(<<PyMessageDescriptor, PySocketProtocol, PyTunnelPort>>)
PyCloseServer == PyDeriveSerde(<<PyMessageDescriptor, PyServerDescriptor>>)
PyConnectSocket ==
  PyDeriveSerde(<<PyMessageDescriptor, PySocketProtocol, PyNodeId, PyTunnelPort>>)
PySendData == PyDeriveSerde(<<PyMessageDescriptor, PySocketDescriptor, PyRemainingBytes>>)
PyCloseSocket == PyDeriveSerde(<<PyMessageDescriptor, PySocketDescriptor>>)
PyTerminate == PyDeriveSerde(<<>>)
PyRequestMessage ==
  PyVariant(<<PySendHello, PyStartServer, PyCloseServer, PyConnectSocket, PyCloseSocket,
              PySendData, PyTerminate>>)

PyOperationSuccess == PyDeriveSerde(<<PyMessageDescriptor>>)
PyTraceStr == PyUtf8(PyUInt32)
PyOperationFailure == PyDeriveSerde(<<PyMessageDescriptor, PyTraceStr>>)
PyServerStarted == PyDeriveSerde(<<PyMessageDescriptor, PyServerDescriptor>>)
PyServerClosed == PyDeriveSerde(<<PyServerDescriptor>>)
PyServerSocketConnected ==
  PyDeriveSerde(<<PyServerDescriptor, PySocketDescriptor, PySocketProtocol, PyNodeId, PyTunnelPort>>)
PySocketConnected ==
  PyDeriveSerde(<<PyMessageDescriptor, PySocketDescriptor, PySocketProtocol, PyNodeId, PyTunnelPort>>)
PySocketReceived == PyDeriveSerde(<<PySocketDescriptor, PyRemainingBytes>>)
PySocketClosed == PyDeriveSerde(<<PySocketDescriptor>>)
PyResponseMessage ==
  PyVariant(<<PyOperationSuccess, PyOperationFailure, PyServerStarted, PyServerClosed,
              PyServerSocketConnected, PySocketConnected, PySocketReceived, PySocketClosed>>)
=============================================================================
