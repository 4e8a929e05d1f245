------------------------------ MODULE Ipc_proofs ------------------------------
(***************************************************************************)
(* Program and node agree, for every number of calls and frames and every  *)
(* set of protocols and sizes.  First the shape of the state, with what    *)
(* bounds the sockets and the ports (BaseInv); then what the messages on   *)
(* their way will make of the program's sockets (SocketInv); then what the *)
(* loops of the streams have sent (StreamInv).                             *)
(***************************************************************************)
EXTENDS Ipc, SequenceTheorems, FunctionTheorems, FiniteSetTheorems, TLAPS

Operations == {"StartServer", "CloseServer", "ConnectSocket", "SendData", "CloseSocket",
               "SendHello", "Terminate"}

Arguments == (ServerPorts \X Protocols) \cup (Peers \X Protocols) \cup (Nat \X Sizes) \cup Nat

CallStates == {"sent", "waiting", "returned", "raised"}
AnswerKinds == {"Success", "Failure", "ServerStarted", "SocketConnected"}
EventKinds == {"ServerSocketConnected", "ServerClosed", "SocketReceived", "SocketClosed"}

Requests == [call : Nat, op : Operations, arg : Arguments]

Messages ==
  [to : {"call"}, call : Nat, kind : AnswerKinds, id : Nat]
  \cup [to : {"event"}, kind : EventKinds, server : Nat, socket : Nat, data : Nat]

Senders == [peer : Peers, socket : Nat]
PortRecords == [senders : SUBSET Senders, listener : Nat]
Entries == [call : Nat, size : Nat]
StreamSockets ==
  [sender : Seq(Entries), receiver : Nat, current : Entries, left : Nat,
   looping : BOOLEAN, aborted : BOOLEAN, sent : Seq([call : Nat, fin : BOOLEAN])]

TypeOK ==
  /\ calls \in Seq([op : Operations, arg : Arguments, state : CallStates,
                    answer : AnswerKinds \cup {"none"}])
  /\ Len(calls) <= MaxCalls
  /\ responses \in SUBSET Nat
  /\ known \in [servers : SUBSET Nat, sockets : SUBSET Nat]
  /\ objects \in [servers : SUBSET Nat, sockets : SUBSET Nat]
  /\ toNode \in Seq(Requests) /\ toPython \in Seq(Messages)
  /\ exited \in BOOLEAN
  /\ servers \in SUBSET [server : Nat \ {NoListener}, protocol : Protocols]
  /\ made \in Seq([protocol : Protocols, port : Ports, peer : Peers])
  /\ opening \in SUBSET [socket : Nat, call : Nat, server : Nat]
  /\ works \in SUBSET Nat
  /\ frames \in 0..MaxFrames
  /\ received \in [Sockets -> Seq(Nat)] /\ emitted \in [Sockets -> Seq(Nat)]
  /\ sockets \in SUBSET Nat /\ orphans \in SUBSET Nat
  /\ streams \in [Sockets -> StreamSockets]

(* The argument of a request or a call is one of its operation.             *)
ArgumentOK(r) ==
  /\ r.op = "StartServer" => r.arg \in ServerPorts \X Protocols
  /\ r.op = "ConnectSocket" => r.arg \in Peers \X Protocols
  /\ r.op = "SendData" => r.arg \in Nat \X Sizes
  /\ r.op \in {"CloseServer", "CloseSocket"} => r.arg \in Nat

(* A request is the one of its call.                                        *)
RequestsInv ==
  /\ \A c \in 1..Len(calls) : ArgumentOK(calls[c])
  /\ \A i \in 1..Len(toNode) :
       LET m == toNode[i]
       IN  m.call \in 1..Len(calls) /\ calls[m.call].op = m.op /\ calls[m.call].arg = m.arg

(* Each tunnel socket was made for a request or for a frame, each port is   *)
(* there for a request.                                                     *)
CountInv ==
  /\ Len(made) + Len(toNode) <= Len(calls) + frames
  /\ IsFiniteSet(DOMAIN ports) /\ Cardinality(DOMAIN ports) + Len(toNode) <= Len(calls)

PortsOK(p, n) ==
  /\ p \in [DOMAIN p -> PortRecords] /\ DOMAIN p \subseteq Ports
  /\ \A port \in DOMAIN p : \A s \in p[port].senders : s.socket \in 1..n

PortsInv == PortsOK(ports, Len(made))

BaseInv == TypeOK /\ RequestsInv /\ CountInv /\ PortsInv

(* A socket that is not made or not open yet.                               *)
Fresh(socket) ==
  socket \in Sockets /\ (socket > Len(made) \/ \E o \in opening : o.socket = socket)

FreshInv ==
  /\ \A o \in opening : o.socket \in 1..Len(made)
  /\ \A o, p \in opening : o.socket = p.socket => o = p
  /\ sockets \subseteq 1..Len(made)
  /\ \A socket \in Sockets : Fresh(socket) =>
       /\ socket \notin sockets
       /\ received[socket] = <<>> /\ emitted[socket] = <<>> /\ streams[socket] = NewStream
       /\ \A i \in 1..Len(toPython) : ~HandsData(toPython[i], socket)

-----------------------------------------------------------------------------
StartsServer(m, server) == m.to = "call" /\ m.kind = "ServerStarted" /\ m.id = server
ClosesServer(m, server) == m.to = "event" /\ m.kind = "ServerClosed" /\ m.server = server

(* The program knows a server, or a socket, once it has handled the first i *)
(* messages that are on their way to it.                                    *)
ServerKnownAt(server, i) ==
  \/ /\ server \in known.servers
     /\ \A k \in 1..i : ~ClosesServer(toPython[k], server)
  \/ \E j \in 1..i :
       /\ StartsServer(toPython[j], server)
       /\ \A k \in (j + 1)..i : ~ClosesServer(toPython[k], server)

(* The announcement of an accepted socket is dropped if its server is not   *)
(* known.                                                                   *)
MakesKnown(j, socket) ==
  /\ Announces(toPython[j], socket)
  /\ toPython[j].to = "event" => ServerKnownAt(toPython[j].server, j)

SocketKnownAt(socket, i) ==
  \/ /\ socket \in known.sockets
     /\ \A k \in 1..i : ~TellsClose(toPython[k], socket)
  \/ \E j \in 1..i :
       /\ MakesKnown(j, socket)
       /\ \A k \in (j + 1)..i : ~TellsClose(toPython[k], socket)

KnownInv ==
  /\ \A s \in servers : ServerKnownAt(s.server, Len(toPython))
  /\ \A socket \in sockets \ orphans :
       /\ SocketKnownAt(socket, Len(toPython))
       /\ \A i \in 1..Len(toPython) : HandsData(toPython[i], socket) => SocketKnownAt(socket, i)

ClosedInv ==
  /\ \A socket \in known.sockets :
       socket \in sockets \/ \E k \in 1..Len(toPython) : TellsClose(toPython[k], socket)
  /\ \A socket \in Nat : \A i \in 1..Len(toPython) : Announces(toPython[i], socket) =>
       socket \in sockets \/ \E k \in (i + 1)..Len(toPython) : TellsClose(toPython[k], socket)

-----------------------------------------------------------------------------
Whole(call, size) == [k \in 1..size |-> call]

SendsTo(socket, entry) ==
  /\ entry.call \in 1..Len(calls)
  /\ calls[entry.call].op = "SendData" /\ calls[entry.call].arg = <<socket, entry.size>>

(* The last frames that arrived belong to the message that is being sent.   *)
Unfinished(s) == IF s.current = NoEntry \/ s.left = 0 THEN 0 ELSE s.current.size - s.left

SenderOK(socket, s) ==
  s.receiver <= Len(s.sender) /\ \A i \in 1..Len(s.sender) : SendsTo(socket, s.sender[i])

CurrentOK(socket, s) ==
  s.current # NoEntry =>
    /\ SendsTo(socket, s.current) /\ s.looping /\ s.left <= s.current.size
    /\ s.left = 0 /\ s.current.size > 0 => Whole(s.current.call, s.current.size) \in Accumulated(s.sent)

TailOK(s) ==
  s.looping =>
    LET start == Len(s.sent) - Unfinished(s)
    IN  /\ start >= 0
        /\ start = 0 \/ s.sent[start].fin
        /\ \A k \in (start + 1)..Len(s.sent) :
             s.sent[k] = [call |-> s.current.call, fin |-> FALSE]
        /\ s.current = NoEntry => s.left = 0

SentOK(got) ==
  \A message \in Accumulated(got) :
    \E c \in 1..Len(calls) : calls[c].op = "SendData" /\ message = Whole(c, calls[c].arg[2])

StreamOK(socket, s) ==
  SenderOK(socket, s) /\ CurrentOK(socket, s) /\ TailOK(s) /\ SentOK(s.sent)

Delivered(c) ==
  LET socket == calls[c].arg[1]
      size == calls[c].arg[2]
  IN  /\ socket \in 1..Len(made)
      /\ made[socket].protocol = "stream" /\ size > 0 =>
           Whole(c, size) \in Accumulated(streams[socket].sent)

TellsSuccess(m, c) == m.to = "call" /\ m.kind = "Success" /\ m.call = c

Succeeds(c) ==
  calls[c].answer = "Success" \/ \E i \in 1..Len(toPython) : TellsSuccess(toPython[i], c)

(* A frame that is sent by itself is not one of a stream.                   *)
WorkOK(c) ==
  /\ c \in 1..Len(calls)
  /\ calls[c].op = "SendData" =>
       calls[c].arg[1] \in 1..Len(made) /\ made[calls[c].arg[1]].protocol # "stream"

StreamInv ==
  /\ \A socket \in Sockets : StreamOK(socket, streams[socket])
  /\ \A c \in works : WorkOK(c)
  /\ \A i \in 1..Len(toPython) : \A c \in Nat :
       TellsSuccess(toPython[i], c) => c \in 1..Len(calls)
  /\ \A c \in 1..Len(calls) : calls[c].op = "SendData" /\ Succeeds(c) => Delivered(c)

-----------------------------------------------------------------------------
(* The operators on ports.                                                  *)

LEMMA PortOfType ==
  ASSUME NEW p, NEW n \in Nat, PortsOK(p, n), NEW port
  PROVE  /\ PortOf(p, port) \in PortRecords
         /\ \A s \in PortOf(p, port).senders : s.socket \in 1..n
BY DEF PortsOK, PortOf, NewPort, NoListener, PortRecords

LEMMA SetPortOK ==
  ASSUME NEW p, NEW n \in Nat, PortsOK(p, n), NEW port \in Ports, NEW r \in PortRecords,
         \A s \in r.senders : s.socket \in 1..n
  PROVE  /\ PortsOK(SetPort(p, port, r), n)
         /\ DOMAIN SetPort(p, port, r) = DOMAIN p \cup {port}
BY DEF PortsOK, SetPort

LEMMA PortsLater ==
  ASSUME NEW p, NEW n \in Nat, PortsOK(p, n)
  PROVE  PortsOK(p, n + 1)
BY DEF PortsOK

LEMMA AddSenderOK ==
  ASSUME NEW p, NEW n \in Nat, PortsOK(p, n), NEW port \in Ports, NEW peer \in Peers
  PROVE  /\ PortsOK(AddSender(p, port, peer, n + 1), n + 1)
         /\ DOMAIN AddSender(p, port, peer, n + 1) = DOMAIN p \cup {port}
<1> DEFINE r == PortOf(p, port)
           new == [r EXCEPT !.senders = @ \cup {[peer |-> peer, socket |-> n + 1]}]
<1>1. /\ r \in PortRecords /\ \A s \in r.senders : s.socket \in 1..n
  BY PortOfType
<1>2. new \in PortRecords /\ \A s \in new.senders : s.socket \in 1..(n + 1)
  BY <1>1 DEF PortRecords, Senders
<1>3. PortsOK(p, n + 1) /\ n + 1 \in Nat
  BY PortsLater
<1>4. AddSender(p, port, peer, n + 1) = SetPort(p, port, new)
  BY DEF AddSender
<1>5. /\ PortsOK(SetPort(p, port, new), n + 1)
      /\ DOMAIN SetPort(p, port, new) = DOMAIN p \cup {port}
  <2> HIDE DEF new
  <2> QED BY <1>2, <1>3, SetPortOK
<1> QED BY <1>4, <1>5

LEMMA ListenOK ==
  ASSUME NEW p, NEW n \in Nat, PortsOK(p, n), NEW port \in Ports, NEW listener \in Nat
  PROVE  /\ PortsOK(Listen(p, port, listener), n)
         /\ DOMAIN Listen(p, port, listener) = DOMAIN p \cup {port}
<1> DEFINE new == [PortOf(p, port) EXCEPT !.listener = listener]
<1>1. new \in PortRecords /\ \A s \in new.senders : s.socket \in 1..n
  BY PortOfType DEF PortRecords
<1>2. Listen(p, port, listener) = SetPort(p, port, new)
  BY DEF Listen
<1>3. /\ PortsOK(SetPort(p, port, new), n)
      /\ DOMAIN SetPort(p, port, new) = DOMAIN p \cup {port}
  <2> HIDE DEF new
  <2> QED BY <1>1, SetPortOK
<1> QED BY <1>2, <1>3

LEMMA CancelOK ==
  ASSUME NEW p, NEW n \in Nat, PortsOK(p, n), NEW listener
  PROVE  /\ PortsOK(CancelListener(p, listener), n)
         /\ DOMAIN CancelListener(p, listener) = DOMAIN p
BY DEF PortsOK, CancelListener, PortRecords, NoListener

LEMMA CloseOK ==
  ASSUME NEW p, NEW n \in Nat, PortsOK(p, n), NEW socket
  PROVE  /\ PortsOK(OnSocketClose(p, socket), n)
         /\ DOMAIN OnSocketClose(p, socket) \subseteq DOMAIN p
<1> DEFINE closed == [port \in DOMAIN p |->
                        [p[port] EXCEPT !.senders = {s \in @ : s.socket # socket}]]
           emptied == {port \in DOMAIN p : p[port] # closed[port] /\ closed[port] = NewPort}
<1>1. PortsOK(closed, n) /\ DOMAIN closed = DOMAIN p
  BY DEF PortsOK, PortRecords
<1>2. OnSocketClose(p, socket) = [port \in DOMAIN p \ emptied |-> closed[port]]
  BY DEF OnSocketClose, Restrict
<1> HIDE DEF closed, emptied
<1> QED BY <1>1, <1>2 DEF PortsOK

-----------------------------------------------------------------------------
(* Messages and streams.                                                    *)

LEMMA MessageType ==
  ASSUME NEW c \in Nat, NEW id \in Nat, NEW other \in Nat, NEW data \in Nat
  PROVE  /\ Success(c) \in Messages /\ Failure(c) \in Messages
         /\ Answer(c, "ServerStarted", id) \in Messages
         /\ Answer(c, "SocketConnected", id) \in Messages
         /\ ServerSocketConnected(other, id) \in Messages /\ ServerClosed(id) \in Messages
         /\ SocketReceived(id, data) \in Messages /\ SocketClosed(id) \in Messages
BY DEF Success, Failure, Answer, ServerSocketConnected, ServerClosed, SocketReceived,
       SocketClosed, Event, Messages, AnswerKinds, EventKinds

(* The messages that a step appends.                                        *)
LEMMA EmitOne ==
  ASSUME toPython \in Seq(Messages), NEW m \in Messages, Emit(<<m>>)
  PROVE  /\ toPython' \in Seq(Messages) /\ Len(toPython) \in Nat
         /\ Len(toPython') = Len(toPython) + 1 /\ toPython'[Len(toPython) + 1] = m
         /\ \A i \in 1..Len(toPython) : toPython'[i] = toPython[i]
<1>1. <<m>> \in Seq(Messages) /\ Len(<<m>>) = 1 /\ <<m>>[1] = m
  OBVIOUS
<1> QED BY <1>1, ConcatProperties, LenProperties DEF Emit

LEMMA EmitTwo ==
  ASSUME toPython \in Seq(Messages), NEW m \in Messages, NEW n \in Messages, Emit(<<m, n>>)
  PROVE  /\ toPython' \in Seq(Messages) /\ Len(toPython) \in Nat
         /\ Len(toPython') = Len(toPython) + 2
         /\ toPython'[Len(toPython) + 1] = m /\ toPython'[Len(toPython) + 2] = n
         /\ \A i \in 1..Len(toPython) : toPython'[i] = toPython[i]
<1>1. <<m, n>> \in Seq(Messages) /\ Len(<<m, n>>) = 2 /\ <<m, n>>[1] = m /\ <<m, n>>[2] = n
  OBVIOUS
<1> QED BY <1>1, ConcatProperties, LenProperties DEF Emit

LEMMA NoEntryType == NoEntry \in Entries
BY DEF NoEntry, StreamEntry, Entries

LEMMA StreamType ==
  ASSUME NEW s \in StreamSockets, NEW entry \in Entries, NEW arrived \in BOOLEAN
  PROVE  /\ NewStream \in StreamSockets
         /\ StreamSend(s, entry) \in StreamSockets
         /\ CanTake(s) => TakeEntry(s) \in StreamSockets
         /\ s.left > 0 => FrameOk(s) \in StreamSockets
         /\ EntryDone(s) \in StreamSockets
         /\ EntryFailed(s, arrived) \in StreamSockets
         /\ AbortLoop(s) \in StreamSockets
<1>1. /\ s.sender \in Seq(Entries) /\ s.receiver \in Nat /\ s.current \in Entries /\ s.left \in Nat
      /\ s.looping \in BOOLEAN /\ s.aborted \in BOOLEAN
      /\ s.sent \in Seq([call : Nat, fin : BOOLEAN])
  BY DEF StreamSockets
<1>2. NoEntry \in Entries
  BY NoEntryType
<1>3. NewStream \in StreamSockets
  <2>1. /\ <<>> \in Seq(Entries) /\ <<>> \in Seq([call : Nat, fin : BOOLEAN])
        /\ Len(<<>>) = 0
    OBVIOUS
  <2> QED BY <1>2, <2>1 DEF NewStream, StreamSockets, NewSender, Receiver
<1>4. StreamSend(s, entry) \in StreamSockets
  <2>1. Append(s.sender, entry) \in Seq(Entries)
    BY <1>1
  <2> QED BY <2>1 DEF StreamSend, SendValue, StreamSockets
<1>5. ASSUME CanTake(s) PROVE TakeEntry(s) \in StreamSockets
  <2>1. NextValue(s.sender, s.receiver) \in Entries
    BY <1>1, <1>5, ElementOfSeq, LenProperties DEF CanTake, HasNext, NextValue
  <2>2. NextValue(s.sender, s.receiver).size \in Nat /\ s.receiver + 1 \in Nat
    BY <1>1, <2>1 DEF Entries
  <2> QED BY <2>1, <2>2 DEF TakeEntry, StreamSockets
<1>6. /\ StreamFrame(s) \in [call : Nat, fin : BOOLEAN]
      /\ Append(s.sent, StreamFrame(s)) \in Seq([call : Nat, fin : BOOLEAN])
  <2>1. StreamFrame(s) \in [call : Nat, fin : BOOLEAN]
    BY <1>1 DEF StreamFrame, Entries
  <2> QED BY <1>1, <2>1, AppendProperties
<1>7. s.left > 0 => FrameOk(s) \in StreamSockets
  <2>1. s.left > 0 => s.left - 1 \in Nat
    BY <1>1
  <2> QED BY <1>1, <1>6, <2>1 DEF FrameOk, StreamSockets
<1>8. EntryDone(s) \in StreamSockets
  <2>1. Receiver(s.sender) \in Nat
    BY <1>1, LenProperties DEF Receiver
  <2> QED BY <1>1, <1>2, <2>1 DEF EntryDone, StreamSockets
<1>9. EntryFailed(s, arrived) \in StreamSockets
  BY <1>1, <1>2, <1>6 DEF EntryFailed, StreamSockets
<1>10. AbortLoop(s) \in StreamSockets
  <2>1. (s.looping /\ s.current # NoEntry) \in BOOLEAN
    OBVIOUS
  <2> QED BY <2>1 DEF AbortLoop, StreamSockets
<1> QED BY <1>3, <1>4, <1>5, <1>7, <1>8, <1>9, <1>10

-----------------------------------------------------------------------------
(* BaseInv.                                                                 *)

LEMMA BaseInit ==
  ASSUME Init
  PROVE  BaseInv
<1>1. NewStream \in StreamSockets
  BY StreamType DEF Entries, StreamSockets, NewStream, NewSender, NoEntry, StreamEntry, Receiver
<1>2. TypeOK
  <2>1. /\ <<>> \in Seq([op : Operations, arg : Arguments, state : CallStates,
                          answer : AnswerKinds \cup {"none"}])
        /\ <<>> \in Seq(Requests) /\ <<>> \in Seq(Messages) /\ <<>> \in Seq(Nat)
        /\ <<>> \in Seq([protocol : Protocols, port : Ports, peer : Peers])
        /\ Len(<<>>) = 0 /\ MaxCalls \in Nat /\ 0 \in 0..MaxFrames
    BY IpcAssumption
  <2>2. /\ received \in [Sockets -> Seq(Nat)] /\ emitted \in [Sockets -> Seq(Nat)]
        /\ streams \in [Sockets -> StreamSockets]
    BY <1>1, <2>1 DEF Init
  <2>3. /\ known \in [servers : SUBSET Nat, sockets : SUBSET Nat]
        /\ objects \in [servers : SUBSET Nat, sockets : SUBSET Nat]
    BY DEF Init
  <2>4. /\ calls = <<>> /\ toNode = <<>> /\ toPython = <<>> /\ made = <<>>
        /\ responses = {} /\ exited \in BOOLEAN /\ servers = {} /\ opening = {} /\ works = {}
        /\ frames = 0 /\ sockets = {} /\ orphans = {}
    BY DEF Init
  <2> QED BY <2>1, <2>2, <2>3, <2>4 DEF TypeOK
<1>3. RequestsInv /\ PortsInv
  BY DEF Init, RequestsInv, PortsInv, PortsOK
<1>4. CountInv
  <2>1. IsFiniteSet({}) /\ Cardinality({}) = 0
    BY FS_EmptySet
  <2>2. DOMAIN ports = {} /\ Len(made) = 0 /\ Len(toNode) = 0 /\ Len(calls) = 0 /\ frames = 0
    BY DEF Init
  <2> QED BY <2>1, <2>2 DEF CountInv
<1> QED BY <1>2, <1>3, <1>4 DEF BaseInv

LEMMA CallBase ==
  ASSUME BaseInv,
         NEW operation \in NetCoreOperations \cup ServerOperations \cup SocketOperations,
         Call(operation)
  PROVE  BaseInv'
<1> DEFINE c == Len(calls) + 1
           record == [op |-> operation.op, arg |-> operation.arg, state |-> "sent",
                      answer |-> "none"]
           m == Request(c, operation.op, operation.arg)
<1>1. /\ c <= MaxCalls /\ calls' = Append(calls, record) /\ toNode' = Append(toNode, m)
      /\ responses' \in {responses, responses \cup {c}}
      /\ UNCHANGED <<known, objects, received, toPython, exited, tables, works, frames, history>>
  BY DEF Call
<1>2. TypeOK /\ Len(calls) \in Nat /\ c \in Nat
  BY LenProperties DEF BaseInv, TypeOK
<1>3. ArgumentOK(operation) /\ operation.op \in Operations /\ operation.arg \in Arguments
  BY <1>2 DEF TypeOK, NetCoreOperations, ServerOperations, SocketOperations, ArgumentOK,
              Operations, Arguments
<1>4. /\ record \in [op : Operations, arg : Arguments, state : CallStates,
                     answer : AnswerKinds \cup {"none"}]
      /\ m \in Requests /\ ArgumentOK(record)
  BY <1>2, <1>3 DEF CallStates, Requests, Request, ArgumentOK
<1>5. /\ Len(calls') = c /\ calls'[c] = record /\ \A i \in 1..Len(calls) : calls'[i] = calls[i]
      /\ Len(toNode') = Len(toNode) + 1 /\ toNode'[Len(toNode) + 1] = m
      /\ \A i \in 1..Len(toNode) : toNode'[i] = toNode[i]
      /\ Len(toNode) \in Nat
      /\ calls' \in Seq([op : Operations, arg : Arguments, state : CallStates,
                         answer : AnswerKinds \cup {"none"}])
      /\ toNode' \in Seq(Requests)
  <2> HIDE DEF record, m
  <2> QED BY <1>1, <1>2, <1>4, AppendProperties, LenProperties DEF TypeOK
<1>6. TypeOK'
  BY <1>1, <1>2, <1>5 DEF TypeOK, tables, history
<1>7. RequestsInv'
  <2>1. \A i \in 1..Len(calls') : ArgumentOK(calls'[i])
    <3>1. \A i \in 1..Len(calls) : ArgumentOK(calls[i])
      BY DEF BaseInv, RequestsInv
    <3> QED BY <1>2, <1>4, <1>5, <3>1
  <2>2. m.call = c /\ m.op = record.op /\ m.arg = record.arg
    BY DEF Request
  <2>3. ASSUME NEW i \in 1..Len(toNode')
        PROVE  /\ toNode'[i].call \in 1..Len(calls')
               /\ calls'[toNode'[i].call].op = toNode'[i].op
               /\ calls'[toNode'[i].call].arg = toNode'[i].arg
    <3> HIDE DEF record, m
    <3>1. CASE i = Len(toNode) + 1
      BY <1>2, <1>5, <2>2, <3>1
    <3>2. CASE i \in 1..Len(toNode)
      <4>1. /\ toNode[i].call \in 1..Len(calls)
            /\ calls[toNode[i].call].op = toNode[i].op
            /\ calls[toNode[i].call].arg = toNode[i].arg
        BY <3>2 DEF BaseInv, RequestsInv
      <4>2. toNode'[i] = toNode[i]
        BY <1>5, <3>2
      <4> DEFINE k == toNode[i].call
      <4>3. k \in 1..Len(calls') /\ calls'[k] = calls[k]
        <5>1. k \in 1..Len(calls)
          BY <4>1
        <5> HIDE DEF k
        <5> QED BY <1>2, <1>5, <5>1
      <4> QED BY <4>1, <4>2, <4>3
    <3> QED BY <1>5, <3>1, <3>2
  <2>4. \A i \in 1..Len(calls)' : ArgumentOK(calls[i])'
    BY <2>1 DEF ArgumentOK
  <2> QED BY <2>3, <2>4 DEF RequestsInv
<1>8. CountInv' /\ PortsInv'
  <2>1. CountInv /\ PortsInv /\ UNCHANGED <<made, ports, frames>>
    BY <1>1 DEF BaseInv, tables
  <2>2. Cardinality(DOMAIN ports) \in Nat /\ Len(made) \in Nat /\ frames \in Nat
    BY <1>2, <2>1, FS_CardinalityType, LenProperties DEF CountInv, TypeOK
  <2> QED BY <1>2, <1>5, <2>1, <2>2 DEF CountInv, PortsInv
<1> QED BY <1>6, <1>7, <1>8 DEF BaseInv

(* Steps that leave the requests and what they bound alone.                 *)
LEMMA SameRequests ==
  ASSUME BaseInv, UNCHANGED <<toNode, made, ports>>, frames' \in {frames, frames + 1},
         frames \in Nat, Len(calls') = Len(calls),
         \A c \in 1..Len(calls) : calls'[c].op = calls[c].op /\ calls'[c].arg = calls[c].arg
  PROVE  RequestsInv' /\ CountInv' /\ PortsInv'
<1>1. RequestsInv /\ CountInv /\ PortsInv
  BY DEF BaseInv
<1>2. RequestsInv'
  BY <1>1 DEF RequestsInv, ArgumentOK
<1>3. Len(calls) \in Nat /\ Len(made) \in Nat /\ Len(toNode) \in Nat
  BY LenProperties DEF BaseInv, TypeOK
<1> QED BY <1>1, <1>2, <1>3 DEF CountInv, PortsInv

LEMMA MessageParts ==
  ASSUME NEW m \in Messages
  PROVE  /\ m.to = "call" => m.call \in Nat /\ m.kind \in AnswerKinds /\ m.id \in Nat
         /\ m.to = "event" => /\ m.kind \in EventKinds /\ m.server \in Nat /\ m.socket \in Nat
                              /\ m.data \in Nat
         /\ m.to \in {"call", "event"}
BY DEF Messages

LEMMA GetResponseBase ==
  ASSUME BaseInv, NEW c \in 1..Len(calls), GetResponse(c)
  PROVE  BaseInv'
<1> DEFINE record == [calls[c] EXCEPT !.state = IF c \in responses THEN "waiting" ELSE "raised"]
           S == [op : Operations, arg : Arguments, state : CallStates,
                 answer : AnswerKinds \cup {"none"}]
<1>1. /\ calls' = [calls EXCEPT ![c] = record]
      /\ UNCHANGED <<responses, known, objects, received, toNode, toPython, exited, tables, works,
                     frames, history>>
  BY DEF GetResponse
<1>2. TypeOK /\ calls \in Seq(S)
  BY DEF BaseInv, TypeOK
<1>3. record \in S /\ record.op = calls[c].op /\ record.arg = calls[c].arg
  <2>1. calls[c] \in S
    BY <1>2, ElementOfSeq
  <2> QED BY <2>1 DEF CallStates
<1>4. /\ calls' \in Seq(S) /\ Len(calls') = Len(calls)
      /\ \A i \in 1..Len(calls) : calls'[i].op = calls[i].op /\ calls'[i].arg = calls[i].arg
  <2> HIDE DEF record, S
  <2>1. /\ calls' \in Seq(S) /\ Len(calls') = Len(calls)
        /\ \A i \in 1..Len(calls) : calls'[i] = IF i = c THEN record ELSE calls[i]
    BY <1>1, <1>2, <1>3, ExceptSeq
  <2> QED BY <1>3, <2>1
<1>5. TypeOK'
  BY <1>1, <1>2, <1>4 DEF TypeOK, tables, history
<1>6. frames \in Nat
  BY <1>2 DEF TypeOK
<1> QED BY <1>1, <1>4, <1>5, <1>6, SameRequests DEF BaseInv, tables

LEMMA HandleAnswerBase ==
  ASSUME BaseInv, Handle, HandleAnswer(Head(toPython))
  PROVE  BaseInv'
<1> DEFINE m == Head(toPython)
           S == [op : Operations, arg : Arguments, state : CallStates,
                 answer : AnswerKinds \cup {"none"}]
<1>1. TypeOK /\ calls \in Seq(S) /\ frames \in Nat
  BY DEF BaseInv, TypeOK
<1>2. m \in Messages /\ toPython' \in Seq(Messages)
  BY <1>1, HeadTailProperties DEF Handle, TypeOK
<1>3. /\ m.call \in Nat /\ m.kind \in AnswerKinds /\ m.id \in Nat
  BY <1>2, MessageParts DEF HandleAnswer
<1>4. /\ known' \in [servers : SUBSET Nat, sockets : SUBSET Nat]
      /\ objects' \in [servers : SUBSET Nat, sockets : SUBSET Nat]
  <2> HIDE DEF m
  <2>1. /\ known' = [servers |-> known.servers \cup (IF m.kind = "ServerStarted" THEN {m.id} ELSE {}),
                     sockets |-> known.sockets \cup (IF m.kind = "SocketConnected" THEN {m.id} ELSE {})]
        /\ objects' \in {objects,
             [servers |-> objects.servers \cup (known'.servers \ known.servers),
              sockets |-> objects.sockets \cup (known'.sockets \ known.sockets)]}
    BY DEF HandleAnswer, m
  <2>2. known' \in [servers : SUBSET Nat, sockets : SUBSET Nat]
    BY <1>1, <1>3, <2>1 DEF TypeOK
  <2> QED BY <1>1, <2>1, <2>2 DEF TypeOK
<1>5. /\ calls' \in Seq(S) /\ Len(calls') = Len(calls)
      /\ \A i \in 1..Len(calls) : calls'[i].op = calls[i].op /\ calls'[i].arg = calls[i].arg
  <2> DEFINE record == [calls[m.call] EXCEPT !.state = "returned", !.answer = m.kind]
  <2>1. CASE calls' = calls
    BY <1>1, <2>1
  <2>2. CASE calls' = [calls EXCEPT ![m.call] = record] /\ m.call \in 1..Len(calls)
    <3>1. record \in S /\ record.op = calls[m.call].op /\ record.arg = calls[m.call].arg
      <4>1. calls[m.call] \in S
        BY <1>1, <2>2, ElementOfSeq
      <4> QED BY <1>3, <4>1 DEF CallStates
    <3> HIDE DEF record, S, m
    <3>2. /\ calls' \in Seq(S) /\ Len(calls') = Len(calls)
          /\ \A i \in 1..Len(calls) : calls'[i] = IF i = m.call THEN record ELSE calls[i]
      BY <1>1, <2>2, <3>1, ExceptSeq
    <3> QED BY <2>2, <3>1, <3>2
  <2>3. calls' = calls \/ calls' = [calls EXCEPT ![m.call] = record]
    BY DEF HandleAnswer
  <2>4. m.call \notin 1..Len(calls) => [calls EXCEPT ![m.call] = record] = calls
    <3> HIDE DEF record, S, m
    <3>1. calls = [i \in 1..Len(calls) |-> calls[i]]
      BY <1>1, LenProperties
    <3> QED BY <3>1
  <2> QED BY <2>1, <2>2, <2>3, <2>4
<1>6. /\ responses' \in SUBSET Nat /\ UNCHANGED received
  BY <1>1 DEF HandleAnswer, TypeOK
<1>7. UNCHANGED <<toNode, exited, tables, works, frames, history>>
  BY DEF Handle
<1>8. TypeOK'
  <2> HIDE DEF m
  <2> QED BY <1>1, <1>2, <1>4, <1>5, <1>6, <1>7 DEF TypeOK, tables, history
<1> QED BY <1>1, <1>5, <1>7, <1>8, SameRequests DEF BaseInv, tables

LEMMA HandleEventBase ==
  ASSUME BaseInv, Handle, HandleEvent(Head(toPython))
  PROVE  BaseInv'
<1> DEFINE m == Head(toPython)
<1>1. TypeOK /\ frames \in Nat
  BY DEF BaseInv, TypeOK
<1>2. m \in Messages /\ toPython' \in Seq(Messages)
  BY <1>1, HeadTailProperties DEF Handle, TypeOK
<1>3. m.server \in Nat /\ m.socket \in Nat /\ m.data \in Nat
  BY <1>2, MessageParts DEF HandleEvent
<1>4. UNCHANGED <<calls, responses, toNode, exited, tables, works, frames, history>>
  BY DEF Handle, HandleEvent
<1>5. /\ known' \in [servers : SUBSET Nat, sockets : SUBSET Nat]
      /\ objects' \in [servers : SUBSET Nat, sockets : SUBSET Nat]
      /\ received' \in [Sockets -> Seq(Nat)]
  <2>1. HandleServerSocketConnected(m) \/ HandleServerClosed(m) \/ HandleSocketReceived(m)
        \/ HandleSocketClosed(m)
    BY DEF HandleEvent
  <2>2. /\ known \in [servers : SUBSET Nat, sockets : SUBSET Nat]
        /\ objects \in [servers : SUBSET Nat, sockets : SUBSET Nat]
        /\ received \in [Sockets -> Seq(Nat)]
    BY <1>1 DEF TypeOK
  <2> HIDE DEF m
  <2>3. CASE HandleServerSocketConnected(m)
    BY <1>3, <2>2, <2>3 DEF HandleServerSocketConnected
  <2>4. CASE HandleServerClosed(m)
    BY <2>2, <2>4 DEF HandleServerClosed
  <2>5. CASE HandleSocketReceived(m)
    <3>1. m.socket \in Sockets => Append(received[m.socket], m.data) \in Seq(Nat)
      BY <1>3, <2>2
    <3> QED BY <2>2, <2>5, <3>1 DEF HandleSocketReceived
  <2>6. CASE HandleSocketClosed(m)
    BY <2>2, <2>6 DEF HandleSocketClosed
  <2> QED BY <2>1, <2>3, <2>4, <2>5, <2>6
<1>6. TypeOK'
  <2> HIDE DEF m
  <2> QED BY <1>1, <1>2, <1>4, <1>5 DEF TypeOK, tables, history
<1> QED BY <1>1, <1>4, <1>6, SameRequests DEF BaseInv, tables

LEMMA HandleBase ==
  ASSUME BaseInv, Handle
  PROVE  BaseInv'
BY HandleAnswerBase, HandleEventBase DEF Handle

-----------------------------------------------------------------------------
(* The requests.                                                            *)

Serves(m) ==
  /\ BaseInv /\ toNode # <<>> /\ m = Head(toNode) /\ toNode' = Tail(toNode)
  /\ UNCHANGED <<program, frames>> /\ ~exited

LEMMA RequestCases ==
  ASSUME BaseInv, HandleRequest
  PROVE  \E m \in Requests :
           /\ Serves(m)
           /\ \/ m.op = "StartServer" /\ StartServer(m.call, m.arg[1], m.arg[2])
              \/ m.op = "CloseServer" /\ CloseServer(m.call, m.arg)
              \/ m.op = "ConnectSocket" /\ ConnectSocket(m.call, m.arg[1], m.arg[2])
              \/ m.op = "SendData" /\ SendData(m.call, m.arg[1], m.arg[2])
              \/ m.op = "CloseSocket" /\ CloseSocket(m.call, m.arg)
              \/ m.op = "SendHello" /\ SendHello(m.call)
              \/ m.op = "Terminate" /\ Terminate
<1> DEFINE m == Head(toNode)
<1>1. toNode # <<>> /\ toNode' = Tail(toNode) /\ UNCHANGED <<program, frames>> /\ ~exited
  BY DEF HandleRequest
<1>2. m \in Requests
  BY <1>1, HeadTailProperties DEF BaseInv, TypeOK
<1>3. m.op \in Operations
  BY <1>2 DEF Requests
<1>4. CASE m.op = "StartServer"
  BY <1>1, <1>2, <1>4 DEF HandleRequest, Serves
<1>5. CASE m.op = "CloseServer"
  BY <1>1, <1>2, <1>5 DEF HandleRequest, Serves
<1>6. CASE m.op = "ConnectSocket"
  BY <1>1, <1>2, <1>6 DEF HandleRequest, Serves
<1>7. CASE m.op = "SendData"
  BY <1>1, <1>2, <1>7 DEF HandleRequest, Serves
<1>8. CASE m.op = "CloseSocket"
  BY <1>1, <1>2, <1>8 DEF HandleRequest, Serves
<1>9. CASE m.op = "SendHello"
  BY <1>1, <1>2, <1>9 DEF HandleRequest, Serves
<1>10. CASE m.op = "Terminate"
  BY <1>1, <1>2, <1>10 DEF HandleRequest, Serves
<1> HIDE DEF m
<1> QED BY <1>3, <1>4, <1>5, <1>6, <1>7, <1>8, <1>9, <1>10 DEF Operations

(* What is known of a request that is handled.                              *)
LEMMA Served ==
  ASSUME NEW m, Serves(m)
  PROVE  /\ TypeOK /\ m \in Requests /\ m.call \in 1..Len(calls) /\ m.call \in Nat \ {0}
         /\ ArgumentOK(m) /\ calls[m.call].op = m.op /\ calls[m.call].arg = m.arg
         /\ toNode' \in Seq(Requests) /\ Len(toNode') = Len(toNode) - 1
         /\ Len(toNode) \in Nat \ {0} /\ Len(calls) \in Nat /\ Len(made) \in Nat /\ frames \in Nat
         /\ Cardinality(DOMAIN ports) \in Nat
         /\ RequestsInv' /\ CountInv /\ PortsInv /\ IsFiniteSet(DOMAIN ports)
         /\ calls' = calls /\ frames' = frames
<1>1. /\ TypeOK /\ RequestsInv /\ CountInv /\ PortsInv /\ toNode # <<>> /\ m = Head(toNode)
      /\ toNode' = Tail(toNode) /\ calls' = calls /\ frames' = frames /\ toNode \in Seq(Requests)
  BY DEF Serves, BaseInv, program, TypeOK
<1>2. /\ m \in Requests /\ toNode' \in Seq(Requests) /\ Len(toNode') = Len(toNode) - 1
      /\ \A i \in 1..Len(toNode') : toNode'[i] = toNode[i + 1]
  BY <1>1, HeadTailProperties
<1>3. Len(toNode) \in Nat \ {0} /\ m = toNode[1]
  BY <1>1, EmptySeq
<1>4. /\ m.call \in 1..Len(calls) /\ calls[m.call].op = m.op /\ calls[m.call].arg = m.arg
  BY <1>1, <1>3 DEF RequestsInv
<1>5. Len(calls) \in Nat /\ Len(made) \in Nat /\ frames \in Nat
  BY <1>1, LenProperties DEF TypeOK
<1>6. ArgumentOK(m)
  <2>1. ArgumentOK(calls[m.call])
    BY <1>1, <1>4 DEF RequestsInv
  <2> QED BY <1>4, <2>1 DEF ArgumentOK
<1>7. RequestsInv'
  <2>1. \A c \in 1..Len(calls)' : ArgumentOK(calls[c])'
    BY <1>1 DEF RequestsInv, ArgumentOK
  <2>2. ASSUME NEW i \in 1..Len(toNode')
        PROVE  /\ toNode'[i].call \in 1..Len(calls')
               /\ calls'[toNode'[i].call].op = toNode'[i].op
               /\ calls'[toNode'[i].call].arg = toNode'[i].arg
    <3>1. i + 1 \in 1..Len(toNode) /\ toNode'[i] = toNode[i + 1]
      BY <1>2, <1>3
    <3> QED BY <1>1, <3>1 DEF RequestsInv
  <2> QED BY <2>1, <2>2 DEF RequestsInv
<1>8. IsFiniteSet(DOMAIN ports) /\ Cardinality(DOMAIN ports) \in Nat
  BY <1>1, FS_CardinalityType DEF CountInv
<1> QED BY <1>1, <1>2, <1>3, <1>4, <1>5, <1>6, <1>7, <1>8

(* A request that makes no socket and takes no further port.                *)
LEMMA ServedCount ==
  ASSUME NEW m, Serves(m), UNCHANGED made,
         PortsOK(ports', Len(made)), DOMAIN ports' \subseteq DOMAIN ports
  PROVE  RequestsInv' /\ CountInv' /\ PortsInv'
<1>1. /\ Len(toNode') = Len(toNode) - 1
      /\ Len(toNode) \in Nat \ {0} /\ Len(calls) \in Nat /\ Len(made) \in Nat /\ frames \in Nat
      /\ Cardinality(DOMAIN ports) \in Nat /\ IsFiniteSet(DOMAIN ports)
      /\ RequestsInv' /\ CountInv /\ calls' = calls /\ frames' = frames
  BY Served
<1>2. /\ IsFiniteSet(DOMAIN ports') /\ Cardinality(DOMAIN ports') <= Cardinality(DOMAIN ports)
      /\ Cardinality(DOMAIN ports') \in Nat
  BY <1>1, FS_Subset, FS_CardinalityType
<1> QED BY <1>1, <1>2 DEF CountInv, PortsInv

LEMMA OnePortMore ==
  ASSUME NEW m, Serves(m), NEW port, DOMAIN ports' = DOMAIN ports \cup {port},
         Len(made') <= Len(made) + 1, Len(made') \in Nat
  PROVE  CountInv'
<1>1. /\ Len(toNode') = Len(toNode) - 1
      /\ Len(toNode) \in Nat \ {0} /\ Len(calls) \in Nat /\ Len(made) \in Nat /\ frames \in Nat
      /\ Cardinality(DOMAIN ports) \in Nat /\ IsFiniteSet(DOMAIN ports)
      /\ CountInv /\ calls' = calls /\ frames' = frames
  BY Served
<1>2. /\ IsFiniteSet(DOMAIN ports') /\ Cardinality(DOMAIN ports') <= Cardinality(DOMAIN ports) + 1
      /\ Cardinality(DOMAIN ports') \in Nat
  <2> DEFINE used == DOMAIN ports
  <2>1. IsFiniteSet(used) /\ Cardinality(used) \in Nat
    BY <1>1
  <2> HIDE DEF used
  <2>2. IsFiniteSet(used \cup {port}) /\ Cardinality(used \cup {port}) <= Cardinality(used) + 1
    <3>1. /\ IsFiniteSet(used \cup {port})
          /\ Cardinality(used \cup {port}) = IF port \in used THEN Cardinality(used)
                                             ELSE Cardinality(used) + 1
      BY <2>1, FS_AddElement, Zenon
    <3> QED BY <2>1, <3>1
  <2>3. Cardinality(used \cup {port}) \in Nat
    BY <2>2, FS_CardinalityType
  <2> QED BY <2>2, <2>3 DEF used
<1> QED BY <1>1, <1>2 DEF CountInv

LEMMA StartServerBase ==
  ASSUME NEW m, Serves(m), m.op = "StartServer", StartServer(m.call, m.arg[1], m.arg[2])
  PROVE  BaseInv'
<1> DEFINE port == m.arg[1]
           protocol == m.arg[2]
<1>1. /\ TypeOK /\ m.call \in Nat \ {0} /\ port \in ServerPorts /\ protocol \in Protocols
      /\ toNode' \in Seq(Requests) /\ RequestsInv' /\ PortsInv /\ Len(made) \in Nat
  BY Served DEF ArgumentOK
<1>2. UNCHANGED <<sockets, made, opening, streams, works, exited, history, program, frames>>
  BY DEF StartServer, Serves
<1>3. CASE /\ ports' = Listen(ports, port, m.call)
           /\ servers' = servers \cup {[server |-> m.call, protocol |-> protocol]}
           /\ Emit(<<Answer(m.call, "ServerStarted", m.call)>>)
  <2> HIDE DEF port, protocol
  <2>1. toPython' \in Seq(Messages)
    <3>1. Answer(m.call, "ServerStarted", m.call) \in Messages
      BY <1>1, MessageType
    <3> QED BY <1>1, <1>3, <3>1, EmitOne DEF TypeOK
  <2>2. servers' \in SUBSET [server : Nat \ {NoListener}, protocol : Protocols]
    BY <1>1, <1>3 DEF TypeOK, NoListener
  <2>3. TypeOK'
    BY <1>1, <1>2, <2>1, <2>2 DEF TypeOK, program, history
  <2>4. PortsOK(ports', Len(made)) /\ DOMAIN ports' = DOMAIN ports \cup {port}
    BY <1>1, <1>3, ListenOK DEF PortsInv, Ports
  <2>5. CountInv'
    BY <1>1, <1>2, <2>4, OnePortMore
  <2> QED BY <1>1, <1>2, <2>3, <2>4, <2>5 DEF BaseInv, PortsInv
<1>4. CASE Emit(<<Failure(m.call)>>) /\ UNCHANGED <<ports, servers>>
  <2>1. toPython' \in Seq(Messages)
    BY <1>1, <1>4, EmitOne, MessageType DEF TypeOK
  <2>2. TypeOK'
    BY <1>1, <1>2, <1>4, <2>1 DEF TypeOK, program, history
  <2> QED BY <1>1, <1>2, <1>4, <2>2, ServedCount DEF BaseInv, PortsInv
<1> QED BY <1>3, <1>4 DEF StartServer

LEMMA CloseServerBase ==
  ASSUME NEW m, Serves(m), m.op = "CloseServer", CloseServer(m.call, m.arg)
  PROVE  BaseInv'
<1>1. /\ TypeOK /\ m.call \in Nat /\ m.arg \in Nat
      /\ toNode' \in Seq(Requests) /\ PortsInv /\ Len(made) \in Nat
  BY Served DEF ArgumentOK
<1>2. UNCHANGED <<sockets, made, opening, streams, works, exited, history, program, frames>>
  BY DEF CloseServer, Serves
<1>3. /\ servers' \subseteq servers
      /\ ports' \in {ports, CancelListener(ports, m.arg)}
      /\ \/ Emit(<<Failure(m.call)>>)
         \/ Emit(<<ServerClosed(m.arg), Success(m.call)>>)
  BY DEF CloseServer
<1>4. toPython' \in Seq(Messages)
  BY <1>1, <1>3, EmitOne, EmitTwo, MessageType DEF TypeOK
<1>5. TypeOK'
  BY <1>1, <1>2, <1>3, <1>4 DEF TypeOK, program, history
<1>6. PortsOK(ports', Len(made)) /\ DOMAIN ports' = DOMAIN ports
  BY <1>1, <1>3, CancelOK DEF PortsInv
<1> QED BY <1>2, <1>5, <1>6, ServedCount DEF BaseInv

(* A dynamic port is found: there are as many as calls, and each port that  *)
(* is in use is there for an earlier call.                                  *)
LEMMA PortFound ==
  ASSUME NEW m, Serves(m)
  PROVE  (CHOOSE p \in DynamicPorts : CanOpen(ports, p)) \in DynamicPorts
<1>1. /\ Cardinality(DOMAIN ports) \in Nat /\ IsFiniteSet(DOMAIN ports)
      /\ Cardinality(DOMAIN ports) + Len(toNode) <= Len(calls) /\ Len(toNode) \in Nat \ {0}
      /\ Len(calls) <= MaxCalls /\ Len(calls) \in Nat
  BY Served DEF CountInv, TypeOK
<1>2. ~(DynamicPorts \subseteq DOMAIN ports)
  <2>1. ASSUME DynamicPorts \subseteq DOMAIN ports PROVE FALSE
    <3>1. /\ Cardinality(DynamicPorts) <= Cardinality(DOMAIN ports)
          /\ Cardinality(DynamicPorts) \in Nat
      BY <1>1, <2>1, FS_Subset, FS_CardinalityType
    <3> QED BY <1>1, <3>1, IpcAssumption
  <2> QED BY <2>1
<1>3. \E p \in DynamicPorts : CanOpen(ports, p)
  BY <1>2 DEF CanOpen
<1> QED BY <1>3

LEMMA MakeSocketOK ==
  ASSUME TypeOK, PortsInv, NEW protocol \in Protocols, NEW port \in Ports, NEW peer \in Peers,
         MakeSocket(protocol, port, peer)
  PROVE  /\ made' \in Seq([protocol : Protocols, port : Ports, peer : Peers])
         /\ Len(made) \in Nat /\ Len(made') = Len(made) + 1
         /\ \A i \in 1..Len(made) : made'[i] = made[i]
         /\ made'[Len(made) + 1].protocol = protocol
         /\ PortsInv' /\ DOMAIN ports' = DOMAIN ports \cup {port}
<1> DEFINE record == [protocol |-> protocol, port |-> port, peer |-> peer]
           S == [protocol : Protocols, port : Ports, peer : Peers]
<1>1. /\ made \in Seq(S) /\ record \in S /\ made' = Append(made, record)
      /\ record.protocol = protocol /\ ports' = AddSender(ports, port, peer, Len(made) + 1)
  BY DEF TypeOK, MakeSocket
<1>2. /\ made' \in Seq(S) /\ Len(made) \in Nat /\ Len(made') = Len(made) + 1
      /\ \A i \in 1..Len(made) : made'[i] = made[i]
      /\ made'[Len(made) + 1] = record
  <2> HIDE DEF record, S
  <2> QED BY <1>1, AppendProperties, LenProperties
<1>3. PortsOK(ports', Len(made) + 1) /\ DOMAIN ports' = DOMAIN ports \cup {port}
  <2>1. PortsOK(ports, Len(made))
    BY DEF PortsInv
  <2>2. PICK k \in Nat : k = Len(made)
    BY <1>2
  <2>3. PortsOK(ports, k)
    BY <2>1, <2>2
  <2>4. /\ PortsOK(AddSender(ports, port, peer, k + 1), k + 1)
        /\ DOMAIN AddSender(ports, port, peer, k + 1) = DOMAIN ports \cup {port}
    BY <2>3, AddSenderOK, ZenonT(40)
  <2> QED BY <1>1, <2>2, <2>4
<1> QED BY <1>1, <1>2, <1>3 DEF PortsInv

LEMMA ConnectSocketBase ==
  ASSUME NEW m, Serves(m), m.op = "ConnectSocket", ConnectSocket(m.call, m.arg[1], m.arg[2])
  PROVE  BaseInv'
<1> DEFINE port == CHOOSE p \in DynamicPorts : CanOpen(ports, p)
           socket == Len(made) + 1
<1>1. /\ TypeOK /\ m.call \in Nat /\ m.arg[1] \in Peers /\ m.arg[2] \in Protocols
      /\ toNode' \in Seq(Requests) /\ RequestsInv' /\ PortsInv /\ Len(made) \in Nat
  BY Served DEF ArgumentOK
<1>2. /\ UNCHANGED <<servers, streams, works, exited, history, program, frames>>
      /\ MakeSocket(m.arg[2], port, m.arg[1])
      /\ \/ /\ sockets' = sockets \cup {socket}
            /\ Emit(<<Answer(m.call, "SocketConnected", socket)>>) /\ UNCHANGED opening
         \/ /\ opening' = opening \cup {[socket |-> socket, call |-> m.call, server |-> NoListener]}
            /\ UNCHANGED <<sockets, toPython>>
  BY DEF ConnectSocket, Serves
<1>3. port \in Ports
  BY PortFound DEF Ports
<1>4. /\ made' \in Seq([protocol : Protocols, port : Ports, peer : Peers])
      /\ Len(made') = Len(made) + 1 /\ PortsInv' /\ DOMAIN ports' = DOMAIN ports \cup {port}
  BY <1>1, <1>2, <1>3, MakeSocketOK
<1>5. /\ toPython' \in Seq(Messages) /\ sockets' \in SUBSET Nat
      /\ opening' \in SUBSET [socket : Nat, call : Nat, server : Nat]
  <2>1. socket \in Nat /\ Answer(m.call, "SocketConnected", socket) \in Messages
    BY <1>1, MessageType
  <2> HIDE DEF socket, port
  <2>2. toPython' \in Seq(Messages)
    BY <1>1, <1>2, <2>1, EmitOne DEF TypeOK
  <2>3. [socket |-> socket, call |-> m.call, server |-> NoListener]
          \in [socket : Nat, call : Nat, server : Nat]
    BY <1>1, <2>1 DEF NoListener
  <2> QED BY <1>1, <1>2, <2>1, <2>2, <2>3 DEF TypeOK
<1>6. TypeOK'
  BY <1>1, <1>2, <1>4, <1>5 DEF TypeOK, program, history
<1>7. CountInv'
  <2>1. Len(made') <= Len(made) + 1 /\ Len(made') \in Nat
    BY <1>1, <1>4
  <2> HIDE DEF port
  <2> QED BY <1>4, <2>1, OnePortMore
<1> QED BY <1>1, <1>4, <1>6, <1>7 DEF BaseInv

LEMMA CloseSocketBase ==
  ASSUME NEW m, Serves(m), m.op = "CloseSocket", CloseSocket(m.call, m.arg)
  PROVE  BaseInv'
<1>1. /\ TypeOK /\ m.call \in Nat /\ m.arg \in Nat
      /\ toNode' \in Seq(Requests) /\ PortsInv /\ Len(made) \in Nat
  BY Served DEF ArgumentOK
<1>2. UNCHANGED <<servers, made, opening, works, exited, history, program, frames>>
  BY DEF CloseSocket, Serves
<1>3. CASE /\ CloseInner(m.arg) /\ sockets' = sockets \ {m.arg}
           /\ Emit(<<SocketClosed(m.arg), Success(m.call)>>)
  <2>1. toPython' \in Seq(Messages)
    BY <1>1, <1>3, EmitTwo, MessageType DEF TypeOK
  <2>2. streams' \in [Sockets -> StreamSockets]
    <3>1. /\ streams \in [Sockets -> StreamSockets]
          /\ streams' = [streams EXCEPT ![m.arg] = AbortLoop(streams[m.arg])]
      BY <1>1, <1>3 DEF CloseInner, TypeOK
    <3>2. m.arg \in Sockets => AbortLoop(streams[m.arg]) \in StreamSockets
      BY <3>1, NoEntryType, StreamType
    <3> QED BY <3>1, <3>2
  <2>3. TypeOK'
    BY <1>1, <1>2, <1>3, <2>1, <2>2 DEF TypeOK, program, history
  <2>4. PortsOK(ports', Len(made)) /\ DOMAIN ports' \subseteq DOMAIN ports
    <3>1. ports' \in {ports, OnSocketClose(ports, m.arg)}
      BY <1>3 DEF CloseInner
    <3> QED BY <1>1, <3>1, CloseOK DEF PortsInv
  <2> QED BY <1>2, <2>3, <2>4, ServedCount DEF BaseInv
<1>4. CASE Emit(<<Failure(m.call)>>) /\ UNCHANGED <<sockets, ports, streams>>
  <2>1. toPython' \in Seq(Messages)
    BY <1>1, <1>4, EmitOne, MessageType DEF TypeOK
  <2>2. TypeOK'
    BY <1>1, <1>2, <1>4, <2>1 DEF TypeOK, program, history
  <2> QED BY <1>1, <1>2, <1>4, <2>2, ServedCount DEF BaseInv, PortsInv
<1> QED BY <1>3, <1>4 DEF CloseSocket

LEMMA SendDataBase ==
  ASSUME NEW m, Serves(m), m.op = "SendData", SendData(m.call, m.arg[1], m.arg[2])
  PROVE  BaseInv'
<1> DEFINE socket == m.arg[1]
           entry == StreamEntry(m.call, m.arg[2])
<1>1. /\ TypeOK /\ m.call \in Nat /\ socket \in Nat /\ m.arg[2] \in Nat
      /\ toNode' \in Seq(Requests) /\ PortsInv
  BY Served, IpcAssumption DEF ArgumentOK
<1>2. UNCHANGED <<servers, sockets, ports, made, opening, exited, history, program, frames>>
  BY DEF SendData, Serves
<1>3. /\ toPython' = toPython \/ Emit(<<Failure(m.call)>>)
      /\ works' \in {works, works \cup {m.call}}
      /\ streams' \in {streams, [streams EXCEPT ![socket] = StreamSend(streams[socket], entry)]}
  BY DEF SendData, SendInner
<1>4. entry \in Entries
  BY <1>1 DEF StreamEntry, Entries
<1> HIDE DEF socket, entry
<1>5. toPython' \in Seq(Messages)
  BY <1>1, <1>3, EmitOne, MessageType DEF TypeOK
<1>6. streams' \in [Sockets -> StreamSockets]
  <2>1. streams \in [Sockets -> StreamSockets]
    BY <1>1 DEF TypeOK
  <2>2. socket \in Sockets => StreamSend(streams[socket], entry) \in StreamSockets
    BY <1>4, <2>1, StreamType
  <2> QED BY <1>3, <2>1, <2>2
<1>7. TypeOK'
  BY <1>1, <1>2, <1>3, <1>5, <1>6 DEF TypeOK, program, history
<1> QED BY <1>1, <1>2, <1>7, ServedCount DEF BaseInv, PortsInv

LEMMA SendHelloBase ==
  ASSUME NEW m, Serves(m), SendHello(m.call) \/ Terminate
  PROVE  BaseInv'
<1>1. /\ TypeOK /\ m.call \in Nat /\ toNode' \in Seq(Requests) /\ PortsInv
  BY Served
<1>2. /\ UNCHANGED <<toPython, tables, history, program, frames>>
      /\ works' \in {works, works \cup {m.call}} /\ exited' \in BOOLEAN
  BY <1>1 DEF SendHello, Terminate, Serves, TypeOK
<1>3. TypeOK'
  BY <1>1, <1>2 DEF TypeOK, program, history, tables
<1> QED BY <1>1, <1>2, <1>3, ServedCount DEF BaseInv, PortsInv, tables

LEMMA HandleRequestBase ==
  ASSUME BaseInv, HandleRequest
  PROVE  BaseInv'
BY RequestCases, StartServerBase, CloseServerBase, ConnectSocketBase, SendDataBase,
   CloseSocketBase, SendHelloBase

-----------------------------------------------------------------------------
(* The other steps of the node.                                             *)

LEMMA WorkBase ==
  ASSUME BaseInv, NEW c \in works, Work(c)
  PROVE  BaseInv'
<1>1. TypeOK /\ c \in Nat /\ frames \in Nat
  <2>1. TypeOK
    BY DEF BaseInv
  <2>2. works \subseteq Nat /\ frames \in Nat
    BY <2>1 DEF TypeOK
  <2> QED BY <2>1, <2>2
<1>2. /\ works' = works \ {c}
      /\ Emit(<<Success(c)>>) \/ Emit(<<Failure(c)>>)
      /\ UNCHANGED <<program, toNode, exited, tables, frames, history>>
  BY DEF Work
<1>3. toPython' \in Seq(Messages)
  BY <1>1, <1>2, EmitOne, MessageType DEF TypeOK
<1>4. TypeOK'
  BY <1>1, <1>2, <1>3 DEF TypeOK, program, tables, history
<1> QED BY <1>1, <1>2, <1>4, SameRequests DEF BaseInv, program, tables

LEMMA OpeningBase ==
  ASSUME BaseInv, NEW o \in opening, Opened(o) \/ OpeningFailed(o)
  PROVE  BaseInv'
<1>1. TypeOK /\ o.socket \in Nat /\ o.call \in Nat /\ o.server \in Nat /\ frames \in Nat
  <2>1. TypeOK
    BY DEF BaseInv
  <2>2. opening \in SUBSET [socket : Nat, call : Nat, server : Nat] /\ frames \in Nat
    BY <2>1 DEF TypeOK
  <2> QED BY <2>1, <2>2
<1>2. /\ opening' = opening \ {o} /\ sockets' \in {sockets, sockets \cup {o.socket}}
      /\ orphans' \in {orphans, orphans \cup {o.socket}}
      /\ streams' \in {streams, [streams EXCEPT ![o.socket] = NewStream]}
      /\ \/ UNCHANGED toPython
         \/ Emit(<<Failure(o.call)>>)
         \/ Emit(<<Answer(o.call, "SocketConnected", o.socket)>>)
         \/ Emit(<<ServerSocketConnected(o.server, o.socket)>>)
      /\ UNCHANGED <<program, toNode, exited, servers, ports, made, works, frames, emitted>>
  BY DEF Opened, OpeningFailed, AddStream, history
<1>3. toPython' \in Seq(Messages)
  BY <1>1, <1>2, EmitOne, MessageType DEF TypeOK
<1>4. streams' \in [Sockets -> StreamSockets]
  <2>1. NewStream \in StreamSockets
    BY StreamType DEF Entries, StreamSockets, NewStream, NewSender, NoEntry, StreamEntry, Receiver
  <2> QED BY <1>1, <1>2, <2>1 DEF TypeOK
<1>5. TypeOK'
  BY <1>1, <1>2, <1>3, <1>4 DEF TypeOK, program
<1> QED BY <1>1, <1>2, <1>5, SameRequests DEF BaseInv, program

LEMMA ReceiveAtBase ==
  ASSUME BaseInv, NEW socket \in Nat, ReceiveAt(socket, frames'), frames < MaxFrames,
         frames' = frames + 1,
         UNCHANGED <<program, toNode, exited, servers, streams, works, orphans>>
  PROVE  BaseInv'
<1>1. TypeOK /\ frames \in Nat /\ frames' \in Nat /\ frames' \in 0..MaxFrames
  BY IpcAssumption DEF BaseInv, TypeOK
<1>2. /\ \/ UNCHANGED toPython
         \/ Emit(<<SocketReceived(socket, frames')>>)
      /\ emitted' \in {emitted, [emitted EXCEPT ![socket] = Append(emitted[socket], frames')]}
      /\ UNCHANGED <<sockets, ports, made, opening>>
  BY DEF ReceiveAt
<1>3. toPython' \in Seq(Messages)
  BY <1>1, <1>2, EmitOne, MessageType DEF TypeOK
<1>4. emitted' \in [Sockets -> Seq(Nat)]
  <2>1. socket \in Sockets => Append(emitted[socket], frames') \in Seq(Nat)
    BY <1>1 DEF TypeOK
  <2> QED BY <1>1, <1>2, <2>1 DEF TypeOK
<1>5. TypeOK'
  BY <1>1, <1>2, <1>3, <1>4 DEF TypeOK, program
<1> QED BY <1>1, <1>2, <1>5, SameRequests DEF BaseInv, program

LEMMA AcceptBase ==
  ASSUME BaseInv, NEW s \in servers, NEW port \in Ports, NEW peer \in Peers,
         s.server = PortOf(ports, port).listener,
         Accept(s.server, port, peer, s.protocol, frames'), frames < MaxFrames,
         frames' = frames + 1,
         UNCHANGED <<program, toNode, exited, servers, streams, works, orphans>>
  PROVE  BaseInv'
<1> DEFINE socket == Len(made) + 1
<1>1. /\ TypeOK /\ RequestsInv /\ CountInv /\ PortsInv /\ Len(made) \in Nat
      /\ frames \in Nat /\ frames' \in Nat /\ frames' \in 0..MaxFrames
      /\ s.server \in Nat \ {NoListener} /\ s.protocol \in Protocols
  BY IpcAssumption, LenProperties DEF BaseInv, TypeOK
<1>2. /\ MakeSocket(s.protocol, port, peer)
      /\ \/ /\ sockets' = sockets \cup {socket} /\ UNCHANGED opening
            /\ Emit(<<ServerSocketConnected(s.server, socket), SocketReceived(socket, frames')>>)
            /\ emitted' = [emitted EXCEPT ![socket] = <<frames'>>]
         \/ /\ opening' = opening \cup {[socket |-> socket, call |-> 0, server |-> s.server]}
            /\ UNCHANGED <<sockets, toPython, emitted>>
  BY DEF Accept
<1>3. /\ made' \in Seq([protocol : Protocols, port : Ports, peer : Peers])
      /\ Len(made') = Len(made) + 1 /\ PortsInv' /\ DOMAIN ports' = DOMAIN ports \cup {port}
  BY <1>1, <1>2, MakeSocketOK
<1>4. port \in DOMAIN ports
  BY <1>1 DEF PortOf, NewPort
<1>5. /\ toPython' \in Seq(Messages) /\ sockets' \in SUBSET Nat
      /\ opening' \in SUBSET [socket : Nat, call : Nat, server : Nat]
      /\ emitted' \in [Sockets -> Seq(Nat)]
  <2>1. /\ socket \in Nat /\ ServerSocketConnected(s.server, socket) \in Messages
        /\ SocketReceived(socket, frames') \in Messages /\ <<frames'>> \in Seq(Nat)
        /\ [socket |-> socket, call |-> 0, server |-> s.server]
             \in [socket : Nat, call : Nat, server : Nat]
    BY <1>1, MessageType
  <2> HIDE DEF socket
  <2>2. toPython' \in Seq(Messages)
    BY <1>1, <1>2, <2>1, EmitTwo DEF TypeOK
  <2>3. emitted' \in [Sockets -> Seq(Nat)]
    BY <1>1, <1>2, <2>1 DEF TypeOK
  <2>4. sockets' \in SUBSET Nat /\ opening' \in SUBSET [socket : Nat, call : Nat, server : Nat]
    BY <1>1, <1>2, <2>1 DEF TypeOK
  <2> QED BY <2>2, <2>3, <2>4
<1>6. TypeOK'
  BY <1>1, <1>3, <1>5 DEF TypeOK, program
<1>7. RequestsInv'
  BY <1>1 DEF RequestsInv, ArgumentOK, program
<1>8. CountInv'
  <2>1. DOMAIN ports' = DOMAIN ports /\ calls' = calls /\ toNode' = toNode
    BY <1>3, <1>4 DEF program
  <2>2. Len(toNode) \in Nat /\ Len(calls) \in Nat
    BY <1>1, LenProperties DEF TypeOK
  <2> QED BY <1>1, <1>3, <2>1, <2>2 DEF CountInv
<1> QED BY <1>3, <1>6, <1>7, <1>8 DEF BaseInv

LEMMA ReceivedFrameBase ==
  ASSUME BaseInv, NEW peer \in Peers, NEW port \in Ports, HandleReceivedFrame(peer, port)
  PROVE  BaseInv'
<1>1. SocketsOf(ports, port, peer) \subseteq Nat
  <2>1. \A s \in PortOf(ports, port).senders : s.socket \in 1..Len(made)
    BY PortOfType, LenProperties DEF BaseInv, PortsInv, TypeOK
  <2> QED BY <2>1 DEF SocketsOf
<1> QED BY <1>1, ReceiveAtBase, AcceptBase DEF HandleReceivedFrame

LEMMA StreamBase ==
  ASSUME BaseInv, NEW socket \in Sockets,
         \/ StreamTakes(socket) \/ StreamFrameOk(socket)
         \/ StreamEntryDone(socket) \/ StreamFrameFails(socket)
  PROVE  BaseInv'
<1> DEFINE s == streams[socket]
<1>1. TypeOK /\ s \in StreamSockets /\ s.current.call \in Nat /\ frames \in Nat
  <2>1. TypeOK
    BY DEF BaseInv
  <2>2. frames \in Nat /\ s \in StreamSockets
    BY <2>1 DEF TypeOK
  <2> QED BY <2>1, <2>2 DEF StreamSockets, Entries
<1>2. \E t \in StreamSockets : SetStream(socket, t)
  <2>1. NoEntry \in Entries
    BY NoEntryType
  <2>2. CASE StreamTakes(socket)
    BY <1>1, <2>1, <2>2, StreamType DEF StreamTakes
  <2>3. CASE StreamFrameOk(socket)
    BY <1>1, <2>1, <2>3, StreamType DEF StreamFrameOk
  <2>4. CASE StreamEntryDone(socket)
    BY <1>1, <2>1, <2>4, StreamType DEF StreamEntryDone
  <2>5. CASE StreamFrameFails(socket)
    BY <1>1, <2>1, <2>5, StreamType DEF StreamFrameFails
  <2> QED BY <2>2, <2>3, <2>4, <2>5
<1>3. \/ UNCHANGED toPython
      \/ Emit(<<Success(s.current.call)>>) \/ Emit(<<Failure(s.current.call)>>)
  BY DEF StreamTakes, StreamFrameOk, StreamEntryDone, StreamFrameFails
<1> HIDE DEF s
<1>4. toPython' \in Seq(Messages)
  BY <1>1, <1>3, EmitOne, MessageType DEF TypeOK
<1>5. /\ streams' \in [Sockets -> StreamSockets]
      /\ UNCHANGED <<program, toNode, exited, servers, sockets, ports, made, opening, works, frames,
                     history>>
  BY <1>1, <1>2 DEF SetStream, TypeOK
<1>6. TypeOK'
  BY <1>1, <1>4, <1>5 DEF TypeOK, program, history
<1> QED BY <1>1, <1>5, <1>6, SameRequests DEF BaseInv, program

LEMMA BaseNext ==
  ASSUME BaseInv, [Next]_vars
  PROVE  BaseInv'
<1>1. CASE UNCHANGED vars
  BY <1>1 DEF vars, program, tables, history, BaseInv, TypeOK, RequestsInv, ArgumentOK, CountInv,
              PortsInv
<1>2. CASE Next
  BY <1>2, CallBase, ReceivedFrameBase, GetResponseBase, HandleBase, HandleRequestBase, WorkBase,
     OpeningBase, StreamBase DEF Next, Answering
<1> QED BY <1>1, <1>2

-----------------------------------------------------------------------------
(* What the messages on their way will make known: steps that append some.  *)

SocketInv == FreshInv /\ KnownInv /\ ClosedInv /\ ReceivedInOrder

Appends ==
  /\ toPython \in Seq(Messages) /\ toPython' \in Seq(Messages)
  /\ Len(toPython) \in Nat /\ Len(toPython') \in Nat /\ Len(toPython) <= Len(toPython')
  /\ \A i \in 1..Len(toPython) : toPython'[i] = toPython[i]
  /\ UNCHANGED <<known, received>>

Added == (Len(toPython) + 1)..Len(toPython')

LEMMA ServerKnownStays ==
  ASSUME Appends, NEW server, NEW i \in 0..Len(toPython), ServerKnownAt(server, i),
         NEW j \in i..Len(toPython'),
         \A k \in (i + 1)..j : ~ClosesServer(toPython'[k], server)
  PROVE  ServerKnownAt(server, j)'
<1>1. /\ i \in Nat /\ j \in Nat /\ i <= j /\ i <= Len(toPython) /\ Len(toPython) \in Nat
      /\ known' = known /\ \A k \in 1..Len(toPython) : toPython'[k] = toPython[k]
  BY DEF Appends
<1>2. CASE server \in known.servers /\ \A k \in 1..i : ~ClosesServer(toPython[k], server)
  <2>1. \A k \in 1..j : ~ClosesServer(toPython'[k], server)
    BY <1>1, <1>2
  <2> QED BY <1>1, <1>2, <2>1 DEF ServerKnownAt, ClosesServer
<1>3. ASSUME NEW h \in 1..i, StartsServer(toPython[h], server),
             \A k \in (h + 1)..i : ~ClosesServer(toPython[k], server)
      PROVE  ServerKnownAt(server, j)'
  <2>1. h \in 1..j /\ toPython'[h] = toPython[h]
    BY <1>1
  <2>2. \A k \in (h + 1)..j : ~ClosesServer(toPython'[k], server)
    BY <1>1, <1>3
  <2> QED BY <1>3, <2>1, <2>2 DEF ServerKnownAt, ClosesServer, StartsServer
<1> QED BY <1>2, <1>3 DEF ServerKnownAt

LEMMA SocketKnownStays ==
  ASSUME Appends, NEW socket, NEW i \in 0..Len(toPython), SocketKnownAt(socket, i),
         NEW j \in i..Len(toPython'),
         \A k \in (i + 1)..j : ~TellsClose(toPython'[k], socket)
  PROVE  SocketKnownAt(socket, j)'
<1>1. /\ i \in Nat /\ j \in Nat /\ i <= j /\ i <= Len(toPython) /\ Len(toPython) \in Nat
      /\ known' = known /\ \A k \in 1..Len(toPython) : toPython'[k] = toPython[k]
      /\ Len(toPython) <= Len(toPython')
  BY DEF Appends
<1>2. CASE socket \in known.sockets /\ \A k \in 1..i : ~TellsClose(toPython[k], socket)
  <2>1. \A k \in 1..j : ~TellsClose(toPython'[k], socket)
    BY <1>1, <1>2
  <2> QED BY <1>1, <1>2, <2>1 DEF SocketKnownAt, TellsClose
<1>3. ASSUME NEW h \in 1..i, MakesKnown(h, socket),
             \A k \in (h + 1)..i : ~TellsClose(toPython[k], socket)
      PROVE  SocketKnownAt(socket, j)'
  <2>1. h \in 1..j /\ toPython'[h] = toPython[h] /\ h \in 0..Len(toPython)
    BY <1>1
  <2>2. \A k \in (h + 1)..j : ~TellsClose(toPython'[k], socket)
    BY <1>1, <1>3
  <2>3. MakesKnown(h, socket)'
    <3>1. ASSUME toPython[h].to = "event" PROVE ServerKnownAt(toPython[h].server, h)'
      <4>1. ServerKnownAt(toPython[h].server, h)
        BY <1>3, <3>1 DEF MakesKnown
      <4> QED BY <1>1, <2>1, <4>1, ServerKnownStays
    <3> QED BY <1>3, <2>1, <3>1 DEF MakesKnown, Announces
  <2> QED BY <2>1, <2>2, <2>3 DEF SocketKnownAt, TellsClose
<1> QED BY <1>2, <1>3 DEF SocketKnownAt

(* A message that announces a server or a socket.                           *)
LEMMA ServerBecomesKnown ==
  ASSUME NEW server, NEW i \in Nat, i \in 1..Len(toPython'),
         StartsServer(toPython'[i], server)
  PROVE  ServerKnownAt(server, i)'
BY DEF ServerKnownAt, StartsServer

LEMMA SocketBecomesKnown ==
  ASSUME NEW socket, NEW i \in Nat, NEW j \in Nat, i \in 1..j,
         Announces(toPython'[i], socket),
         toPython'[i].to = "event" => ServerKnownAt(toPython[i].server, i)',
         \A k \in (i + 1)..j : ~TellsClose(toPython'[k], socket)
  PROVE  SocketKnownAt(socket, j)'
<1>1. MakesKnown(i, socket)'
  BY DEF MakesKnown, Announces
<1> QED BY <1>1 DEF SocketKnownAt, TellsClose

(* KnownInv after a step that appends messages: the servers that stay are   *)
(* not told to be closed, nor are the sockets.                              *)
LEMMA KnownStep ==
  ASSUME Appends, KnownInv,
         \A s \in servers' :
           \/ s \in servers /\ \A k \in Added : ~ClosesServer(toPython'[k], s.server)
           \/ ServerKnownAt(s.server, Len(toPython))',
         \A socket \in sockets' \ orphans' :
           \/ /\ socket \in sockets \ orphans
              /\ \A k \in Added : ~TellsClose(toPython'[k], socket)
           \/ /\ SocketKnownAt(socket, Len(toPython))'
              /\ \A i \in 1..Len(toPython') :
                   HandsData(toPython'[i], socket) => SocketKnownAt(socket, i)'
  PROVE  KnownInv'
<1>1. /\ Len(toPython) \in Nat /\ Len(toPython') \in Nat /\ Len(toPython) <= Len(toPython')
      /\ \A i \in 1..Len(toPython) : toPython'[i] = toPython[i]
  BY DEF Appends
<1>2. ASSUME NEW s \in servers' PROVE ServerKnownAt(s.server, Len(toPython))'
  <2>1. CASE s \in servers /\ \A k \in Added : ~ClosesServer(toPython'[k], s.server)
    <3>1. ServerKnownAt(s.server, Len(toPython))
      BY <2>1 DEF KnownInv
    <3> QED BY <1>1, <2>1, <3>1, ServerKnownStays DEF Added
  <2> QED BY <2>1
<1>3. ASSUME NEW socket \in sockets' \ orphans'
      PROVE  /\ SocketKnownAt(socket, Len(toPython))'
             /\ \A i \in 1..Len(toPython') :
                  HandsData(toPython'[i], socket) => SocketKnownAt(socket, i)'
  <2>1. CASE /\ socket \in sockets \ orphans
             /\ \A k \in Added : ~TellsClose(toPython'[k], socket)
    <3>1. ASSUME NEW j \in Len(toPython)..Len(toPython') PROVE SocketKnownAt(socket, j)'
      <4>1. SocketKnownAt(socket, Len(toPython))
        BY <2>1 DEF KnownInv
      <4> QED BY <1>1, <2>1, <4>1, SocketKnownStays DEF Added
    <3>2. ASSUME NEW i \in 1..Len(toPython), HandsData(toPython'[i], socket)
          PROVE  SocketKnownAt(socket, i)'
      <4>1. SocketKnownAt(socket, i)
        BY <1>1, <2>1, <3>2 DEF KnownInv
      <4> QED BY <1>1, <4>1, SocketKnownStays
    <3> QED BY <1>1, <3>1, <3>2
  <2> QED BY <2>1
<1> QED BY <1>2, <1>3 DEF KnownInv, HandsData

LEMMA ClosedStep ==
  ASSUME Appends, ClosedInv,
         \A socket \in sockets :
           socket \in sockets' \/ \E k \in Added : TellsClose(toPython'[k], socket),
         \A k \in Added : \A socket \in Nat :
           Announces(toPython'[k], socket) => socket \in sockets'
  PROVE  ClosedInv'
<1>1. /\ Len(toPython) \in Nat /\ Len(toPython') \in Nat /\ Len(toPython) <= Len(toPython')
      /\ \A i \in 1..Len(toPython) : toPython'[i] = toPython[i] /\ known' = known
  BY DEF Appends
<1>2. ASSUME NEW socket \in known'.sockets
      PROVE  socket \in sockets' \/ \E k \in 1..Len(toPython') : TellsClose(toPython'[k], socket)
  BY <1>1 DEF ClosedInv, Added, Appends
<1>3. ASSUME NEW socket \in Nat, NEW i \in 1..Len(toPython'), Announces(toPython'[i], socket)
      PROVE  \/ socket \in sockets'
             \/ \E k \in (i + 1)..Len(toPython') : TellsClose(toPython'[k], socket)
  <2>1. CASE i \in Added
    BY <1>3, <2>1
  <2>2. CASE i \in 1..Len(toPython)
    <3>1. \/ socket \in sockets
          \/ \E k \in (i + 1)..Len(toPython) : TellsClose(toPython[k], socket)
      BY <1>1, <1>3, <2>2 DEF ClosedInv
    <3> QED BY <1>1, <3>1, <2>2 DEF Added
  <2> QED BY <1>1, <2>1, <2>2 DEF Added
<1> QED BY <1>2, <1>3 DEF ClosedInv, Announces, TellsClose

-----------------------------------------------------------------------------
(* The order of what is received.                                           *)

(* What ReceivedInOrder says of one socket.                                 *)
InOrder(socket) ==
  LET before == Len(received[socket])
  IN  /\ Len(emitted[socket]) = before + Cardinality(Handed(socket, Len(toPython)))
      /\ \A k \in 1..before : received[socket][k] = emitted[socket][k]
      /\ \A i \in Handed(socket, Len(toPython)) :
           toPython[i].data = emitted[socket][before + Cardinality(Handed(socket, i))]

LEMMA HandedType ==
  ASSUME NEW socket, NEW i \in Nat
  PROVE  IsFiniteSet(Handed(socket, i)) /\ Cardinality(Handed(socket, i)) \in Nat
<1>1. IsFiniteSet(1..i)
  BY FS_Interval
<1>2. Handed(socket, i) \subseteq 1..i
  BY DEF Handed
<1> QED BY <1>1, <1>2, FS_Subset, FS_CardinalityType

(* The same messages are handed, where none is added for the socket.        *)
LEMMA HandedStays ==
  ASSUME Appends, NEW socket, NEW i \in 0..Len(toPython), NEW j \in i..Len(toPython'),
         \A k \in (i + 1)..j : ~HandsData(toPython'[k], socket)
  PROVE  Handed(socket, j)' = Handed(socket, i)
<1>1. /\ Len(toPython) \in Nat /\ i \in Nat /\ j \in Nat /\ i <= j
      /\ \A k \in 1..Len(toPython) : toPython'[k] = toPython[k]
  BY DEF Appends
<1>2. \A k \in 1..i : HandsData(toPython[k], socket)' <=> HandsData(toPython[k], socket)
  BY <1>1 DEF HandsData
<1>3. \A k \in (i + 1)..j : ~HandsData(toPython[k], socket)'
  BY DEF HandsData
<1>4. \A k \in Nat : k \in 1..j <=> k \in 1..i \/ k \in (i + 1)..j
  BY <1>1
<1> QED BY <1>1, <1>2, <1>3, <1>4 DEF Handed

LEMMA InOrderStays ==
  ASSUME Appends, NEW socket, InOrder(socket), emitted'[socket] = emitted[socket],
         \A k \in Added : ~HandsData(toPython'[k], socket)
  PROVE  InOrder(socket)'
<1>1. /\ Len(toPython) \in Nat /\ Len(toPython') \in Nat /\ Len(toPython) <= Len(toPython')
      /\ received' = received /\ \A k \in 1..Len(toPython) : toPython'[k] = toPython[k]
  BY DEF Appends
<1>2. Handed(socket, Len(toPython))' = Handed(socket, Len(toPython))
  BY <1>1, HandedStays DEF Added
<1>3. ASSUME NEW i \in Handed(socket, Len(toPython))
      PROVE  /\ Handed(socket, i)' = Handed(socket, i) /\ toPython'[i] = toPython[i]
  BY <1>1, HandedStays DEF Handed
<1> QED BY <1>1, <1>2, <1>3 DEF InOrder

(* A socket that has been handed nothing.                                   *)
LEMMA InOrderNothing ==
  ASSUME NEW socket, received'[socket] = <<>>, emitted'[socket] = <<>>,
         \A k \in 1..Len(toPython') : ~HandsData(toPython'[k], socket)
  PROVE  InOrder(socket)'
<1>1. Handed(socket, Len(toPython))' = {}
  BY DEF Handed, HandsData
<1>2. Cardinality({}) = 0
  BY FS_EmptySet
<1> QED BY <1>1, <1>2 DEF InOrder

(* A socket is handed something: the last message.                          *)
LEMMA InOrderMore ==
  ASSUME Appends, NEW socket, InOrder(socket), NEW data \in Nat,
         received[socket] \in Seq(Nat), emitted[socket] \in Seq(Nat),
         emitted'[socket] = Append(emitted[socket], data),
         Len(toPython') > Len(toPython),
         HandsData(toPython'[Len(toPython')], socket),
         toPython'[Len(toPython')].data = data,
         \A k \in Added : k # Len(toPython') => ~HandsData(toPython'[k], socket)
  PROVE  InOrder(socket)'
<1> DEFINE n == Len(toPython)
           last == Len(toPython')
           before == Len(received[socket])
           all == Cardinality(Handed(socket, n))
<1>1. /\ n \in Nat /\ last \in Nat /\ n < last /\ before \in Nat /\ all \in Nat
      /\ received' = received /\ \A k \in 1..n : toPython'[k] = toPython[k]
      /\ Len(emitted[socket]) = before + all
  BY HandedType, LenProperties DEF Appends, InOrder
<1>2. ASSUME NEW i \in 1..n
      PROVE  Handed(socket, i)' = Handed(socket, i) /\ toPython'[i] = toPython[i]
  <2>1. i \in 0..Len(toPython) /\ i \in i..Len(toPython') /\ (i + 1)..i = {}
    BY <1>1
  <2> QED BY <1>1, <2>1, HandedStays
<1>3. /\ Handed(socket, Len(toPython))' = Handed(socket, n) \cup {last}
      /\ last \notin Handed(socket, n)
  <2>1. \A k \in 1..n : HandsData(toPython[k], socket)' <=> HandsData(toPython[k], socket)
    BY <1>1 DEF HandsData
  <2>2. \A k \in (n + 1)..last : k # last => ~HandsData(toPython[k], socket)'
    BY DEF HandsData, Added
  <2>3. HandsData(toPython[Len(toPython)], socket)'
    BY DEF HandsData
  <2>4. \A k \in 1..last : k \in 1..n \/ k \in (n + 1)..last
    BY <1>1
  <2>5. 1..n \subseteq 1..last /\ last \in 1..last /\ last \notin 1..n
    BY <1>1
  <2> QED BY <2>1, <2>2, <2>3, <2>4, <2>5 DEF Handed
<1>4. Cardinality(Handed(socket, Len(toPython)))' = all + 1
  <2>1. IsFiniteSet(Handed(socket, n))
    BY <1>1, HandedType
  <2>2. Cardinality(Handed(socket, n) \cup {last}) = all + 1
    BY <1>3, <2>1, FS_AddElement
  <2> QED BY <1>3, <2>2
<1>5. /\ Len(emitted'[socket]) = before + all + 1
      /\ emitted'[socket][before + all + 1] = data
      /\ \A k \in 1..(before + all) : emitted'[socket][k] = emitted[socket][k]
  BY <1>1, AppendProperties
<1>6. \A k \in 1..before : received[socket][k] = emitted'[socket][k]
  <2>1. \A k \in 1..before : received[socket][k] = emitted[socket][k]
    BY DEF InOrder
  <2>2. \A k \in 1..before : k \in 1..(before + all)
    BY <1>1
  <2> HIDE DEF before, all
  <2> QED BY <1>5, <2>1, <2>2
<1>7. ASSUME NEW i \in Handed(socket, n)
      PROVE  toPython'[i].data = emitted'[socket][before + Cardinality(Handed(socket, i))']
  <2>1. i \in 1..n /\ Handed(socket, i) \subseteq Handed(socket, n)
    BY <1>1 DEF Handed
  <2>2. i \in Handed(socket, i) /\ IsFiniteSet(Handed(socket, n)) /\ IsFiniteSet(Handed(socket, i))
    <3>1. i \in Nat /\ i \in 1..i /\ HandsData(toPython[i], socket)
      BY <1>1, <2>1 DEF Handed
    <3>2. i \in Handed(socket, i)
      BY <3>1 DEF Handed
    <3> QED BY <1>1, <3>1, <3>2, HandedType
  <2>3. Cardinality(Handed(socket, i)) \in 1..all
    <3>1. Cardinality(Handed(socket, i)) <= all /\ Cardinality(Handed(socket, i)) \in Nat
      BY <1>1, <2>1, <2>2, FS_Subset, FS_CardinalityType
    <3>2. Cardinality(Handed(socket, i)) # 0
      BY <2>2, FS_EmptySet
    <3> QED BY <1>1, <3>1, <3>2
  <2>4. toPython[i].data = emitted[socket][before + Cardinality(Handed(socket, i))]
    BY DEF InOrder
  <2>5. /\ toPython'[i].data = toPython[i].data
        /\ Cardinality(Handed(socket, i))' = Cardinality(Handed(socket, i))
        /\ before + Cardinality(Handed(socket, i)) \in 1..(before + all)
    <3>1. toPython'[i].data = toPython[i].data /\ Handed(socket, i)' = Handed(socket, i)
      BY <1>2, <2>1
    <3>2. before + Cardinality(Handed(socket, i)) \in 1..(before + all)
      <4> HIDE DEF before, all
      <4> QED BY <1>1, <2>3
    <3> QED BY <3>1, <3>2
  <2> HIDE DEF before, all
  <2> QED BY <1>5, <2>4, <2>5 DEF before
<1>8. \A i \in Handed(socket, Len(toPython))' :
        toPython'[i].data = emitted'[socket][before + Cardinality(Handed(socket, i))']
  <2>1. toPython'[last].data = emitted'[socket][before + Cardinality(Handed(socket, Len(toPython)))']
    <3> HIDE DEF before, all, last
    <3>1. toPython'[last].data = data
      BY DEF last
    <3>2. before + (all + 1) = before + all + 1
      BY <1>1
    <3>3. emitted'[socket][before + Cardinality(Handed(socket, Len(toPython)))'] = data
      BY <1>4, <1>5, <3>2
    <3> QED BY <3>1, <3>3
  <2> QED BY <1>3, <1>7, <2>1
<1>9. Len(received'[socket]) = before /\ received'[socket] = received[socket]
  BY <1>1
<1>10. Len(emitted'[socket])
         = Len(received'[socket]) + Cardinality(Handed(socket, Len(toPython)))'
  <2> HIDE DEF all, before
  <2> QED BY <1>1, <1>4, <1>5, <1>9
<1>11. \A k \in 1..Len(received'[socket]) : received'[socket][k] = emitted'[socket][k]
  BY <1>6, <1>9
<1>12. \A i \in Handed(socket, Len(toPython))' :
         toPython'[i].data
           = emitted'[socket][Len(received'[socket]) + Cardinality(Handed(socket, i))']
  BY <1>8, <1>9
<1> HIDE DEF all, before
<1> QED BY <1>10, <1>11, <1>12 DEF InOrder

LEMMA OrderOfAll ==
  ReceivedInOrder <=> \A socket \in sockets \ orphans : InOrder(socket)
BY DEF ReceivedInOrder, InOrder

(* ReceivedInOrder after a step that appends messages.                      *)
LEMMA OrderStep ==
  ASSUME Appends, ReceivedInOrder,
         \A socket \in sockets' \ orphans' :
           \/ /\ socket \in sockets \ orphans /\ emitted'[socket] = emitted[socket]
              /\ \A k \in Added : ~HandsData(toPython'[k], socket)
           \/ InOrder(socket)'
  PROVE  ReceivedInOrder'
<1>1. \A socket \in sockets' \ orphans' : InOrder(socket)'
  BY OrderOfAll, InOrderStays
<1> QED BY <1>1 DEF ReceivedInOrder, InOrder

-----------------------------------------------------------------------------
(* SocketInv: steps that append messages.                                   *)

LEMMA MadeBound ==
  BaseInv => /\ 1..Len(made) \subseteq Sockets /\ Len(made) \in Nat
             /\ toPython \in Seq(Messages) /\ Len(toPython) \in Nat
<1>1. ASSUME BaseInv
      PROVE  /\ 1..Len(made) \subseteq Sockets /\ Len(made) \in Nat
             /\ toPython \in Seq(Messages) /\ Len(toPython) \in Nat
  <2>1. /\ Len(made) \in Nat /\ Len(toNode) \in Nat /\ Len(calls) \in Nat /\ frames \in 0..MaxFrames
        /\ Len(calls) <= MaxCalls /\ Len(made) + Len(toNode) <= Len(calls) + frames
        /\ MaxCalls \in Nat /\ MaxFrames \in Nat
    BY <1>1, LenProperties, IpcAssumption DEF BaseInv, TypeOK, CountInv
  <2>2. toPython \in Seq(Messages) /\ Len(toPython) \in Nat
    BY <1>1, LenProperties DEF BaseInv, TypeOK
  <2> QED BY <2>1, <2>2 DEF Sockets
<1> QED BY <1>1

LEMMA MadeBoundNext ==
  ASSUME BaseInv'
  PROVE  /\ 1..Len(made') \subseteq Sockets /\ Len(made') \in Nat
         /\ toPython' \in Seq(Messages) /\ Len(toPython') \in Nat
<1>1. (BaseInv => /\ 1..Len(made) \subseteq Sockets /\ Len(made) \in Nat
                  /\ toPython \in Seq(Messages) /\ Len(toPython) \in Nat)'
  BY MadeBound, PTL
<1> QED BY <1>1

LEMMA AppendsNone ==
  ASSUME BaseInv, UNCHANGED <<toPython, known, received>>
  PROVE  Appends /\ Added = {} /\ Len(toPython') = Len(toPython)
BY MadeBound DEF Appends, Added

LEMMA AppendsOne ==
  ASSUME BaseInv, NEW m \in Messages, Emit(<<m>>), UNCHANGED <<known, received>>
  PROVE  /\ Appends /\ Added = {Len(toPython) + 1} /\ Len(toPython') = Len(toPython) + 1
         /\ toPython'[Len(toPython) + 1] = m
BY MadeBound, EmitOne DEF Appends, Added

LEMMA AppendsTwo ==
  ASSUME BaseInv, NEW m \in Messages, NEW n \in Messages, Emit(<<m, n>>),
         UNCHANGED <<known, received>>
  PROVE  /\ Appends /\ Added = {Len(toPython) + 1, Len(toPython) + 2}
         /\ Len(toPython') = Len(toPython) + 2
         /\ toPython'[Len(toPython) + 1] = m /\ toPython'[Len(toPython) + 2] = n
BY MadeBound, EmitTwo DEF Appends, Added

(* FreshInv, where no socket becomes fresh.                                 *)
LEMMA FreshStep ==
  ASSUME BaseInv, Appends, FreshInv,
         \A o \in opening' : o.socket \in 1..Len(made'),
         \A o, p \in opening' : o.socket = p.socket => o = p,
         sockets' \subseteq 1..Len(made'),
         \A socket \in Sockets : Fresh(socket)' =>
           /\ Fresh(socket) /\ socket \notin sockets'
           /\ emitted'[socket] = emitted[socket] /\ streams'[socket] = streams[socket]
           /\ \A k \in Added : ~HandsData(toPython'[k], socket)
  PROVE  FreshInv'
<1>1. ASSUME NEW socket \in Sockets, Fresh(socket)'
      PROVE  /\ socket \notin sockets'
             /\ received'[socket] = <<>> /\ emitted'[socket] = <<>> /\ streams'[socket] = NewStream
             /\ \A i \in 1..Len(toPython') : ~HandsData(toPython'[i], socket)
  <2>1. /\ Fresh(socket) /\ socket \notin sockets'
        /\ emitted'[socket] = emitted[socket] /\ streams'[socket] = streams[socket]
        /\ \A k \in Added : ~HandsData(toPython'[k], socket)
    BY <1>1
  <2>2. /\ received[socket] = <<>> /\ emitted[socket] = <<>> /\ streams[socket] = NewStream
        /\ \A i \in 1..Len(toPython) : ~HandsData(toPython[i], socket)
    BY <2>1 DEF FreshInv
  <2>3. /\ received' = received /\ \A i \in 1..Len(toPython) : toPython'[i] = toPython[i]
        /\ Len(toPython) \in Nat /\ Len(toPython') \in Nat
    BY DEF Appends
  <2> QED BY <2>1, <2>2, <2>3 DEF Added
<1> QED BY <1>1 DEF FreshInv, HandsData

(* The answers that say nothing of sockets and servers.                     *)
Plain(m) == m.to = "call" /\ m.kind \in {"Success", "Failure"}

LEMMA PlainSays ==
  ASSUME NEW m, Plain(m)
  PROVE  /\ \A x : ~ClosesServer(m, x) /\ ~TellsClose(m, x) /\ ~HandsData(m, x)
         /\ \A x : ~Announces(m, x) /\ ~StartsServer(m, x)
BY DEF Plain, ClosesServer, TellsClose, HandsData, Announces, StartsServer

LEMMA PlainAnswers ==
  ASSUME NEW c
  PROVE  Plain(Success(c)) /\ Plain(Failure(c))
BY DEF Plain, Success, Failure, Answer

(* Steps that say nothing of sockets and servers.                           *)
LEMMA QuietStep ==
  ASSUME BaseInv, SocketInv, Appends, \A k \in Added : Plain(toPython'[k]),
         UNCHANGED <<servers, sockets, orphans, made, emitted>>, opening' \subseteq opening,
         \A socket \in Sockets : Fresh(socket) => streams'[socket] = streams[socket]
  PROVE  SocketInv'
<1>1. \A k \in Added : \A x :
        /\ ~ClosesServer(toPython'[k], x) /\ ~TellsClose(toPython'[k], x)
        /\ ~HandsData(toPython'[k], x) /\ ~Announces(toPython'[k], x)
  BY PlainSays
<1>2. FreshInv /\ KnownInv /\ ClosedInv /\ ReceivedInOrder
  BY DEF SocketInv
<1>3. FreshInv'
  <2>1. \A socket \in Sockets : Fresh(socket)' => Fresh(socket)
    BY DEF Fresh
  <2>2. \A socket \in Sockets : Fresh(socket) => socket \notin sockets'
    BY <1>2 DEF FreshInv
  <2>3. /\ \A o \in opening' : o.socket \in 1..Len(made')
        /\ \A o, p \in opening' : o.socket = p.socket => o = p
        /\ sockets' \subseteq 1..Len(made')
    BY <1>2 DEF FreshInv
  <2> QED BY <1>1, <1>2, <2>1, <2>2, <2>3, FreshStep
<1>4. KnownInv'
  BY <1>1, <1>2, KnownStep
<1>5. ClosedInv'
  BY <1>1, <1>2, ClosedStep
<1>6. ReceivedInOrder'
  BY <1>1, <1>2, OrderStep
<1> QED BY <1>3, <1>4, <1>5, <1>6 DEF SocketInv

(* A step that says nothing and leaves the tables alone.                    *)
LEMMA SilentSockets ==
  ASSUME BaseInv, SocketInv,
         UNCHANGED <<toPython, known, received, servers, sockets, orphans, made, emitted, opening,
                     streams>>
  PROVE  SocketInv'
<1>1. Appends /\ Added = {}
  BY AppendsNone
<1> QED BY <1>1, QuietStep

(* A plain answer, and nothing else.                                        *)
LEMMA PlainSockets ==
  ASSUME BaseInv, SocketInv, NEW c \in Nat, Emit(<<Success(c)>>) \/ Emit(<<Failure(c)>>),
         UNCHANGED <<known, received, servers, sockets, orphans, made, emitted, streams>>,
         opening' \subseteq opening
  PROVE  SocketInv'
<1>1. PICK m \in {Success(c), Failure(c)} : Emit(<<m>>)
  OBVIOUS
<1>2. m \in Messages /\ Plain(m)
  BY MessageType, PlainAnswers
<1>3. Appends /\ Added = {Len(toPython) + 1} /\ toPython'[Len(toPython) + 1] = m
  BY <1>1, <1>2, AppendsOne
<1> QED BY <1>2, <1>3, QuietStep

LEMMA StartServerSockets ==
  ASSUME NEW m, Serves(m), SocketInv, StartServer(m.call, m.arg[1], m.arg[2])
  PROVE  SocketInv'
<1>1. /\ BaseInv /\ m.call \in Nat
      /\ UNCHANGED <<known, received, sockets, made, opening, streams, orphans, emitted>>
  BY Served DEF Serves, StartServer, program, history
<1>2. CASE Emit(<<Failure(m.call)>>) /\ UNCHANGED servers
  BY <1>1, <1>2, PlainSockets
<1>3. CASE /\ servers' = servers \cup {[server |-> m.call, protocol |-> m.arg[2]]}
           /\ Emit(<<Answer(m.call, "ServerStarted", m.call)>>)
  <2> DEFINE answer == Answer(m.call, "ServerStarted", m.call)
  <2>0. PICK n \in Nat \ {0} : n = Len(toPython) + 1
    BY <1>1, MadeBound
  <2>1. /\ answer \in Messages /\ StartsServer(answer, m.call)
        /\ \A x : /\ ~ClosesServer(answer, x) /\ ~TellsClose(answer, x)
                  /\ ~HandsData(answer, x) /\ ~Announces(answer, x)
    BY <1>1, MessageType
       DEF Answer, StartsServer, ClosesServer, TellsClose, HandsData, Announces
  <2> HIDE DEF answer
  <2>2. Appends /\ Added = {n} /\ Len(toPython') = n /\ toPython'[n] = answer /\ n \in Nat
    BY <1>1, <1>3, <2>0, <2>1, AppendsOne DEF answer
  <2>3. FreshInv /\ KnownInv /\ ClosedInv /\ ReceivedInOrder
    BY DEF SocketInv
  <2>4. FreshInv'
    <3>1. \A socket \in Sockets : Fresh(socket)' <=> Fresh(socket)
      BY <1>1 DEF Fresh
    <3> QED BY <1>1, <2>1, <2>2, <2>3, <3>1, FreshStep DEF FreshInv
  <2>5. KnownInv'
    <3>1. ServerKnownAt(m.call, n)'
      BY <2>1, <2>2, ServerBecomesKnown
    <3>2. ServerKnownAt(m.call, Len(toPython))'
      BY <2>2, <3>1
    <3>3. ASSUME NEW s \in servers'
          PROVE  \/ s \in servers /\ \A k \in Added : ~ClosesServer(toPython'[k], s.server)
                 \/ ServerKnownAt(s.server, Len(toPython))'
      BY <1>3, <2>1, <2>2, <3>2
    <3> QED BY <1>1, <2>1, <2>2, <2>3, <3>3, KnownStep
  <2>6. ClosedInv'
    BY <1>1, <2>1, <2>2, <2>3, ClosedStep
  <2>7. ReceivedInOrder'
    BY <1>1, <2>1, <2>2, <2>3, OrderStep
  <2> QED BY <2>4, <2>5, <2>6, <2>7 DEF SocketInv
<1> QED BY <1>2, <1>3 DEF StartServer

LEMMA CloseServerSockets ==
  ASSUME NEW m, Serves(m), m.op = "CloseServer", SocketInv, CloseServer(m.call, m.arg)
  PROVE  SocketInv'
<1>1. /\ BaseInv /\ m.call \in Nat /\ m.arg \in Nat
      /\ UNCHANGED <<known, received, sockets, made, opening, streams, orphans, emitted>>
  BY Served DEF Serves, CloseServer, program, history, ArgumentOK
<1>2. CASE Emit(<<Failure(m.call)>>) /\ UNCHANGED servers
  BY <1>1, <1>2, PlainSockets
<1>3. CASE /\ servers' = servers \ {s \in servers : s.server = m.arg}
           /\ Emit(<<ServerClosed(m.arg), Success(m.call)>>)
  <2> DEFINE closed == ServerClosed(m.arg)
             answer == Success(m.call)
  <2>1. /\ closed \in Messages /\ answer \in Messages
        /\ \A x : /\ x # m.arg => ~ClosesServer(closed, x)
                  /\ ~TellsClose(closed, x) /\ ~HandsData(closed, x) /\ ~Announces(closed, x)
        /\ \A x : /\ ~ClosesServer(answer, x) /\ ~TellsClose(answer, x)
                  /\ ~HandsData(answer, x) /\ ~Announces(answer, x)
    <3>1. closed \in Messages /\ answer \in Messages
      BY <1>1, MessageType
    <3> QED BY <3>1, PlainSays, PlainAnswers
            DEF ServerClosed, Event, ClosesServer, TellsClose, HandsData, Announces
  <2> HIDE DEF closed, answer
  <2>2. /\ Appends
        /\ \A k \in Added : toPython'[k] = closed \/ toPython'[k] = answer
    BY <1>1, <1>3, <2>1, AppendsTwo DEF closed, answer
  <2>3. FreshInv /\ KnownInv /\ ClosedInv /\ ReceivedInOrder
    BY DEF SocketInv
  <2>4. FreshInv'
    <3>1. \A socket \in Sockets : Fresh(socket)' <=> Fresh(socket)
      BY <1>1 DEF Fresh
    <3> QED BY <1>1, <2>1, <2>2, <2>3, <3>1, FreshStep DEF FreshInv
  <2>5. KnownInv'
    <3>1. ASSUME NEW s \in servers'
          PROVE  s \in servers /\ \A k \in Added : ~ClosesServer(toPython'[k], s.server)
      BY <1>3, <2>1, <2>2
    <3> QED BY <1>1, <2>1, <2>2, <2>3, <3>1, KnownStep
  <2>6. ClosedInv'
    BY <1>1, <2>1, <2>2, <2>3, ClosedStep
  <2>7. ReceivedInOrder'
    BY <1>1, <2>1, <2>2, <2>3, OrderStep
  <2> QED BY <2>4, <2>5, <2>6, <2>7 DEF SocketInv
<1> QED BY <1>2, <1>3 DEF CloseServer

(* A socket of the node is announced, by the answer to a call or for a      *)
(* server that is there: one that has not been open before.                 *)
LEMMA AnnounceStep ==
  ASSUME BaseInv, BaseInv', SocketInv, NEW socket \in 1..Len(made'), NEW m \in Messages,
         Fresh(socket), sockets' = sockets \cup {socket}, socket \notin orphans' => 
           (m.to = "event" => \E s \in servers : s.server = m.server),
         Announces(m, socket), \A x : x # socket => ~Announces(m, x),
         \A x : ~ClosesServer(m, x) /\ ~TellsClose(m, x) /\ ~HandsData(m, x),
         Emit(<<m>>), UNCHANGED <<known, received, servers, emitted, streams>>,
         orphans \subseteq orphans', orphans' \subseteq orphans \cup {socket},
         Len(made') >= Len(made),
         \A o \in opening' : o.socket \in 1..Len(made') /\ o.socket # socket,
         \A o, p \in opening' : o.socket = p.socket => o = p,
         opening' \subseteq opening
  PROVE  SocketInv'
<1>0. PICK n \in Nat \ {0} : n = Len(toPython) + 1
  BY MadeBound
<1>1. Appends /\ Added = {n} /\ Len(toPython') = n /\ toPython'[n] = m /\ n \in Nat
  BY <1>0, AppendsOne
<1>2. /\ FreshInv /\ KnownInv /\ ClosedInv /\ ReceivedInOrder
      /\ 1..Len(made) \subseteq Sockets /\ Len(made) \in Nat /\ Len(toPython) \in Nat
  BY MadeBound DEF SocketInv
<1>3. /\ 1..Len(made') \subseteq Sockets /\ Len(made') \in Nat
  BY MadeBoundNext
<1>4. /\ socket \notin sockets /\ socket \in Sockets
      /\ received[socket] = <<>> /\ emitted[socket] = <<>>
      /\ \A i \in 1..Len(toPython) : ~HandsData(toPython[i], socket)
  BY <1>2, <1>3 DEF FreshInv
<1>5. \A i \in 1..Len(toPython') : ~HandsData(toPython'[i], socket)
  BY <1>0, <1>1, <1>2, <1>4 DEF Appends
<1>6. FreshInv'
  <2>1. ASSUME NEW x \in Sockets, Fresh(x)'
        PROVE  Fresh(x) /\ x # socket /\ x \notin sockets'
    <3>1. ASSUME x > Len(made') PROVE Fresh(x) /\ x # socket
      <4>1. x \in Int
        BY IpcAssumption DEF Sockets
      <4> QED BY <1>2, <1>3, <3>1, <4>1 DEF Fresh
    <3>2. ASSUME \E o \in opening' : o.socket = x PROVE Fresh(x) /\ x # socket
      BY <3>2 DEF Fresh
    <3>3. Fresh(x) /\ x # socket
      BY <2>1, <3>1, <3>2 DEF Fresh
    <3> QED BY <1>2, <2>1, <3>3 DEF FreshInv
  <2>2. sockets' \subseteq 1..Len(made')
    BY <1>2, <1>3 DEF FreshInv
  <2> QED BY <1>1, <1>2, <2>1, <2>2, FreshStep
<1>7. KnownInv'
  <2>1. ASSUME socket \notin orphans' PROVE SocketKnownAt(socket, Len(toPython))'
    <3>1. toPython'[n].to = "event" => ServerKnownAt(toPython[n].server, n)'
      <4>1. ASSUME m.to = "event" PROVE ServerKnownAt(m.server, Len(toPython))
        BY <1>2, <2>1, <4>1 DEF KnownInv
      <4>2. ASSUME m.to = "event" PROVE ServerKnownAt(m.server, n)'
        <5>1. /\ Len(toPython) \in 0..Len(toPython) /\ n \in Len(toPython)..Len(toPython')
              /\ \A k \in (Len(toPython) + 1)..n : ~ClosesServer(toPython'[k], m.server)
          BY <1>0, <1>1, <1>2
        <5> QED BY <1>1, <4>1, <4>2, <5>1, ServerKnownStays
      <4> QED BY <1>1, <4>2
    <3>2. SocketKnownAt(socket, n)'
      BY <1>1, <3>1, SocketBecomesKnown
    <3> QED BY <1>1, <3>2
  <2> QED BY <1>1, <1>2, <1>5, <2>1, KnownStep
<1>8. ClosedInv'
  BY <1>1, <1>2, ClosedStep
<1>9. ReceivedInOrder'
  <2>1. InOrder(socket)'
    BY <1>4, <1>5, InOrderNothing
  <2> QED BY <1>1, <1>2, <2>1, OrderStep
<1> QED BY <1>6, <1>7, <1>8, <1>9 DEF SocketInv

(* A handshake begins, for a tunnel socket that was just made.              *)
LEMMA OpeningStep ==
  ASSUME BaseInv, BaseInv', SocketInv, NEW o, o.socket = Len(made) + 1,
         Len(made') = Len(made) + 1, opening' = opening \cup {o},
         UNCHANGED <<toPython, known, received, servers, sockets, orphans, emitted, streams>>
  PROVE  SocketInv'
<1>1. Appends /\ Added = {} /\ Len(toPython') = Len(toPython)
  BY AppendsNone
<1>2. /\ FreshInv /\ KnownInv /\ ClosedInv /\ ReceivedInOrder
      /\ Len(made) \in Nat /\ Len(made') \in Nat
  BY MadeBound, MadeBoundNext DEF SocketInv
<1>3. FreshInv'
  <2>1. ASSUME NEW x \in Sockets, Fresh(x)' PROVE Fresh(x)
    <3>1. x \in Int
      BY IpcAssumption DEF Sockets
    <3> QED BY <1>2, <2>1, <3>1 DEF Fresh
  <2>2. /\ \A p \in opening' : p.socket \in 1..Len(made')
        /\ \A p, q \in opening' : p.socket = q.socket => p = q
        /\ sockets' \subseteq 1..Len(made')
    <3>1. /\ \A p \in opening : p.socket \in 1..Len(made)
          /\ \A p, q \in opening : p.socket = q.socket => p = q
          /\ sockets \subseteq 1..Len(made)
      BY <1>2 DEF FreshInv
    <3>2. \A p \in opening : p.socket # o.socket
      BY <1>2, <3>1
    <3> QED BY <1>2, <3>1, <3>2
  <2>3. \A x \in Sockets : Fresh(x) => x \notin sockets'
    BY <1>2 DEF FreshInv
  <2> QED BY <1>1, <1>2, <2>1, <2>2, <2>3, FreshStep
<1>4. KnownInv'
  BY <1>1, <1>2, KnownStep
<1>5. ClosedInv'
  BY <1>1, <1>2, ClosedStep
<1>6. ReceivedInOrder'
  BY <1>1, <1>2, OrderStep
<1> QED BY <1>3, <1>4, <1>5, <1>6 DEF SocketInv

(* The messages that announce a socket say nothing else.                    *)
LEMMA AnnouncementSays ==
  ASSUME NEW c, NEW server, NEW socket,
         NEW m \in {Answer(c, "SocketConnected", socket), ServerSocketConnected(server, socket)}
  PROVE  /\ Announces(m, socket) /\ \A x : x # socket => ~Announces(m, x)
         /\ \A x : ~ClosesServer(m, x) /\ ~TellsClose(m, x) /\ ~HandsData(m, x)
BY DEF Answer, ServerSocketConnected, Event, Announces, ClosesServer, TellsClose, HandsData

LEMMA ConnectSocketSockets ==
  ASSUME NEW m, Serves(m), m.op = "ConnectSocket", SocketInv,
         ConnectSocket(m.call, m.arg[1], m.arg[2])
  PROVE  SocketInv'
<1>1. /\ BaseInv /\ m.call \in Nat /\ Len(made) \in Nat
      /\ UNCHANGED <<known, received, servers, streams, orphans, emitted>>
  BY Served DEF Serves, ConnectSocket, program, history
<1>2. BaseInv'
  BY ConnectSocketBase
<1>3. PICK socket \in Nat : socket = Len(made) + 1
  BY <1>1
<1>4. /\ Len(made') = socket
      /\ \/ /\ sockets' = sockets \cup {socket} /\ UNCHANGED opening
            /\ Emit(<<Answer(m.call, "SocketConnected", socket)>>)
         \/ /\ opening' = opening \cup {[socket |-> socket, call |-> m.call, server |-> NoListener]}
            /\ UNCHANGED <<sockets, toPython>>
  <2>1. \E record : made' = Append(made, record)
    BY DEF ConnectSocket, MakeSocket
  <2>2. made \in Seq([protocol : Protocols, port : Ports, peer : Peers])
    BY Served DEF TypeOK
  <2>3. Len(made') = socket
    BY <1>3, <2>1, <2>2
  <2> QED BY <1>3, <2>3 DEF ConnectSocket
<1>5. CASE /\ sockets' = sockets \cup {socket} /\ UNCHANGED opening
           /\ Emit(<<Answer(m.call, "SocketConnected", socket)>>)
  <2>1. PICK a \in Messages : a = Answer(m.call, "SocketConnected", socket)
    BY <1>1, MessageType
  <2>2. /\ a.to = "call" /\ Announces(a, socket) /\ \A x : x # socket => ~Announces(a, x)
        /\ \A x : ~ClosesServer(a, x) /\ ~TellsClose(a, x) /\ ~HandsData(a, x)
    BY <2>1, AnnouncementSays DEF Answer
  <2>3. /\ FreshInv /\ socket \in 1..Len(made') /\ 1..Len(made') \subseteq Sockets
    BY <1>2, <1>3, <1>4, MadeBoundNext DEF SocketInv
  <2>4. Fresh(socket) /\ Len(made') >= Len(made)
    BY <1>1, <1>3, <1>4, <2>3 DEF Fresh
  <2>5. /\ \A o \in opening : o.socket \in 1..Len(made') /\ o.socket # socket
        /\ \A o, p \in opening : o.socket = p.socket => o = p
    BY <1>1, <1>3, <1>4, <2>3 DEF FreshInv
  <2> QED BY <1>1, <1>2, <1>5, <2>1, <2>2, <2>3, <2>4, <2>5, AnnounceStep
<1>6. CASE /\ opening' = opening \cup {[socket |-> socket, call |-> m.call, server |-> NoListener]}
           /\ UNCHANGED <<sockets, toPython>>
  <2>1. PICK o : o = [socket |-> socket, call |-> m.call, server |-> NoListener]
    OBVIOUS
  <2>2. o.socket = Len(made) + 1 /\ opening' = opening \cup {o}
    BY <1>3, <1>6, <2>1
  <2> QED BY <1>1, <1>2, <1>3, <1>4, <1>6, <2>2, OpeningStep
<1> QED BY <1>4, <1>5, <1>6

LEMMA CloseSocketSockets ==
  ASSUME NEW m, Serves(m), m.op = "CloseSocket", SocketInv, CloseSocket(m.call, m.arg)
  PROVE  SocketInv'
<1>1. /\ BaseInv /\ m.call \in Nat /\ m.arg \in Nat
      /\ UNCHANGED <<known, received, servers, made, opening, orphans, emitted>>
  BY Served DEF Serves, CloseSocket, program, history, ArgumentOK
<1>2. CASE Emit(<<Failure(m.call)>>) /\ UNCHANGED <<sockets, streams>>
  BY <1>1, <1>2, PlainSockets
<1>3. CASE /\ m.arg \in sockets /\ sockets' = sockets \ {m.arg}
           /\ streams' = [streams EXCEPT ![m.arg] = AbortLoop(streams[m.arg])]
           /\ Emit(<<SocketClosed(m.arg), Success(m.call)>>)
  <2>1. PICK closed \in Messages : closed = SocketClosed(m.arg)
    BY <1>1, MessageType
  <2>2. PICK answer \in Messages : answer = Success(m.call)
    BY <1>1, MessageType
  <2>3. /\ TellsClose(closed, m.arg)
        /\ \A x : /\ x # m.arg => ~TellsClose(closed, x)
                  /\ ~ClosesServer(closed, x) /\ ~HandsData(closed, x) /\ ~Announces(closed, x)
        /\ \A x : /\ ~ClosesServer(answer, x) /\ ~TellsClose(answer, x)
                  /\ ~HandsData(answer, x) /\ ~Announces(answer, x)
    BY <2>1, <2>2, PlainSays, PlainAnswers
       DEF SocketClosed, Event, ClosesServer, TellsClose, HandsData, Announces
  <2>4. PICK n \in Nat : n = Len(toPython) + 1
    BY <1>1, MadeBound
  <2>5. /\ Appends /\ Added = {n, n + 1} /\ toPython'[n] = closed /\ toPython'[n + 1] = answer
    <3>1. Emit(<<closed, answer>>) /\ UNCHANGED <<known, received>> /\ Len(toPython) \in Nat
      BY <1>1, <1>3, <2>1, <2>2, MadeBound
    <3>2. Len(toPython) + 2 = n + 1
      BY <2>4, <3>1
    <3> QED BY <1>1, <2>4, <3>1, <3>2, AppendsTwo
  <2>6. FreshInv /\ KnownInv /\ ClosedInv /\ ReceivedInOrder
    BY DEF SocketInv
  <2>7. FreshInv'
    <3>1. \A x \in Sockets : Fresh(x)' <=> Fresh(x)
      BY <1>1 DEF Fresh
    <3>2. ASSUME NEW x \in Sockets, Fresh(x)
          PROVE  x \notin sockets' /\ streams'[x] = streams[x]
      <4>1. x \notin sockets
        BY <2>6, <3>2 DEF FreshInv
      <4>2. streams \in [Sockets -> StreamSockets]
        BY <1>1 DEF BaseInv, TypeOK
      <4> QED BY <1>3, <4>1, <4>2
    <3>3. \A k \in Added : \A x : ~HandsData(toPython'[k], x)
      BY <2>3, <2>5
    <3> QED BY <1>1, <1>3, <2>5, <2>6, <3>1, <3>2, <3>3, FreshStep DEF FreshInv
  <2>8. KnownInv'
    <3>1. \A k \in Added : \A x : /\ ~ClosesServer(toPython'[k], x)
                                  /\ x # m.arg => ~TellsClose(toPython'[k], x)
      BY <2>3, <2>5
    <3> QED BY <1>1, <1>3, <2>5, <2>6, <3>1, KnownStep
  <2>9. ClosedInv'
    <3>1. \E k \in Added : TellsClose(toPython'[k], m.arg)
      BY <2>3, <2>5
    <3>2. \A k \in Added : \A x : ~Announces(toPython'[k], x)
      BY <2>3, <2>5
    <3> QED BY <1>3, <2>5, <2>6, <3>1, <3>2, ClosedStep
  <2>10. ReceivedInOrder'
    <3>1. \A k \in Added : \A x : ~HandsData(toPython'[k], x)
      BY <2>3, <2>5
    <3> QED BY <1>1, <1>3, <2>5, <2>6, <3>1, OrderStep
  <2> QED BY <2>7, <2>8, <2>9, <2>10 DEF SocketInv
<1> QED BY <1>2, <1>3 DEF CloseSocket, CloseInner

LEMMA SendDataSockets ==
  ASSUME NEW m, Serves(m), m.op = "SendData", SocketInv, SendData(m.call, m.arg[1], m.arg[2])
  PROVE  SocketInv'
<1>1. /\ BaseInv /\ m.call \in Nat
      /\ UNCHANGED <<known, received, servers, sockets, made, opening, orphans, emitted>>
  BY Served DEF Serves, SendData, program, history
<1>2. CASE Emit(<<Failure(m.call)>>) /\ UNCHANGED streams
  BY <1>1, <1>2, PlainSockets
<1>3. CASE m.arg[1] \in sockets /\ UNCHANGED toPython /\ SendInner(m.call, m.arg[1], m.arg[2])
  <2>1. ASSUME NEW x \in Sockets, Fresh(x) PROVE streams'[x] = streams[x]
    <3>1. x # m.arg[1]
      BY <1>3, <2>1 DEF SocketInv, FreshInv
    <3>2. streams \in [Sockets -> StreamSockets]
      BY <1>1 DEF BaseInv, TypeOK
    <3> QED BY <1>3, <3>1, <3>2 DEF SendInner
  <2>2. Appends /\ Added = {}
    BY <1>1, <1>3, AppendsNone
  <2> QED BY <1>1, <2>1, <2>2, QuietStep
<1> QED BY <1>2, <1>3 DEF SendData

LEMMA HandleRequestSockets ==
  ASSUME BaseInv, SocketInv, HandleRequest
  PROVE  SocketInv'
<1>1. ASSUME NEW m \in Requests, Serves(m), SendHello(m.call) \/ Terminate
      PROVE  SocketInv'
  BY <1>1, SilentSockets DEF Serves, SendHello, Terminate, program, tables, history
<1> QED BY <1>1, RequestCases, StartServerSockets, CloseServerSockets, ConnectSocketSockets,
           SendDataSockets, CloseSocketSockets

LEMMA WorkSockets ==
  ASSUME BaseInv, SocketInv, NEW c \in works, Work(c)
  PROVE  SocketInv'
<1>1. c \in Nat
  BY DEF BaseInv, TypeOK
<1> QED BY <1>1, PlainSockets DEF Work, program, tables, history

LEMMA OpenedSockets ==
  ASSUME BaseInv, SocketInv, NEW o \in opening, Opened(o)
  PROVE  SocketInv'
<1>1. /\ opening' = opening \ {o} /\ sockets' = sockets \cup {o.socket}
      /\ UNCHANGED <<known, received, servers, made, emitted>>
  BY DEF Opened, program
<1>2. PICK socket \in Nat : socket = o.socket
  BY DEF BaseInv, TypeOK
<1>3. /\ FreshInv /\ socket \in 1..Len(made) /\ 1..Len(made) \subseteq Sockets
      /\ Len(made) \in Nat /\ o.call \in Nat /\ o.server \in Nat
  BY <1>2, MadeBound DEF SocketInv, FreshInv, BaseInv, TypeOK
<1>4. Fresh(socket)
  BY <1>2, <1>3 DEF Fresh
<1>5. UNCHANGED streams
  <2>1. streams \in [Sockets -> StreamSockets] /\ streams[socket] = NewStream
    BY <1>3, <1>4 DEF FreshInv, BaseInv, TypeOK
  <2>2. streams' \in {streams, [streams EXCEPT ![socket] = NewStream]}
    BY <1>2 DEF Opened, AddStream
  <2> QED BY <1>3, <2>1, <2>2
<1>6. /\ \A p \in opening' : p.socket \in 1..Len(made') /\ p.socket # socket
      /\ \A p, q \in opening' : p.socket = q.socket => p = q
  BY <1>1, <1>2, <1>3 DEF FreshInv
<1>7. BaseInv'
  BY OpeningBase
<1>8. PICK m \in Messages :
        /\ Emit(<<m>>) /\ Announces(m, socket) /\ \A x : x # socket => ~Announces(m, x)
        /\ \A x : ~ClosesServer(m, x) /\ ~TellsClose(m, x) /\ ~HandsData(m, x)
        /\ orphans \subseteq orphans' /\ orphans' \subseteq orphans \cup {socket}
        /\ (socket \notin orphans' /\ m.to = "event") => \E s \in servers : s.server = m.server
  <2>1. CASE Emit(<<Answer(o.call, "SocketConnected", o.socket)>>) /\ UNCHANGED orphans
    <3>1. Answer(o.call, "SocketConnected", socket) \in Messages
      BY <1>3, MessageType
    <3>2. Answer(o.call, "SocketConnected", socket).to = "call"
      BY DEF Answer
    <3> QED BY <1>2, <2>1, <3>1, <3>2, AnnouncementSays
  <2>2. CASE /\ Emit(<<ServerSocketConnected(o.server, o.socket)>>)
             /\ orphans' = IF \E s \in servers : s.server = o.server
                           THEN orphans ELSE orphans \cup {o.socket}
    <3>1. ServerSocketConnected(o.server, socket) \in Messages
      BY <1>3, MessageType
    <3>2. ServerSocketConnected(o.server, socket).server = o.server
      BY DEF ServerSocketConnected, Event
    <3> QED BY <1>2, <2>2, <3>1, <3>2, AnnouncementSays
  <2> QED BY <2>1, <2>2 DEF Opened
<1>9. Len(made') >= Len(made) /\ opening' \subseteq opening /\ socket \in 1..Len(made')
      /\ sockets' = sockets \cup {socket}
  BY <1>1, <1>2, <1>3
<1> QED BY <1>1, <1>4, <1>5, <1>6, <1>7, <1>8, <1>9, AnnounceStep

LEMMA OpeningFailedSockets ==
  ASSUME BaseInv, SocketInv, NEW o \in opening, OpeningFailed(o)
  PROVE  SocketInv'
<1>1. /\ opening' \subseteq opening /\ o.call \in Nat
      /\ UNCHANGED <<known, received, servers, sockets, orphans, made, emitted, streams>>
  BY DEF OpeningFailed, program, history, BaseInv, TypeOK
<1>2. CASE Emit(<<Failure(o.call)>>)
  BY <1>1, <1>2, PlainSockets
<1>3. CASE UNCHANGED toPython
  <2>1. Appends /\ Added = {}
    BY <1>1, <1>3, AppendsNone
  <2> QED BY <1>1, <2>1, QuietStep
<1> QED BY <1>2, <1>3 DEF OpeningFailed

-----------------------------------------------------------------------------
(* A frame of a peer.                                                       *)

LEMMA ReceiveAtSockets ==
  ASSUME BaseInv, SocketInv, NEW socket \in 1..Len(made), NEW data \in Nat,
         ReceiveAt(socket, data), UNCHANGED <<program, servers, streams, orphans>>
  PROVE  SocketInv'
<1>1. UNCHANGED <<known, received, servers, sockets, made, opening, streams, orphans>>
  BY DEF ReceiveAt, program
<1>2. CASE (\E o \in opening : o.socket = socket) /\ UNCHANGED <<toPython, emitted>>
  BY <1>1, <1>2, SilentSockets
<1>3. CASE /\ ~\E o \in opening : o.socket = socket
           /\ Emit(<<SocketReceived(socket, data)>>)
           /\ emitted' = IF socket \in sockets
                         THEN [emitted EXCEPT ![socket] = Append(emitted[socket], data)] ELSE emitted
  <2>1. /\ Len(toPython) \in Nat /\ Len(made) \in Nat /\ socket \in Sockets /\ socket \in Nat
        /\ FreshInv /\ KnownInv /\ ClosedInv /\ ReceivedInOrder
        /\ received \in [Sockets -> Seq(Nat)] /\ emitted \in [Sockets -> Seq(Nat)]
    <3>1. received \in [Sockets -> Seq(Nat)] /\ emitted \in [Sockets -> Seq(Nat)]
      BY DEF BaseInv, TypeOK
    <3>2. /\ Len(toPython) \in Nat /\ Len(made) \in Nat /\ socket \in Sockets /\ socket \in Nat
      BY MadeBound
    <3> QED BY <3>1, <3>2 DEF SocketInv
  <2>2. PICK n \in Nat : n = Len(toPython) + 1
    BY <2>1
  <2>3. PICK m \in Messages : m = SocketReceived(socket, data)
    BY <2>1, MessageType
  <2>4. /\ HandsData(m, socket) /\ m.data = data /\ \A x : x # socket => ~HandsData(m, x)
        /\ \A x : ~ClosesServer(m, x) /\ ~TellsClose(m, x) /\ ~Announces(m, x)
    BY <2>3 DEF SocketReceived, Event, HandsData, ClosesServer, TellsClose, Announces
  <2>5. Appends /\ Added = {n} /\ Len(toPython') = n /\ toPython'[n] = m
    BY <1>1, <1>3, <2>2, <2>3, AppendsOne
  <2>6. FreshInv'
    <3>1. \A x \in Sockets : Fresh(x)' <=> Fresh(x)
      BY <1>1 DEF Fresh
    <3>2. ~Fresh(socket)
      BY <1>3, <2>1 DEF Fresh
    <3>3. \A x \in Sockets : x # socket => emitted'[x] = emitted[x]
      BY <1>3, <2>1
    <3>4. \A x \in Sockets : x # socket => \A k \in Added : ~HandsData(toPython'[k], x)
      BY <2>4, <2>5
    <3> QED BY <1>1, <2>1, <2>5, <3>1, <3>2, <3>3, <3>4, FreshStep DEF FreshInv
  <2>7. KnownInv'
    <3>1. \A k \in Added : \A x : ~ClosesServer(toPython'[k], x) /\ ~TellsClose(toPython'[k], x)
      BY <2>4, <2>5
    <3> QED BY <1>1, <2>1, <2>5, <3>1, KnownStep
  <2>8. ClosedInv'
    <3>1. \A k \in Added : \A x : ~Announces(toPython'[k], x)
      BY <2>4, <2>5
    <3> QED BY <1>1, <2>1, <2>5, <3>1, ClosedStep
  <2>9. ReceivedInOrder'
    <3>1. ASSUME socket \in sockets \ orphans PROVE InOrder(socket)'
      <4>1. InOrder(socket) /\ received[socket] \in Seq(Nat) /\ emitted[socket] \in Seq(Nat)
        BY <2>1, <3>1, OrderOfAll
      <4>2. emitted'[socket] = Append(emitted[socket], data)
        BY <1>3, <2>1, <3>1
      <4>3. /\ Len(toPython') > Len(toPython) /\ HandsData(toPython'[Len(toPython')], socket)
            /\ toPython'[Len(toPython')].data = data
            /\ \A k \in Added : k # Len(toPython') => ~HandsData(toPython'[k], socket)
        BY <2>1, <2>2, <2>4, <2>5
      <4> QED BY <2>5, <4>1, <4>2, <4>3, InOrderMore
    <3>2. ASSUME NEW x \in sockets \ orphans, x # socket
          PROVE  /\ emitted'[x] = emitted[x]
                 /\ \A k \in Added : ~HandsData(toPython'[k], x)
      <4>1. x \in Sockets
        BY <2>1, MadeBound DEF FreshInv
      <4> QED BY <1>3, <2>1, <2>4, <2>5, <3>2, <4>1
    <3> QED BY <1>1, <2>1, <2>5, <3>1, <3>2, OrderStep
  <2> QED BY <2>6, <2>7, <2>8, <2>9 DEF SocketInv
<1> QED BY <1>2, <1>3 DEF ReceiveAt

(* A tunnel socket is announced, and handed the frame it was made for.      *)
LEMMA AcceptTunnel ==
  ASSUME BaseInv, BaseInv', SocketInv, NEW s \in servers, s.server \in Nat, NEW data \in Nat,
         NEW socket \in Nat, socket = Len(made) + 1, Len(made') = socket,
         sockets' = sockets \cup {socket},
         Emit(<<ServerSocketConnected(s.server, socket), SocketReceived(socket, data)>>),
         emitted' = [emitted EXCEPT ![socket] = <<data>>],
         UNCHANGED <<known, received, servers, opening, streams, orphans>>
  PROVE  SocketInv'
<1>1. /\ Len(toPython) \in Nat /\ Len(made) \in Nat /\ 1..Len(made') \subseteq Sockets
      /\ FreshInv /\ KnownInv /\ ClosedInv /\ ReceivedInOrder
      /\ received \in [Sockets -> Seq(Nat)] /\ emitted \in [Sockets -> Seq(Nat)]
  BY MadeBound, MadeBoundNext DEF SocketInv, BaseInv, TypeOK
<1>2. socket \in Sockets /\ Fresh(socket)
  <2>1. socket \in 1..Len(made') /\ socket > Len(made)
    BY <1>1
  <2> QED BY <1>1, <2>1 DEF Fresh
<1>3. /\ socket \notin sockets /\ received[socket] = <<>> /\ emitted[socket] = <<>>
      /\ \A i \in 1..Len(toPython) : ~HandsData(toPython[i], socket)
  BY <1>1, <1>2 DEF FreshInv
<1>4. PICK n \in Nat \ {0} : n = Len(toPython) + 1
  BY <1>1
<1>5. PICK a \in Messages : a = ServerSocketConnected(s.server, socket)
  BY MessageType
<1>6. PICK m \in Messages : m = SocketReceived(socket, data)
  BY MessageType
<1>7. /\ Announces(a, socket) /\ a.server = s.server
      /\ \A x : /\ x # socket => ~Announces(a, x)
                /\ ~ClosesServer(a, x) /\ ~TellsClose(a, x) /\ ~HandsData(a, x)
  BY <1>5 DEF ServerSocketConnected, Event, HandsData, ClosesServer, TellsClose, Announces
<1>8. /\ HandsData(m, socket) /\ m.data = data
      /\ \A x : /\ x # socket => ~HandsData(m, x)
                /\ ~ClosesServer(m, x) /\ ~TellsClose(m, x) /\ ~Announces(m, x)
  BY <1>6 DEF SocketReceived, Event, HandsData, ClosesServer, TellsClose, Announces
<1>9. /\ Appends /\ Added = {n, n + 1} /\ Len(toPython') = n + 1
      /\ toPython'[n] = a /\ toPython'[n + 1] = m
  <2>1. Emit(<<a, m>>) /\ UNCHANGED <<known, received>> /\ Len(toPython) + 2 = n + 1
    BY <1>1, <1>4, <1>5, <1>6
  <2> QED BY <1>1, <1>4, <2>1, AppendsTwo
<1>10. FreshInv'
  <2>1. ASSUME NEW x \in Sockets, Fresh(x)' PROVE Fresh(x) /\ x # socket
    <3>1. x \in Int
      BY IpcAssumption DEF Sockets
    <3>2. \A o \in opening : o.socket # socket
      BY <1>1 DEF FreshInv
    <3> QED BY <1>1, <2>1, <3>1, <3>2 DEF Fresh
  <2>2. \A x \in Sockets : x # socket =>
          emitted'[x] = emitted[x] /\ \A k \in Added : ~HandsData(toPython'[k], x)
    BY <1>1, <1>7, <1>8, <1>9
  <2>3. /\ \A o \in opening' : o.socket \in 1..Len(made')
        /\ \A o, p \in opening' : o.socket = p.socket => o = p
        /\ sockets' \subseteq 1..Len(made')
    <3>1. /\ \A o \in opening : o.socket \in 1..Len(made)
          /\ \A o, p \in opening : o.socket = p.socket => o = p
          /\ sockets \subseteq 1..Len(made)
      BY <1>1 DEF FreshInv
    <3>2. 1..Len(made) \subseteq 1..Len(made') /\ socket \in 1..Len(made')
      BY <1>1
    <3> QED BY <3>1, <3>2
  <2>4. \A x \in Sockets : Fresh(x) /\ x # socket => x \notin sockets'
    BY <1>1 DEF FreshInv
  <2> QED BY <1>1, <1>9, <2>1, <2>2, <2>3, <2>4, FreshStep
<1>11. KnownInv'
  <2>1. ServerKnownAt(s.server, n)'
    <3>1. ServerKnownAt(s.server, Len(toPython))
      BY <1>1 DEF KnownInv
    <3>2. /\ Len(toPython) \in 0..Len(toPython) /\ n \in Len(toPython)..Len(toPython')
          /\ \A k \in (Len(toPython) + 1)..n : ~ClosesServer(toPython'[k], s.server)
      BY <1>1, <1>4, <1>7, <1>9
    <3> QED BY <1>9, <3>1, <3>2, ServerKnownStays
  <2>2. SocketKnownAt(socket, n + 1)'
    <3>1. /\ n + 1 \in Nat /\ n \in 1..(n + 1) /\ Announces(toPython'[n], socket)
          /\ \A k \in (n + 1)..(n + 1) : ~TellsClose(toPython'[k], socket)
      BY <1>7, <1>8, <1>9
    <3>2. toPython'[n].to = "event" => ServerKnownAt(toPython[n].server, n)'
      BY <1>7, <1>9, <2>1
    <3> QED BY <3>1, <3>2, SocketBecomesKnown
  <2>3. /\ SocketKnownAt(socket, Len(toPython))'
        /\ \A i \in 1..Len(toPython') : HandsData(toPython'[i], socket) => SocketKnownAt(socket, i)'
    <3>1. SocketKnownAt(socket, Len(toPython))'
      BY <1>9, <2>2
    <3>2. ASSUME NEW i \in 1..Len(toPython'), HandsData(toPython'[i], socket) PROVE i = n + 1
      <4>1. ~HandsData(toPython'[n], socket)
        BY <1>7, <1>9
      <4>2. i \in 1..Len(toPython) => ~HandsData(toPython'[i], socket)
        BY <1>3, <1>9 DEF Appends
      <4>3. i \in 1..Len(toPython) \/ i = n \/ i = n + 1
        BY <1>1, <1>4, <1>9
      <4> QED BY <3>2, <4>1, <4>2, <4>3
    <3> QED BY <2>2, <3>1, <3>2
  <2>4. \A k \in Added : \A x : ~ClosesServer(toPython'[k], x) /\ ~TellsClose(toPython'[k], x)
    BY <1>7, <1>8, <1>9
  <2> QED BY <1>1, <1>9, <2>3, <2>4, KnownStep
<1>12. ClosedInv'
  <2>1. \A k \in Added : \A x : Announces(toPython'[k], x) => x = socket
    BY <1>7, <1>8, <1>9
  <2> QED BY <1>1, <1>9, <2>1, ClosedStep
<1>13. ReceivedInOrder'
  <2>1. InOrder(socket)
    <3>1. Handed(socket, Len(toPython)) = {}
      BY <1>3 DEF Handed
    <3>2. Cardinality({}) = 0
      BY FS_EmptySet
    <3>3. Len(received[socket]) = 0 /\ Len(emitted[socket]) = 0
      BY <1>3
    <3>4. Cardinality(Handed(socket, Len(toPython))) = 0
      BY <3>1, <3>2
    <3>5. \A k \in 1..Len(received[socket]) : received[socket][k] = emitted[socket][k]
      BY <3>3
    <3>6. \A i \in Handed(socket, Len(toPython)) :
            toPython[i].data
              = emitted[socket][Len(received[socket]) + Cardinality(Handed(socket, i))]
      BY <3>1
    <3> QED BY <3>3, <3>4, <3>5, <3>6 DEF InOrder
  <2>2. InOrder(socket)'
    <3>1. /\ received[socket] \in Seq(Nat) /\ emitted[socket] \in Seq(Nat)
          /\ emitted'[socket] = Append(emitted[socket], data)
      BY <1>1, <1>2, <1>3
    <3>2. /\ Len(toPython') > Len(toPython) /\ HandsData(toPython'[Len(toPython')], socket)
          /\ toPython'[Len(toPython')].data = data
          /\ \A k \in Added : k # Len(toPython') => ~HandsData(toPython'[k], socket)
      BY <1>1, <1>4, <1>7, <1>8, <1>9
    <3> QED BY <1>9, <2>1, <3>1, <3>2, InOrderMore
  <2>3. ASSUME NEW x \in sockets \ orphans, x # socket
        PROVE  /\ emitted'[x] = emitted[x]
               /\ \A k \in Added : ~HandsData(toPython'[k], x)
    <3>1. x \in Sockets
      BY <1>1, MadeBound DEF FreshInv
    <3> QED BY <1>1, <1>7, <1>8, <1>9, <2>3, <3>1
  <2> QED BY <1>1, <1>3, <1>9, <2>2, <2>3, OrderStep
<1> QED BY <1>10, <1>11, <1>12, <1>13 DEF SocketInv

LEMMA AcceptSockets ==
  ASSUME BaseInv, BaseInv', SocketInv, NEW s \in servers, NEW port, NEW peer, NEW data \in Nat,
         Accept(s.server, port, peer, s.protocol, data),
         UNCHANGED <<program, servers, streams, orphans>>
  PROVE  SocketInv'
<1>1. Len(made) \in Nat /\ s.server \in Nat /\ UNCHANGED <<known, received>>
  BY MadeBound DEF BaseInv, TypeOK, program
<1>2. PICK socket \in Nat : socket = Len(made) + 1
  BY <1>1
<1>3. Len(made') = socket
  <2>1. \E record : made' = Append(made, record)
    BY DEF Accept, MakeSocket
  <2>2. made \in Seq([protocol : Protocols, port : Ports, peer : Peers])
    BY DEF BaseInv, TypeOK
  <2> QED BY <1>2, <2>1, <2>2
<1>4. CASE s.protocol = "tunnel"
  BY <1>1, <1>2, <1>3, <1>4, AcceptTunnel DEF Accept
<1>5. CASE s.protocol # "tunnel"
  <2>1. PICK o : o = [socket |-> socket, call |-> 0, server |-> s.server]
    OBVIOUS
  <2>2. /\ o.socket = Len(made) + 1 /\ opening' = opening \cup {o}
        /\ UNCHANGED <<sockets, toPython, emitted>>
    BY <1>2, <1>5, <2>1 DEF Accept
  <2> QED BY <1>1, <1>2, <1>3, <2>2, OpeningStep
<1> QED BY <1>4, <1>5

LEMMA ReceivedFrameSockets ==
  ASSUME BaseInv, SocketInv, NEW peer \in Peers, NEW port \in Ports,
         HandleReceivedFrame(peer, port)
  PROVE  SocketInv'
<1>1. BaseInv'
  BY ReceivedFrameBase
<1>2. frames' \in Nat /\ UNCHANGED <<program, servers, streams, orphans>>
  BY DEF HandleReceivedFrame, BaseInv, TypeOK
<1>3. SocketsOf(ports, port, peer) \subseteq 1..Len(made)
  <2>1. \A s \in PortOf(ports, port).senders : s.socket \in 1..Len(made)
    BY MadeBound, PortOfType DEF BaseInv, PortsInv
  <2> QED BY <2>1 DEF SocketsOf
<1> QED BY <1>1, <1>2, <1>3, ReceiveAtSockets, AcceptSockets DEF HandleReceivedFrame

-----------------------------------------------------------------------------
(* The loop of a stream sends nothing while the socket is fresh.            *)
LEMMA StreamStep ==
  ASSUME BaseInv, SocketInv, NEW socket \in Sockets,
         \/ StreamTakes(socket) \/ StreamFrameOk(socket)
         \/ StreamEntryDone(socket) \/ StreamFrameFails(socket)
  PROVE  SocketInv'
<1>1. /\ UNCHANGED <<known, received, servers, sockets, orphans, made, emitted, opening>>
      /\ \E t : streams' = [streams EXCEPT ![socket] = t]
  BY DEF StreamTakes, StreamFrameOk, StreamEntryDone, StreamFrameFails, SetStream, program, history
<1>2. streams[socket] # NewStream
  <2>1. ASSUME streams[socket] = NewStream PROVE FALSE
    <3>1. /\ ~CanTake(NewStream) /\ NewStream.left = 0 /\ ~IsSent(NewStream)
      BY DEF NewStream, CanTake, HasNext, IsSent, NewSender, Receiver
    <3> QED BY <2>1, <3>1 DEF StreamTakes, StreamFrameOk, StreamEntryDone, StreamFrameFails
  <2> QED BY <2>1
<1>3. ASSUME NEW x \in Sockets, Fresh(x) PROVE streams'[x] = streams[x]
  <2>1. x # socket
    BY <1>2, <1>3 DEF SocketInv, FreshInv
  <2> QED BY <1>1, <2>1 DEF BaseInv, TypeOK
<1>4. CASE UNCHANGED toPython
  <2>1. Appends /\ Added = {}
    BY <1>1, <1>4, AppendsNone
  <2> QED BY <1>1, <1>3, <2>1, QuietStep
<1>5. ASSUME NEW c \in Nat, Emit(<<Success(c)>>) \/ Emit(<<Failure(c)>>) PROVE SocketInv'
  <2>1. PICK m \in {Success(c), Failure(c)} : Emit(<<m>>)
    BY <1>5
  <2>2. m \in Messages /\ Plain(m)
    BY MessageType, PlainAnswers
  <2>3. Appends /\ Added = {Len(toPython) + 1} /\ toPython'[Len(toPython) + 1] = m
    BY <1>1, <2>1, <2>2, AppendsOne
  <2> QED BY <1>1, <1>3, <2>2, <2>3, QuietStep
<1>6. streams[socket].current.call \in Nat
  BY DEF BaseInv, TypeOK, StreamSockets, Entries
<1> QED BY <1>4, <1>5, <1>6 DEF StreamTakes, StreamFrameOk, StreamEntryDone, StreamFrameFails

-----------------------------------------------------------------------------
(* The program handles a message: the others move up by one.                *)

Takes ==
  LET m == toPython[1]
  IN  /\ m \in Messages /\ Len(toPython) \in Nat \ {0} /\ Len(toPython') = Len(toPython) - 1
      /\ \A i \in 1..Len(toPython') : toPython'[i] = toPython[i + 1]
      /\ \A x : /\ x \in known.servers /\ ~ClosesServer(m, x) => x \in known'.servers
                /\ StartsServer(m, x) => x \in known'.servers
      /\ \A x : /\ x \in known.sockets /\ ~TellsClose(m, x) => x \in known'.sockets
                /\ Announces(m, x) /\ (m.to = "event" => m.server \in known.servers) =>
                     x \in known'.sockets
                /\ x \in known'.sockets =>
                     Announces(m, x) \/ (x \in known.sockets /\ ~TellsClose(m, x))
      /\ \A x \in Sockets :
           received'[x] = IF HandsData(m, x) /\ x \in known.sockets
                          THEN Append(received[x], m.data) ELSE received[x]
      /\ UNCHANGED <<servers, sockets, made, opening, streams, orphans, emitted>>

LEMMA HandleTakes ==
  ASSUME BaseInv, Handle
  PROVE  Takes
<1>1. /\ toPython \in Seq(Messages) /\ toPython # <<>> /\ toPython' = Tail(toPython)
      /\ known \in [servers : SUBSET Nat, sockets : SUBSET Nat]
      /\ received \in [Sockets -> Seq(Nat)]
      /\ UNCHANGED <<servers, sockets, made, opening, streams, orphans, emitted>>
  BY DEF Handle, tables, history, BaseInv, TypeOK
<1>2. /\ Len(toPython) \in Nat \ {0} /\ Len(toPython') = Len(toPython) - 1
      /\ \A i \in 1..Len(toPython') : toPython'[i] = toPython[i + 1]
      /\ Head(toPython) \in Messages /\ Head(toPython) = toPython[1]
  BY <1>1, HeadTailProperties, EmptySeq
<1>3. PICK m \in Messages : m = toPython[1] /\ m = Head(toPython)
  BY <1>2
<1>4. HandleAnswer(m) \/ HandleEvent(m)
  BY <1>3 DEF Handle
<1>5. /\ \A x : /\ x \in known.servers /\ ~ClosesServer(m, x) => x \in known'.servers
                /\ StartsServer(m, x) => x \in known'.servers
      /\ \A x : /\ x \in known.sockets /\ ~TellsClose(m, x) => x \in known'.sockets
                /\ Announces(m, x) /\ (m.to = "event" => m.server \in known.servers) =>
                     x \in known'.sockets
                /\ x \in known'.sockets =>
                     Announces(m, x) \/ (x \in known.sockets /\ ~TellsClose(m, x))
      /\ \A x \in Sockets :
           received'[x] = IF HandsData(m, x) /\ x \in known.sockets
                          THEN Append(received[x], m.data) ELSE received[x]
  <2>1. CASE HandleAnswer(m)
    <3>1. /\ m.to = "call" /\ received' = received
          /\ known' = [servers |-> known.servers \cup (IF m.kind = "ServerStarted" THEN {m.id} ELSE {}),
                       sockets |-> known.sockets \cup (IF m.kind = "SocketConnected" THEN {m.id} ELSE {})]
      BY <2>1 DEF HandleAnswer
    <3> QED BY <3>1 DEF ClosesServer, StartsServer, TellsClose, Announces, HandsData
  <2>2. CASE HandleEvent(m) /\ HandleServerSocketConnected(m)
    <3>1. /\ m.to = "event" /\ m.kind = "ServerSocketConnected" /\ received' = received
          /\ known' = IF m.server \in known.servers
                      THEN [known EXCEPT !.sockets = known.sockets \cup {m.socket}] ELSE known
      BY <2>2 DEF HandleEvent, HandleServerSocketConnected
    <3>2. /\ known'.servers = known.servers
          /\ known'.sockets = known.sockets \cup (IF m.server \in known.servers THEN {m.socket} ELSE {})
      BY <1>1, <3>1
    <3> QED BY <3>1, <3>2 DEF ClosesServer, StartsServer, TellsClose, Announces, HandsData
  <2>3. CASE HandleEvent(m) /\ HandleServerClosed(m)
    <3>1. /\ m.to = "event" /\ m.kind = "ServerClosed" /\ received' = received
          /\ known'.servers = known.servers \ {m.server} /\ known'.sockets = known.sockets
      BY <1>1, <2>3 DEF HandleEvent, HandleServerClosed
    <3> QED BY <3>1 DEF ClosesServer, StartsServer, TellsClose, Announces, HandsData
  <2>4. CASE HandleEvent(m) /\ HandleSocketReceived(m)
    <3>1. /\ m.to = "event" /\ m.kind = "SocketReceived" /\ known' = known
          /\ received' = IF m.socket \in known.sockets
                         THEN [received EXCEPT ![m.socket] = Append(received[m.socket], m.data)]
                         ELSE received
      BY <2>4 DEF HandleEvent, HandleSocketReceived
    <3>2. \A x \in Sockets :
            received'[x] = IF m.socket = x /\ x \in known.sockets
                           THEN Append(received[x], m.data) ELSE received[x]
      BY <1>1, <3>1
    <3> QED BY <3>1, <3>2 DEF ClosesServer, StartsServer, TellsClose, Announces, HandsData
  <2>5. CASE HandleEvent(m) /\ HandleSocketClosed(m)
    <3>1. /\ m.to = "event" /\ m.kind = "SocketClosed" /\ received' = received
          /\ known'.sockets = known.sockets \ {m.socket} /\ known'.servers = known.servers
      BY <1>1, <2>5 DEF HandleEvent, HandleSocketClosed
    <3> QED BY <3>1 DEF ClosesServer, StartsServer, TellsClose, Announces, HandsData
  <2> QED BY <1>4, <2>1, <2>2, <2>3, <2>4, <2>5 DEF HandleEvent
<1> QED BY <1>1, <1>2, <1>3, <1>5 DEF Takes

LEMMA ServerKnownShift ==
  ASSUME Takes, NEW server, NEW i \in 1..Len(toPython), ServerKnownAt(server, i)
  PROVE  ServerKnownAt(server, i - 1)'
<1>1. /\ Len(toPython) \in Nat \ {0} /\ i \in Nat \ {0} /\ i - 1 \in Nat /\ i <= Len(toPython)
      /\ \A k \in 1..(i - 1) : toPython'[k] = toPython[k + 1]
  BY DEF Takes
<1>2. CASE server \in known.servers /\ \A k \in 1..i : ~ClosesServer(toPython[k], server)
  <2>1. server \in known'.servers
    BY <1>1, <1>2 DEF Takes
  <2>2. \A k \in 1..(i - 1) : ~ClosesServer(toPython'[k], server)
    BY <1>1, <1>2
  <2> QED BY <2>1, <2>2 DEF ServerKnownAt, ClosesServer
<1>3. ASSUME NEW h \in 1..i, StartsServer(toPython[h], server),
             \A k \in (h + 1)..i : ~ClosesServer(toPython[k], server)
      PROVE  ServerKnownAt(server, i - 1)'
  <2>1. CASE h = 1
    <3>1. server \in known'.servers
      BY <1>3, <2>1 DEF Takes
    <3>2. \A k \in 1..(i - 1) : ~ClosesServer(toPython'[k], server)
      BY <1>1, <1>3, <2>1
    <3> QED BY <3>1, <3>2 DEF ServerKnownAt, ClosesServer
  <2>2. CASE h # 1
    <3>1. PICK g \in 1..(i - 1) : h = g + 1
      BY <1>1, <2>2
    <3>2. StartsServer(toPython'[g], server)
      BY <1>1, <1>3, <3>1
    <3>3. \A k \in (g + 1)..(i - 1) : ~ClosesServer(toPython'[k], server)
      BY <1>1, <1>3, <3>1
    <3> QED BY <3>2, <3>3 DEF ServerKnownAt, ClosesServer, StartsServer
  <2> QED BY <2>1, <2>2
<1> QED BY <1>2, <1>3 DEF ServerKnownAt

LEMMA SocketKnownShift ==
  ASSUME Takes, NEW socket, NEW i \in 1..Len(toPython), SocketKnownAt(socket, i)
  PROVE  SocketKnownAt(socket, i - 1)'
<1>1. /\ Len(toPython) \in Nat \ {0} /\ i \in Nat \ {0} /\ i - 1 \in Nat /\ i <= Len(toPython)
      /\ \A k \in 1..(i - 1) : toPython'[k] = toPython[k + 1]
  BY DEF Takes
<1>2. CASE socket \in known.sockets /\ \A k \in 1..i : ~TellsClose(toPython[k], socket)
  <2>1. socket \in known'.sockets
    BY <1>1, <1>2 DEF Takes
  <2>2. \A k \in 1..(i - 1) : ~TellsClose(toPython'[k], socket)
    BY <1>1, <1>2
  <2> QED BY <2>1, <2>2 DEF SocketKnownAt, TellsClose
<1>3. ASSUME NEW h \in 1..i, MakesKnown(h, socket),
             \A k \in (h + 1)..i : ~TellsClose(toPython[k], socket)
      PROVE  SocketKnownAt(socket, i - 1)'
  <2>1. CASE h = 1
    <3>1. socket \in known'.sockets
      <4>1. Announces(toPython[1], socket)
        BY <1>3, <2>1 DEF MakesKnown
      <4>2. ASSUME toPython[1].to = "event" PROVE toPython[1].server \in known.servers
        <5>1. ServerKnownAt(toPython[1].server, 1)
          BY <1>3, <2>1, <4>2 DEF MakesKnown
        <5>2. \A k \in 1..1 : k = 1
          OBVIOUS
        <5>3. ~StartsServer(toPython[1], toPython[1].server)
          BY <4>2 DEF StartsServer
        <5> QED BY <5>1, <5>2, <5>3 DEF ServerKnownAt
      <4> QED BY <4>1, <4>2 DEF Takes
    <3>2. \A k \in 1..(i - 1) : ~TellsClose(toPython'[k], socket)
      BY <1>1, <1>3, <2>1
    <3> QED BY <3>1, <3>2 DEF SocketKnownAt, TellsClose
  <2>2. CASE h # 1
    <3>1. PICK g \in 1..(i - 1) : h = g + 1
      BY <1>1, <2>2
    <3>2. MakesKnown(g, socket)'
      <4>1. Announces(toPython'[g], socket) /\ toPython'[g] = toPython[h]
        BY <1>1, <1>3, <3>1 DEF MakesKnown
      <4>2. ASSUME toPython'[g].to = "event" PROVE ServerKnownAt(toPython[g].server, g)'
        <5>1. PICK server : server = toPython[h].server
          OBVIOUS
        <5>2. ServerKnownAt(server, h) /\ h \in 1..Len(toPython) /\ h - 1 = g
          BY <1>1, <1>3, <3>1, <4>1, <4>2, <5>1 DEF MakesKnown
        <5>3. ServerKnownAt(server, h - 1)'
          BY <5>2, ServerKnownShift
        <5> QED BY <4>1, <5>1, <5>2, <5>3
      <4> QED BY <4>1, <4>2 DEF MakesKnown, Announces
    <3>3. \A k \in (g + 1)..(i - 1) : ~TellsClose(toPython'[k], socket)
      BY <1>1, <1>3, <3>1
    <3> QED BY <3>2, <3>3 DEF SocketKnownAt, TellsClose
  <2> QED BY <2>1, <2>2
<1> QED BY <1>2, <1>3 DEF SocketKnownAt

LEMMA KnownTake ==
  ASSUME Takes, KnownInv
  PROVE  KnownInv'
<1>1. /\ Len(toPython) \in Nat \ {0} /\ Len(toPython') = Len(toPython) - 1
      /\ \A i \in 1..Len(toPython') : toPython'[i] = toPython[i + 1]
      /\ UNCHANGED <<servers, sockets, orphans>>
  BY DEF Takes
<1>2. ASSUME NEW s \in servers' PROVE ServerKnownAt(s.server, Len(toPython))'
  <2>1. PICK n \in 1..Len(toPython) : n = Len(toPython)
    BY <1>1
  <2>2. ServerKnownAt(s.server, n)
    BY <1>1, <1>2, <2>1 DEF KnownInv
  <2>3. ServerKnownAt(s.server, n - 1)' /\ n - 1 = Len(toPython')
    BY <1>1, <2>1, <2>2, ServerKnownShift
  <2> QED BY <2>3
<1>3. ASSUME NEW socket \in sockets' \ orphans'
      PROVE  /\ SocketKnownAt(socket, Len(toPython))'
             /\ \A i \in 1..Len(toPython') :
                  HandsData(toPython'[i], socket) => SocketKnownAt(socket, i)'
  <2>1. SocketKnownAt(socket, Len(toPython))'
    <3>1. PICK n \in 1..Len(toPython) : n = Len(toPython)
      BY <1>1
    <3>2. SocketKnownAt(socket, n)
      BY <1>1, <1>3, <3>1 DEF KnownInv
    <3>3. SocketKnownAt(socket, n - 1)' /\ n - 1 = Len(toPython')
      BY <1>1, <3>1, <3>2, SocketKnownShift
    <3> QED BY <3>3
  <2>2. ASSUME NEW i \in 1..Len(toPython'), HandsData(toPython'[i], socket)
        PROVE  SocketKnownAt(socket, i)'
    <3>1. PICK j \in 1..Len(toPython) : j = i + 1
      BY <1>1
    <3>2. SocketKnownAt(socket, j)
      BY <1>1, <1>3, <2>2, <3>1 DEF KnownInv
    <3>3. SocketKnownAt(socket, j - 1)' /\ j - 1 = i
      BY <1>1, <3>1, <3>2, SocketKnownShift
    <3> QED BY <3>3
  <2> QED BY <2>1, <2>2
<1> QED BY <1>2, <1>3 DEF KnownInv, HandsData

LEMMA ClosedTake ==
  ASSUME Takes, ClosedInv, known'.sockets \subseteq Nat
  PROVE  ClosedInv'
<1>1. /\ Len(toPython) \in Nat \ {0} /\ Len(toPython') = Len(toPython) - 1
      /\ \A i \in 1..Len(toPython') : toPython'[i] = toPython[i + 1]
      /\ sockets' = sockets
  BY DEF Takes
<1>2. ASSUME NEW socket \in known'.sockets
      PROVE  socket \in sockets' \/ \E k \in 1..Len(toPython') : TellsClose(toPython'[k], socket)
  <2>1. CASE Announces(toPython[1], socket)
    <3>1. \/ socket \in sockets
          \/ \E k \in (1 + 1)..Len(toPython) : TellsClose(toPython[k], socket)
      BY <1>1, <2>1 DEF ClosedInv
    <3>2. \A k \in (1 + 1)..Len(toPython) :
            k - 1 \in 1..Len(toPython') /\ toPython'[k - 1] = toPython[k]
      BY <1>1
    <3> QED BY <1>1, <3>1, <3>2
  <2>2. CASE socket \in known.sockets /\ ~TellsClose(toPython[1], socket)
    <3>1. socket \in sockets \/ \E k \in 1..Len(toPython) : TellsClose(toPython[k], socket)
      BY <2>2 DEF ClosedInv
    <3>2. \A k \in 1..Len(toPython) : k # 1 =>
            k - 1 \in 1..Len(toPython') /\ toPython'[k - 1] = toPython[k]
      BY <1>1
    <3> QED BY <1>1, <2>2, <3>1, <3>2
  <2> QED BY <1>2, <2>1, <2>2 DEF Takes
<1>3. ASSUME NEW socket \in Nat, NEW i \in 1..Len(toPython'), Announces(toPython'[i], socket)
      PROVE  \/ socket \in sockets'
             \/ \E k \in (i + 1)..Len(toPython') : TellsClose(toPython'[k], socket)
  <2>1. PICK j \in 1..Len(toPython) : j = i + 1
    BY <1>1
  <2>2. socket \in sockets \/ \E k \in (j + 1)..Len(toPython) : TellsClose(toPython[k], socket)
    BY <1>1, <1>3, <2>1 DEF ClosedInv
  <2>3. \A k \in (j + 1)..Len(toPython) :
          k - 1 \in (i + 1)..Len(toPython') /\ toPython'[k - 1] = toPython[k]
    BY <1>1, <2>1
  <2> QED BY <1>1, <2>2, <2>3
<1> QED BY <1>2, <1>3 DEF ClosedInv, Announces, TellsClose

LEMMA FreshTake ==
  ASSUME Takes, FreshInv
  PROVE  FreshInv'
<1>1. /\ Len(toPython) \in Nat \ {0} /\ Len(toPython') = Len(toPython) - 1
      /\ \A i \in 1..Len(toPython') : toPython'[i] = toPython[i + 1]
      /\ UNCHANGED <<sockets, made, opening, streams, emitted>>
  BY DEF Takes
<1>2. ASSUME NEW socket \in Sockets, Fresh(socket)'
      PROVE  /\ socket \notin sockets'
             /\ received'[socket] = <<>> /\ emitted'[socket] = <<>> /\ streams'[socket] = NewStream
             /\ \A i \in 1..Len(toPython') : ~HandsData(toPython'[i], socket)
  <2>1. Fresh(socket)
    BY <1>1, <1>2 DEF Fresh
  <2>2. /\ socket \notin sockets
        /\ received[socket] = <<>> /\ emitted[socket] = <<>> /\ streams[socket] = NewStream
        /\ \A i \in 1..Len(toPython) : ~HandsData(toPython[i], socket)
    BY <2>1 DEF FreshInv
  <2>3. received'[socket] = received[socket]
    BY <1>1, <2>2 DEF Takes
  <2>4. \A i \in 1..Len(toPython') : ~HandsData(toPython'[i], socket)
    BY <1>1, <2>2
  <2> QED BY <1>1, <2>2, <2>3, <2>4
<1>3. /\ \A o \in opening' : o.socket \in 1..Len(made')
      /\ \A o, p \in opening' : o.socket = p.socket => o = p
      /\ sockets' \subseteq 1..Len(made')
  BY <1>1 DEF FreshInv
<1> QED BY <1>2, <1>3 DEF FreshInv, HandsData

(* One message less is counted, if the one that was handled handed data.    *)
LEMMA HandedShift ==
  ASSUME Takes, NEW socket, NEW i \in 0..Len(toPython')
  PROVE  Cardinality(Handed(socket, i + 1))
           = Cardinality(Handed(socket, i))' + (IF HandsData(toPython[1], socket) THEN 1 ELSE 0)
<1> DEFINE later == {j \in 1..i : HandsData(toPython'[j], socket)}
           all == Handed(socket, i + 1)
           moved == [j \in later |-> j + 1]
<1>1. /\ i \in Nat /\ i + 1 \in Nat /\ i + 1 <= Len(toPython)
      /\ \A j \in 1..i : toPython'[j] = toPython[j + 1]
  BY DEF Takes
<1>2. Handed(socket, i)' = later
  BY DEF Handed, HandsData
<1>3. IsFiniteSet(later) /\ Cardinality(later) \in Nat
  <2>1. IsFiniteSet(1..i) /\ later \subseteq 1..i
    BY FS_Interval
  <2> HIDE DEF later
  <2> QED BY <2>1, FS_Subset, FS_CardinalityType
<1>4. IsFiniteSet(all \ {1}) /\ Cardinality(all \ {1}) = Cardinality(later)
  <2>1. moved \in [later -> all \ {1}]
    BY <1>1 DEF Handed
  <2>2. \A a, b \in later : moved[a] = moved[b] => a = b
    OBVIOUS
  <2>3. \A t \in all \ {1} : \E j \in later : moved[j] = t
    <3>1. ASSUME NEW t \in all \ {1} PROVE t - 1 \in later /\ moved[t - 1] = t
      BY <1>1 DEF Handed
    <3> QED BY <3>1
  <2> HIDE DEF moved, later, all
  <2>4. moved \in Bijection(later, all \ {1})
    BY <2>1, <2>2, <2>3, Fun_IsBij
  <2> QED BY <1>3, <2>4, FS_Bijection DEF ExistsBijection
<1>5. CASE HandsData(toPython[1], socket)
  <2>1. 1 \in all
    BY <1>1, <1>5 DEF Handed
  <2> HIDE DEF all, later
  <2>2. all = (all \ {1}) \cup {1} /\ 1 \notin all \ {1}
    BY <2>1
  <2>3. Cardinality((all \ {1}) \cup {1}) = Cardinality(all \ {1}) + 1
    BY <1>4, <2>2, FS_AddElement
  <2> QED BY <1>2, <1>4, <1>5, <2>2, <2>3 DEF all
<1>6. CASE ~HandsData(toPython[1], socket)
  <2>1. 1 \notin all
    BY <1>6 DEF Handed
  <2> HIDE DEF all, later
  <2>2. all \ {1} = all
    BY <2>1
  <2>3. Cardinality(all) = Cardinality(Handed(socket, i))' /\ Cardinality(later) \in Nat
    BY <1>2, <1>3, <1>4, <2>2
  <2>4. Cardinality(Handed(socket, i))' \in Nat
    BY <1>2, <1>3
  <2> QED BY <1>6, <2>3, <2>4 DEF all
<1> QED BY <1>5, <1>6

LEMMA OrderTake ==
  ASSUME BaseInv, Takes, SocketInv
  PROVE  ReceivedInOrder'
<1> SUFFICES ASSUME NEW socket \in sockets \ orphans
             PROVE  InOrder(socket)'
  <2>1. sockets' = sockets /\ orphans' = orphans
    BY DEF Takes
  <2> QED BY <2>1 DEF ReceivedInOrder, InOrder
<1>1. /\ Len(toPython) \in Nat \ {0} /\ Len(toPython') = Len(toPython) - 1
      /\ \A i \in 1..Len(toPython') : toPython'[i] = toPython[i + 1]
      /\ emitted' = emitted
  BY DEF Takes
<1>2. /\ KnownInv /\ socket \in Sockets /\ InOrder(socket)
      /\ received[socket] \in Seq(Nat)
  <2>1. FreshInv /\ KnownInv /\ ReceivedInOrder
    BY DEF SocketInv
  <2>2. socket \in Sockets
    BY <2>1, MadeBound DEF FreshInv
  <2>3. InOrder(socket)
    BY <2>1, OrderOfAll
  <2> QED BY <2>1, <2>2, <2>3 DEF BaseInv, TypeOK
<1>3. PICK l \in Nat : l = Len(toPython')
  BY <1>1
<1>4. PICK before \in Nat : before = Len(received[socket])
  BY <1>2
<1>5. \A i \in Nat : Cardinality(Handed(socket, i))' \in Nat
  <2>1. \A i \in Nat : (IsFiniteSet(Handed(socket, i)) /\ Cardinality(Handed(socket, i)) \in Nat)'
    <3> SUFFICES ASSUME NEW i \in Nat
                 PROVE  (IsFiniteSet(Handed(socket, i)) /\ Cardinality(Handed(socket, i)) \in Nat)'
      OBVIOUS
    <3> QED BY HandedType, PTL
  <2> QED BY <2>1
<1>6. /\ Len(emitted[socket]) = before + Cardinality(Handed(socket, l + 1))
      /\ \A k \in 1..before : received[socket][k] = emitted[socket][k]
      /\ \A i \in Handed(socket, l + 1) :
           toPython[i].data = emitted[socket][before + Cardinality(Handed(socket, i))]
  <2>1. Len(toPython) = l + 1
    BY <1>1, <1>3
  <2> QED BY <1>2, <1>4, <2>1 DEF InOrder
<1>7. ASSUME NEW i \in Handed(socket, l)'
      PROVE  /\ i \in 1..l /\ i + 1 \in Handed(socket, l + 1)
             /\ toPython'[i] = toPython[i + 1]
  <2>1. i \in 1..l /\ HandsData(toPython'[i], socket)
    BY DEF Handed, HandsData
  <2>2. i + 1 \in 1..(l + 1) /\ toPython'[i] = toPython[i + 1]
    BY <1>1, <1>3, <2>1
  <2> QED BY <2>1, <2>2 DEF Handed
<1>8. \A i \in Handed(socket, l)' : Cardinality(Handed(socket, i))' \in Nat
  BY <1>5, <1>7
<1>9. CASE HandsData(toPython[1], socket)
  <2>1. PICK data \in Nat : data = toPython[1].data
    <3>1. toPython[1] \in Messages /\ toPython[1].to = "event"
      BY <1>9 DEF Takes, HandsData
    <3> QED BY <3>1, MessageParts
  <2>2. socket \in known.sockets
    <3>1. SocketKnownAt(socket, 1)
      BY <1>1, <1>2, <1>9 DEF KnownInv
    <3>2. \A k \in 1..1 : k = 1
      OBVIOUS
    <3>3. ~Announces(toPython[1], socket)
      BY <1>9 DEF HandsData, Announces
    <3> QED BY <3>1, <3>2, <3>3 DEF SocketKnownAt, MakesKnown
  <2>3. received'[socket] = Append(received[socket], data)
    BY <1>2, <1>9, <2>1, <2>2 DEF Takes
  <2>4. /\ Len(received'[socket]) = before + 1
        /\ received'[socket][before + 1] = data
        /\ \A k \in 1..before : received'[socket][k] = received[socket][k]
    BY <1>2, <1>4, <2>3, AppendProperties
  <2>5. \A i \in 0..l : Cardinality(Handed(socket, i + 1)) = Cardinality(Handed(socket, i))' + 1
    BY <1>3, <1>9, HandedShift
  <2>6. emitted[socket][before + 1] = data
    <3>1. 1 \in Handed(socket, l + 1)
      BY <1>9 DEF Handed
    <3>2. Cardinality(Handed(socket, 0))' = 0
      <4>1. Handed(socket, 0)' = {}
        BY DEF Handed
      <4>2. Cardinality({}) = 0
        BY FS_EmptySet
      <4> QED BY <4>1, <4>2
    <3>3. Cardinality(Handed(socket, 0 + 1)) = 0 + 1
      BY <2>5, <3>2
    <3> QED BY <1>6, <2>1, <3>1, <3>3
  <2>7. Len(emitted'[socket]) = Len(received'[socket]) + Cardinality(Handed(socket, l))'
    <3>1. PICK all \in Nat : all = Cardinality(Handed(socket, l))'
      BY <1>5
    <3>2. Cardinality(Handed(socket, l + 1)) = all + 1
      BY <2>5, <3>1
    <3>3. Len(emitted[socket]) = before + 1 + all
      BY <1>6, <3>2
    <3> QED BY <1>1, <2>4, <3>1, <3>3
  <2>8. \A k \in 1..Len(received'[socket]) : received'[socket][k] = emitted'[socket][k]
    <3>1. \A k \in 1..(before + 1) : k \in 1..before \/ k = before + 1
      OBVIOUS
    <3> QED BY <1>1, <1>6, <2>4, <2>6, <3>1
  <2>9. ASSUME NEW i \in Handed(socket, l)'
        PROVE  toPython'[i].data
                 = emitted'[socket][Len(received'[socket]) + Cardinality(Handed(socket, i))']
    <3>1. toPython'[i].data = emitted[socket][before + Cardinality(Handed(socket, i + 1))]
      BY <1>6, <1>7
    <3>2. Cardinality(Handed(socket, i + 1)) = Cardinality(Handed(socket, i))' + 1
      <4>1. i \in 0..l
        BY <1>7
      <4> QED BY <2>5, <4>1
    <3>3. before + Cardinality(Handed(socket, i + 1))
            = Len(received'[socket]) + Cardinality(Handed(socket, i))'
      BY <1>8, <2>4, <3>2
    <3> QED BY <1>1, <3>1, <3>3
  <2> QED BY <1>3, <2>7, <2>8, <2>9 DEF InOrder
<1>10. CASE ~HandsData(toPython[1], socket)
  <2>1. received'[socket] = received[socket] /\ Len(received'[socket]) = before
    BY <1>2, <1>4, <1>10 DEF Takes
  <2>2. \A i \in 0..l : Cardinality(Handed(socket, i + 1)) = Cardinality(Handed(socket, i))' + 0
    BY <1>3, <1>10, HandedShift
  <2>3. Len(emitted'[socket]) = Len(received'[socket]) + Cardinality(Handed(socket, l))'
    <3>1. PICK all \in Nat : all = Cardinality(Handed(socket, l))'
      BY <1>5
    <3>2. Cardinality(Handed(socket, l + 1)) = all
      BY <2>2, <3>1
    <3> QED BY <1>1, <1>6, <2>1, <3>1, <3>2
  <2>4. ASSUME NEW i \in Handed(socket, l)'
        PROVE  toPython'[i].data
                 = emitted'[socket][Len(received'[socket]) + Cardinality(Handed(socket, i))']
    <3>1. toPython'[i].data = emitted[socket][before + Cardinality(Handed(socket, i + 1))]
      BY <1>6, <1>7
    <3>2. Cardinality(Handed(socket, i + 1)) = Cardinality(Handed(socket, i))'
      <4>1. i \in 0..l
        BY <1>7
      <4> QED BY <1>8, <2>2, <4>1
    <3> QED BY <1>1, <2>1, <3>1, <3>2
  <2> QED BY <1>1, <1>3, <1>6, <2>1, <2>3, <2>4 DEF InOrder
<1> QED BY <1>9, <1>10

LEMMA HandleSockets ==
  ASSUME BaseInv, SocketInv, Handle
  PROVE  SocketInv'
<1>1. Takes /\ FreshInv /\ KnownInv /\ ClosedInv
  BY HandleTakes DEF SocketInv
<1>2. known'.sockets \subseteq Nat
  <2>1. BaseInv'
    BY HandleBase
  <2> QED BY <2>1 DEF BaseInv, TypeOK
<1> QED BY <1>1, <1>2, FreshTake, KnownTake, ClosedTake, OrderTake DEF SocketInv

-----------------------------------------------------------------------------
LEMMA SocketInit ==
  ASSUME Init
  PROVE  SocketInv
<1>1. FreshInv
  BY DEF Init, FreshInv, Fresh
<1>2. KnownInv /\ ClosedInv /\ ReceivedInOrder
  BY DEF Init, KnownInv, ClosedInv, ReceivedInOrder
<1> QED BY <1>1, <1>2 DEF SocketInv

LEMMA SocketNext ==
  ASSUME BaseInv, SocketInv, [Next]_vars
  PROVE  SocketInv'
<1>1. CASE UNCHANGED vars
  BY <1>1, SilentSockets DEF vars, program, tables, history
<1>2. ASSUME NEW operation \in NetCoreOperations \cup ServerOperations \cup SocketOperations,
             Call(operation)
      PROVE  SocketInv'
  BY <1>2, SilentSockets DEF Call, tables, history
<1>3. ASSUME NEW c \in 1..Len(calls), GetResponse(c) PROVE SocketInv'
  BY <1>3, SilentSockets DEF GetResponse, tables, history
<1>4. CASE Next
  BY <1>2, <1>3, <1>4, ReceivedFrameSockets, HandleSockets, HandleRequestSockets, WorkSockets,
     OpenedSockets, OpeningFailedSockets, StreamStep DEF Next, Answering
<1> QED BY <1>1, <1>4

(* Program and node have the same sockets: an open socket is known, or is   *)
(* announced by a message on its way.                                       *)
LEMMA AgreeFollows ==
  ASSUME SocketInv
  PROVE  SocketsAgree
<1>1. ASSUME NEW socket \in sockets \ orphans
      PROVE  socket \in known.sockets \/ \E i \in 1..Len(toPython) : Announces(toPython[i], socket)
  <2>1. SocketKnownAt(socket, Len(toPython))
    BY DEF SocketInv, KnownInv
  <2> QED BY <2>1 DEF SocketKnownAt, MakesKnown
<1> QED BY <1>1 DEF SocketsAgree, SocketInv, ClosedInv

LEMMA SocketsInvariant == Spec => [](BaseInv /\ SocketInv)
<1>1. Init => BaseInv /\ SocketInv
  BY BaseInit, SocketInit
<1>2. BaseInv /\ SocketInv /\ [Next]_vars => BaseInv' /\ SocketInv'
  BY BaseNext, SocketNext
<1> QED BY <1>1, <1>2, PTL DEF Spec

(* Calls, messages, tables and streams of program and node are of their     *)
(* types: whatever connects, no socket has a number beyond Sockets          *)
(* (NetCore of core.py, NetCore of net.ts).                                 *)
THEOREM IpcTypeCorrect == Spec => []TypeOK
<1>1. BaseInv => TypeOK
  BY DEF BaseInv
<1> QED BY <1>1, SocketsInvariant, PTL

(* The sockets that the program can name (IpcServer._socket) and those of   *)
(* the node (#sockets) are the same, but for what the messages on their way *)
(* will tell, and for sockets accepted after the close of their server:     *)
(* connectSocket, closeSocket and the callback of startServer tell of each  *)
(* change after they have made it.                                          *)
THEOREM SocketsStayAgreed == Spec => []SocketsAgree
<1>1. SocketInv => SocketsAgree
  BY AgreeFollows
<1> QED BY <1>1, SocketsInvariant, PTL

(* What onReceive of an open socket has emitted is what its Socket of       *)
(* core.py has got, followed by what is on its way, in the same order: the  *)
(* handler of the program drops none of it, as a socket is announced before *)
(* its first frame.                                                         *)
THEOREM ReceivedStaysInOrder == Spec => []ReceivedInOrder
<1>1. SocketInv => ReceivedInOrder
  BY DEF SocketInv
<1> QED BY <1>1, SocketsInvariant, PTL

-----------------------------------------------------------------------------
(* What the other end of a stream has got, when a frame more arrives.       *)

StreamFrames == [call : Nat, fin : BOOLEAN]

Message(got, run) == [k \in 1..(run[2] - run[1] + 1) |-> got[run[1] + k - 1].call]

LEMMA RunsMore ==
  ASSUME NEW got \in Seq(StreamFrames), NEW f \in StreamFrames,
         NEW a \in Nat, NEW b \in Nat
  PROVE  <<a, b>> \in Runs(Append(got, f)) <=>
           \/ <<a, b>> \in Runs(got)
           \/ /\ f.fin /\ b = Len(got) + 1 /\ a \in 1..b
              /\ \A k \in a..Len(got) : ~got[k].fin
              /\ a = 1 \/ got[a - 1].fin
<1> DEFINE n == Len(got)
           longer == Append(got, f)
<1>1. /\ n \in Nat /\ Len(longer) = n + 1 /\ longer[n + 1] = f
      /\ \A k \in 1..n : longer[k] = got[k]
  BY AppendProperties, LenProperties
<1> HIDE DEF n, longer
<1>2. <<a, b>> \in Runs(longer) <=>
        /\ a \in 1..(n + 1) /\ b \in 1..(n + 1) /\ a <= b /\ longer[b].fin
        /\ \A k \in a..(b - 1) : ~longer[k].fin
        /\ a = 1 \/ longer[a - 1].fin
  BY <1>1 DEF Runs
<1>3. <<a, b>> \in Runs(got) <=>
        /\ a \in 1..n /\ b \in 1..n /\ a <= b /\ got[b].fin
        /\ \A k \in a..(b - 1) : ~got[k].fin
        /\ a = 1 \/ got[a - 1].fin
  BY DEF Runs, n
<1>4. CASE b \in 1..n
  <2>1. b # n + 1 /\ b \in 1..(n + 1) /\ longer[b] = got[b]
    BY <1>1, <1>4
  <2>2. a \in 1..n => /\ \A k \in a..(b - 1) : longer[k] = got[k]
                      /\ a # 1 => longer[a - 1] = got[a - 1]
    BY <1>1, <1>4
  <2>3. a <= b => (a \in 1..n <=> a \in 1..(n + 1))
    BY <1>1, <1>4
  <2> QED BY <1>2, <1>3, <1>4, <2>1, <2>2, <2>3 DEF n, longer
<1>5. CASE b = n + 1
  <2>1. /\ b \notin 1..n /\ b \in 1..(n + 1) /\ longer[b] = f /\ b - 1 = n
        /\ a \in 1..(n + 1) => a <= b /\ a \in 1..b
        /\ a \in 1..b => a \in 1..(n + 1)
    BY <1>1, <1>5
  <2>2. a \in 1..(n + 1) => /\ \A k \in a..n : longer[k] = got[k]
                            /\ a # 1 => longer[a - 1] = got[a - 1]
    BY <1>1
  <2> QED BY <1>2, <1>3, <1>5, <2>1, <2>2 DEF n, longer
<1>6. CASE b \notin 1..(n + 1)
  <2>1. b \notin 1..n /\ b # n + 1
    BY <1>1, <1>6
  <2> QED BY <1>2, <1>3, <1>6, <2>1 DEF n, longer
<1>7. b \in 1..n \/ b = n + 1 \/ b \notin 1..(n + 1)
  BY <1>1
<1> QED BY <1>4, <1>5, <1>6, <1>7

LEMMA RunsType ==
  ASSUME NEW got \in Seq(StreamFrames), NEW run \in Runs(got)
  PROVE  \E a \in Nat, b \in Nat : run = <<a, b>> /\ a \in 1..Len(got) /\ b \in 1..Len(got) /\ a <= b
BY LenProperties DEF Runs

LEMMA MessageStays ==
  ASSUME NEW got \in Seq(StreamFrames), NEW f \in StreamFrames, NEW run \in Runs(got)
  PROVE  Message(Append(got, f), run) = Message(got, run)
<1>1. PICK a \in Nat, b \in Nat :
        run = <<a, b>> /\ a \in 1..Len(got) /\ b \in 1..Len(got) /\ a <= b
  BY RunsType
<1>2. \A k \in 1..Len(got) : Append(got, f)[k] = got[k]
  BY AppendProperties
<1>3. run[1] = a /\ run[2] = b
  BY <1>1
<1>4. \A k \in 1..(b - a + 1) : a + k - 1 \in 1..Len(got)
  BY <1>1, LenProperties
<1>5. \A k \in 1..(b - a + 1) : Append(got, f)[a + k - 1].call = got[a + k - 1].call
  BY <1>2, <1>4
<1> QED BY <1>3, <1>5 DEF Message

LEMMA AccumulatedIs ==
  ASSUME NEW got
  PROVE  Accumulated(got) = {Message(got, run) : run \in Runs(got)}
BY DEF Accumulated, Message

(* No message is lost, and none is made by a frame that does not end one.   *)
LEMMA AccumulatedMore ==
  ASSUME NEW got \in Seq(StreamFrames), NEW f \in StreamFrames
  PROVE  /\ \A message \in Accumulated(got) : message \in Accumulated(Append(got, f))
         /\ ~f.fin => Accumulated(Append(got, f)) = Accumulated(got)
<1>1. Append(got, f) \in Seq(StreamFrames)
  BY AppendProperties
<1>2. ASSUME NEW run \in Runs(got)
      PROVE  run \in Runs(Append(got, f)) /\ Message(Append(got, f), run) = Message(got, run)
  BY RunsType, RunsMore, MessageStays
<1>3. ASSUME NEW run \in Runs(Append(got, f)), ~f.fin
      PROVE  run \in Runs(got)
  <2>1. \E a \in Nat, b \in Nat :
          /\ run = <<a, b>> /\ a \in 1..Len(Append(got, f))
          /\ b \in 1..Len(Append(got, f)) /\ a <= b
    BY <1>1, <1>3, RunsType, Zenon
  <2>2. PICK a \in Nat, b \in Nat : run = <<a, b>>
    BY <2>1, Zenon
  <2>3. <<a, b>> \in Runs(Append(got, f))
    BY <1>3, <2>2, Zenon
  <2>4. <<a, b>> \in Runs(got)
    BY <1>3, <2>3, RunsMore
  <2> QED BY <2>2, <2>4, Zenon
<1> QED BY <1>2, <1>3, AccumulatedIs

(* The frame that ends a message makes that one, of the frames since the    *)
(* last end.                                                                *)
LEMMA AccumulatedEnd ==
  ASSUME NEW got \in Seq(StreamFrames), NEW c \in Nat, NEW size \in Nat \ {0},
         size - 1 <= Len(got),
         LET start == Len(got) - (size - 1)
         IN  /\ start = 0 \/ got[start].fin
             /\ \A k \in (start + 1)..Len(got) : got[k] = [call |-> c, fin |-> FALSE]
  PROVE  LET f == [call |-> c, fin |-> TRUE]
         IN  /\ Whole(c, size) \in Accumulated(Append(got, f))
             /\ \A message \in Accumulated(Append(got, f)) :
                  message = Whole(c, size) \/ message \in Accumulated(got)
<1> DEFINE n == Len(got)
           start == n - (size - 1)
           f == [call |-> c, fin |-> TRUE]
           longer == Append(got, f)
<1>1. /\ n \in Nat /\ start \in Nat /\ n - start + 1 = size /\ start <= n
      /\ f \in StreamFrames /\ f.fin /\ f.call = c
      /\ longer \in Seq(StreamFrames) /\ longer[n + 1] = f /\ Len(longer) = n + 1
      /\ \A k \in 1..n : longer[k] = got[k]
  <2>1. f \in StreamFrames /\ n \in Nat
    BY LenProperties DEF StreamFrames
  <2> HIDE DEF f
  <2>2. /\ longer \in Seq(StreamFrames) /\ longer[n + 1] = f /\ Len(longer) = n + 1
        /\ \A k \in 1..n : longer[k] = got[k]
    BY <2>1, AppendProperties
  <2> QED BY <2>1, <2>2 DEF f
<1>2. /\ start = 0 \/ got[start].fin
      /\ \A k \in (start + 1)..n : got[k] = [call |-> c, fin |-> FALSE]
  OBVIOUS
<1>3. PICK s \in Nat : s = start + 1
  <2> HIDE DEF n, start, f, longer
  <2> QED BY <1>1
<1>4. \A a \in Nat, b \in Nat :
        <<a, b>> \in Runs(longer) <=> <<a, b>> \in Runs(got) \/ (a = s /\ b = n + 1)
  <2> SUFFICES ASSUME NEW a \in Nat, NEW b \in Nat
               PROVE  <<a, b>> \in Runs(longer) <=> <<a, b>> \in Runs(got) \/ (a = s /\ b = n + 1)
    OBVIOUS
  <2>1. <<a, b>> \in Runs(longer) <=>
          \/ <<a, b>> \in Runs(got)
          \/ /\ f.fin /\ b = n + 1 /\ a \in 1..b
             /\ \A k \in a..n : ~got[k].fin
             /\ a = 1 \/ got[a - 1].fin
    BY <1>1, RunsMore
  <2> HIDE DEF n, longer, f, start
  <2>2. CASE a = s
    <3>1. /\ a \in 1..(n + 1) /\ \A k \in a..n : ~got[k].fin
      BY <1>1, <1>2, <1>3, <2>2
    <3>2. a = 1 \/ got[a - 1].fin
      BY <1>1, <1>2, <1>3, <2>2
    <3> QED BY <1>1, <2>1, <2>2, <3>1, <3>2
  <2>3. CASE a # s
    <3>1. ASSUME a \in 1..(n + 1), \A k \in a..n : ~got[k].fin, a = 1 \/ got[a - 1].fin
          PROVE  FALSE
      <4>1. CASE a < s
        <5>1. start \in a..n /\ start # 0
          BY <1>1, <1>3, <3>1, <4>1
        <5> QED BY <1>2, <3>1, <5>1
      <4>2. CASE a > s
        <5>1. a - 1 \in (start + 1)..n /\ a # 1
          BY <1>1, <1>3, <3>1, <4>2
        <5>2. got[a - 1] = [call |-> c, fin |-> FALSE]
          BY <1>2, <5>1
        <5> QED BY <3>1, <5>1, <5>2
      <4> QED BY <2>3, <4>1, <4>2
    <3> QED BY <2>1, <2>3, <3>1
  <2> QED BY <2>2, <2>3
<1>5. Message(longer, <<s, n + 1>>) = Whole(c, size)
  <2> HIDE DEF n, longer, start
  <2>1. (n + 1) - s + 1 = size
    BY <1>1, <1>3
  <2>2. ASSUME NEW k \in 1..size PROVE longer[s + k - 1].call = c
    <3>1. CASE k = size
      <4>1. s + k - 1 = n + 1
        BY <2>1, <3>1, <1>1, <1>3
      <4> QED BY <1>1, <4>1
    <3>2. CASE k # size
      <4>1. s + k - 1 \in (start + 1)..n /\ s + k - 1 \in 1..n
        BY <1>1, <1>3, <2>1, <3>2
      <4>2. longer[s + k - 1] = [call |-> c, fin |-> FALSE]
        BY <1>1, <1>2, <4>1
      <4> QED BY <4>2
    <3> QED BY <3>1, <3>2
  <2>3. <<s, n + 1>>[1] = s /\ <<s, n + 1>>[2] = n + 1
    OBVIOUS
  <2> QED BY <2>1, <2>2, <2>3 DEF Message, Whole
<1> HIDE DEF n, start
<1>6. Whole(c, size) \in Accumulated(longer)
  <2>1. <<s, n + 1>> \in Runs(longer)
    <3> HIDE DEF longer
    <3>1. n + 1 \in Nat
      BY <1>1
    <3> QED BY <1>4, <3>1
  <2> QED BY <1>5, <2>1, AccumulatedIs
<1>7. ASSUME NEW message \in Accumulated(longer)
      PROVE  message = Whole(c, size) \/ message \in Accumulated(got)
  <2>1. PICK run \in Runs(longer) : message = Message(longer, run)
    BY AccumulatedIs
  <2>2. PICK a \in Nat, b \in Nat : run = <<a, b>>
    BY <1>1, <2>1, RunsType, ZenonT(40)
  <2>3. run \in Runs(got) \/ run = <<s, n + 1>>
    BY <1>4, <2>2
  <2>4. CASE run \in Runs(got)
    <3>1. message = Message(got, run)
      BY <1>1, <2>1, <2>4, MessageStays
    <3> QED BY <2>4, <3>1, AccumulatedIs
  <2> QED BY <1>5, <2>1, <2>3, <2>4
<1> QED BY <1>6, <1>7

-----------------------------------------------------------------------------
(* The operators of a stream keep it so.                                    *)

LEMMA StreamParts ==
  ASSUME NEW s \in StreamSockets
  PROVE  /\ s.sender \in Seq(Entries) /\ Len(s.sender) \in Nat /\ s.receiver \in Nat
         /\ s.current \in Entries /\ s.current.call \in Nat /\ s.current.size \in Nat
         /\ s.left \in Nat /\ s.looping \in BOOLEAN /\ s.aborted \in BOOLEAN
         /\ s.sent \in Seq(StreamFrames) /\ Len(s.sent) \in Nat
<1>1. /\ s.sender \in Seq(Entries) /\ s.receiver \in Nat /\ s.current \in Entries /\ s.left \in Nat
      /\ s.looping \in BOOLEAN /\ s.aborted \in BOOLEAN /\ s.sent \in Seq(StreamFrames)
  BY DEF StreamSockets, StreamFrames
<1>2. s.current.call \in Nat /\ s.current.size \in Nat
  BY <1>1 DEF Entries
<1> QED BY <1>1, <1>2, LenProperties

LEMMA NothingAccumulated == Accumulated(<<>>) = {}
<1>1. Runs(<<>>) = {}
  BY DEF Runs
<1> QED BY <1>1 DEF Accumulated

LEMMA NewStreamOK ==
  ASSUME NEW socket
  PROVE  StreamOK(socket, NewStream)
BY NothingAccumulated
   DEF NewStream, NewSender, Receiver, StreamOK, SenderOK, CurrentOK, TailOK, SentOK, Unfinished

LEMMA StreamSendOK ==
  ASSUME NEW socket, NEW s \in StreamSockets, StreamOK(socket, s), NEW entry \in Entries,
         SendsTo(socket, entry)
  PROVE  StreamOK(socket, StreamSend(s, entry)) /\ StreamSend(s, entry).sent = s.sent
<1> DEFINE t == StreamSend(s, entry)
<1>1. /\ t.sender = Append(s.sender, entry) /\ t.receiver = s.receiver /\ t.current = s.current
      /\ t.left = s.left /\ t.looping = s.looping /\ t.sent = s.sent
  BY DEF StreamSend, SendValue, StreamSockets
<1> HIDE DEF t
<1>2. SenderOK(socket, t)
  <2>1. s.sender \in Seq(Entries) /\ Len(s.sender) \in Nat /\ s.receiver \in Nat
    BY StreamParts
  <2>2. /\ Len(t.sender) = Len(s.sender) + 1 /\ t.sender[Len(s.sender) + 1] = entry
        /\ \A i \in 1..Len(s.sender) : t.sender[i] = s.sender[i]
    BY <1>1, <2>1, AppendProperties
  <2> QED BY <1>1, <2>1, <2>2 DEF SenderOK, StreamOK
<1>3. CurrentOK(socket, t) /\ TailOK(t) /\ SentOK(t.sent)
  BY <1>1 DEF StreamOK, CurrentOK, TailOK, Unfinished
<1> QED BY <1>1, <1>2, <1>3 DEF StreamOK, t

LEMMA TakeEntryOK ==
  ASSUME NEW socket, NEW s \in StreamSockets, StreamOK(socket, s), CanTake(s)
  PROVE  StreamOK(socket, TakeEntry(s)) /\ TakeEntry(s).sent = s.sent
<1> DEFINE t == TakeEntry(s)
           entry == NextValue(s.sender, s.receiver)
<1>1. /\ t.sender = s.sender /\ t.receiver = s.receiver + 1 /\ t.current = entry
      /\ t.left = entry.size /\ t.looping = s.looping /\ t.sent = s.sent
  BY DEF TakeEntry, StreamSockets
<1>2. /\ s.looping /\ s.current = NoEntry /\ s.receiver + 1 <= Len(s.sender)
      /\ s.receiver + 1 \in 1..Len(s.sender) /\ entry = s.sender[s.receiver + 1]
      /\ entry \in Entries /\ entry.size \in Nat
  <2>1. s.sender \in Seq(Entries) /\ Len(s.sender) \in Nat /\ s.receiver \in Nat
    BY StreamParts
  <2>2. s.looping /\ s.current = NoEntry /\ s.receiver < Len(s.sender)
    BY DEF CanTake, HasNext
  <2>3. s.receiver + 1 \in 1..Len(s.sender) /\ entry = s.sender[s.receiver + 1]
    BY <2>1, <2>2 DEF NextValue
  <2>4. entry \in Entries
    BY <2>1, <2>3, ElementOfSeq
  <2> HIDE DEF entry
  <2>5. entry.size \in Nat
    BY <2>4 DEF Entries
  <2> QED BY <2>1, <2>2, <2>3, <2>4, <2>5
<1> HIDE DEF t, entry
<1>3. SendsTo(socket, entry)
  BY <1>2 DEF StreamOK, SenderOK
<1>4. SenderOK(socket, t)
  BY <1>1, <1>2 DEF StreamOK, SenderOK
<1>5. CurrentOK(socket, t)
  BY <1>1, <1>2, <1>3 DEF CurrentOK
<1>6. TailOK(t)
  <2>1. Unfinished(s) = 0 /\ Unfinished(t) = 0
    BY <1>1, <1>2 DEF Unfinished
  <2>2. entry # NoEntry
    BY <1>3 DEF SendsTo, NoEntry, StreamEntry
  <2>3. Len(s.sent) \in Nat
    BY StreamParts
  <2>4. /\ Len(s.sent) = 0 \/ s.sent[Len(s.sent)].fin
    BY <1>2, <2>1, <2>3 DEF StreamOK, TailOK
  <2>5. \A k \in (Len(s.sent) + 1)..Len(s.sent) : FALSE
    BY <2>3
  <2> QED BY <1>1, <1>2, <2>1, <2>2, <2>3, <2>4, <2>5 DEF TailOK
<1> QED BY <1>1, <1>4, <1>5, <1>6 DEF StreamOK, t

(* A frame arrives: the last one of a message makes it one that arrived.    *)
LEMMA FrameArrives ==
  ASSUME NEW socket, NEW s \in StreamSockets, StreamOK(socket, s), s.left > 0, s.looping
  PROVE  /\ StreamFrame(s) \in StreamFrames /\ StreamFrame(s).call = s.current.call
         /\ StreamFrame(s).fin <=> s.left = 1
         /\ SendsTo(socket, s.current) /\ s.current # NoEntry /\ s.left <= s.current.size
         /\ SentOK(Append(s.sent, StreamFrame(s)))
         /\ \A message \in Accumulated(s.sent) :
              message \in Accumulated(Append(s.sent, StreamFrame(s)))
         /\ s.left = 1 => Whole(s.current.call, s.current.size)
                            \in Accumulated(Append(s.sent, StreamFrame(s)))
<1> DEFINE f == StreamFrame(s)
           size == s.current.size
<1>1. /\ s.sent \in Seq(StreamFrames) /\ Len(s.sent) \in Nat /\ s.current.call \in Nat
      /\ size \in Nat /\ s.left \in Nat
  BY StreamParts
<1>2. f \in StreamFrames /\ f.call = s.current.call /\ (f.fin <=> s.left = 1)
  BY <1>1 DEF StreamFrame, StreamFrames
<1>3. s.current # NoEntry
  BY <1>1 DEF StreamOK, TailOK
<1>4. SendsTo(socket, s.current) /\ s.left <= size
  BY <1>3 DEF StreamOK, CurrentOK
<1>5. /\ \A message \in Accumulated(s.sent) : message \in Accumulated(Append(s.sent, f))
      /\ ~f.fin => Accumulated(Append(s.sent, f)) = Accumulated(s.sent)
  BY <1>1, <1>2, AccumulatedMore
<1>6. SentOK(s.sent)
  BY DEF StreamOK
<1>7. ASSUME s.left = 1
      PROVE  /\ Whole(s.current.call, size) \in Accumulated(Append(s.sent, f))
             /\ \A message \in Accumulated(Append(s.sent, f)) :
                  message = Whole(s.current.call, size) \/ message \in Accumulated(s.sent)
  <2>1. f = [call |-> s.current.call, fin |-> TRUE]
    BY <1>7 DEF StreamFrame
  <2>2. Unfinished(s) = size - 1
    BY <1>3, <1>7 DEF Unfinished
  <2>3. size \in Nat \ {0} /\ size - 1 <= Len(s.sent)
        /\ LET start == Len(s.sent) - (size - 1)
           IN  /\ start = 0 \/ s.sent[start].fin
               /\ \A k \in (start + 1)..Len(s.sent) :
                    s.sent[k] = [call |-> s.current.call, fin |-> FALSE]
    <3>1. /\ Len(s.sent) - (size - 1) >= 0
          /\ Len(s.sent) - (size - 1) = 0 \/ s.sent[Len(s.sent) - (size - 1)].fin
          /\ \A k \in (Len(s.sent) - (size - 1) + 1)..Len(s.sent) :
               s.sent[k] = [call |-> s.current.call, fin |-> FALSE]
      BY <2>2 DEF StreamOK, TailOK
    <3>2. size # 0
      BY <1>1, <1>4, <1>7
    <3> HIDE DEF size
    <3>3. size \in Nat \ {0} /\ size - 1 <= Len(s.sent)
      BY <1>1, <3>1, <3>2
    <3> QED BY <3>1, <3>3
  <2> HIDE DEF f, size
  <2> QED BY <1>1, <2>1, <2>3, AccumulatedEnd
<1>8. SentOK(Append(s.sent, f))
  <2>1. CASE s.left = 1
    <3>1. /\ s.current.call \in 1..Len(calls) /\ calls[s.current.call].op = "SendData"
          /\ calls[s.current.call].arg[2] = size
      BY <1>4 DEF SendsTo
    <3> HIDE DEF f, size
    <3> QED BY <1>6, <1>7, <2>1, <3>1 DEF SentOK
  <2>2. CASE s.left # 1
    <3> HIDE DEF f
    <3> QED BY <1>2, <1>5, <1>6, <2>2 DEF SentOK
  <2> QED BY <2>1, <2>2
<1> QED BY <1>2, <1>3, <1>4, <1>5, <1>7, <1>8

LEMMA FrameOkOK ==
  ASSUME NEW socket, NEW s \in StreamSockets, StreamOK(socket, s), s.left > 0, s.looping
  PROVE  StreamOK(socket, FrameOk(s)) /\ FrameOk(s).sent = Append(s.sent, StreamFrame(s))
<1> DEFINE t == FrameOk(s)
           f == StreamFrame(s)
<1>1. /\ t.sender = s.sender /\ t.receiver = s.receiver /\ t.current = s.current
      /\ t.left = s.left - 1 /\ t.looping = s.looping /\ t.sent = Append(s.sent, f)
  BY DEF FrameOk, StreamSockets
<1>2. /\ s.sent \in Seq(StreamFrames) /\ Len(s.sent) \in Nat /\ s.current.call \in Nat
      /\ s.current.size \in Nat /\ s.left \in Nat
  BY StreamParts
<1>3. /\ f \in StreamFrames /\ f.call = s.current.call /\ (f.fin <=> s.left = 1)
      /\ SendsTo(socket, s.current) /\ s.current # NoEntry /\ s.left <= s.current.size
      /\ SentOK(Append(s.sent, f))
      /\ s.left = 1 => Whole(s.current.call, s.current.size) \in Accumulated(Append(s.sent, f))
  BY FrameArrives
<1>4. f = [call |-> s.current.call, fin |-> s.left = 1]
  BY DEF StreamFrame
<1> HIDE DEF t, f
<1>5. /\ Len(t.sent) = Len(s.sent) + 1 /\ t.sent[Len(s.sent) + 1] = f
      /\ \A k \in 1..Len(s.sent) : t.sent[k] = s.sent[k]
  BY <1>1, <1>2, <1>3, AppendProperties
<1>6. SenderOK(socket, t) /\ SentOK(t.sent)
  BY <1>1, <1>3 DEF StreamOK, SenderOK
<1>7. CurrentOK(socket, t)
  <2>1. t.left <= t.current.size /\ (t.left = 0 => s.left = 1)
    BY <1>1, <1>2, <1>3
  <2> QED BY <1>1, <1>3, <2>1 DEF CurrentOK
<1>8. TailOK(t)
  <2>1. CASE s.left = 1
    <3>1. Unfinished(t) = 0
      BY <1>1, <2>1 DEF Unfinished
    <3>2. t.sent[Len(t.sent)].fin /\ Len(t.sent) - 0 = Len(t.sent) /\ Len(t.sent) >= 0
          /\ \A k \in (Len(t.sent) + 1)..Len(t.sent) : FALSE
      BY <1>2, <1>3, <1>5, <2>1
    <3> QED BY <1>1, <1>3, <3>1, <3>2 DEF TailOK
  <2>2. CASE s.left # 1
    <3>1. PICK n \in Nat : n = Len(s.sent)
      BY <1>2
    <3>2. Unfinished(s) = s.current.size - s.left /\ Unfinished(t) = s.current.size - s.left + 1
      BY <1>1, <1>2, <1>3, <2>2 DEF Unfinished
    <3>3. PICK start \in Nat : start = n - Unfinished(s) /\ start <= n
      BY <1>2, <1>3, <3>1, <3>2 DEF StreamOK, TailOK
    <3>4. /\ start = 0 \/ s.sent[start].fin
          /\ \A k \in (start + 1)..n : s.sent[k] = [call |-> s.current.call, fin |-> FALSE]
      BY <3>1, <3>3 DEF StreamOK, TailOK
    <3>5. Len(t.sent) - Unfinished(t) = start /\ Len(t.sent) = n + 1
      BY <1>2, <1>5, <3>1, <3>2, <3>3
    <3>6. start = 0 \/ t.sent[start].fin
      BY <1>5, <3>1, <3>3, <3>4
    <3>7. ASSUME NEW k \in (start + 1)..(n + 1)
          PROVE  t.sent[k] = [call |-> s.current.call, fin |-> FALSE]
      <4>1. CASE k = n + 1
        BY <1>4, <1>5, <2>2, <3>1, <4>1
      <4>2. CASE k # n + 1
        <5>1. k \in (start + 1)..n /\ k \in 1..n
          BY <4>2
        <5> QED BY <1>5, <3>1, <3>4, <5>1
      <4> QED BY <4>1, <4>2
    <3>8. /\ Len(t.sent) - Unfinished(t) >= 0
          /\ Len(t.sent) - Unfinished(t) = 0 \/ t.sent[Len(t.sent) - Unfinished(t)].fin
          /\ \A k \in (Len(t.sent) - Unfinished(t) + 1)..Len(t.sent) :
               t.sent[k] = [call |-> t.current.call, fin |-> FALSE]
      <4>1. start >= 0
        OBVIOUS
      <4> QED BY <1>1, <3>5, <3>6, <3>7, <4>1, Zenon
    <3> QED BY <1>1, <1>3, <3>8 DEF TailOK
  <2> QED BY <2>1, <2>2
<1> QED BY <1>1, <1>6, <1>7, <1>8 DEF StreamOK, t, f

LEMMA EntryFailedOK ==
  ASSUME NEW socket, NEW s \in StreamSockets, StreamOK(socket, s), s.left > 0, s.looping,
         NEW arrived \in BOOLEAN
  PROVE  /\ StreamOK(socket, EntryFailed(s, arrived))
         /\ EntryFailed(s, arrived).sent \in {s.sent, Append(s.sent, StreamFrame(s))}
<1> DEFINE t == EntryFailed(s, arrived)
<1>1. /\ t.sender = s.sender /\ t.receiver = s.receiver /\ t.current = NoEntry
      /\ t.looping = FALSE /\ t.sent \in {s.sent, Append(s.sent, StreamFrame(s))}
  BY DEF EntryFailed, StreamSockets
<1> HIDE DEF t
<1>2. SentOK(t.sent)
  BY <1>1, FrameArrives DEF StreamOK
<1> QED BY <1>1, <1>2 DEF StreamOK, SenderOK, CurrentOK, TailOK, t

LEMMA EntryDoneOK ==
  ASSUME NEW socket, NEW s \in StreamSockets, StreamOK(socket, s), IsSent(s)
  PROVE  StreamOK(socket, EntryDone(s)) /\ EntryDone(s).sent = s.sent
<1> DEFINE t == EntryDone(s)
<1>1. /\ t.sender = s.sender /\ t.receiver = Len(s.sender) /\ t.current = NoEntry
      /\ t.left = s.left /\ t.sent = s.sent
  BY DEF EntryDone, StreamSockets, Receiver
<1> HIDE DEF t
<1>2. s.left = 0 /\ s.looping /\ Len(s.sender) \in Nat /\ Len(s.sent) \in Nat
  BY StreamParts DEF IsSent, StreamOK, CurrentOK
<1>3. Unfinished(s) = 0 /\ Unfinished(t) = 0
  BY <1>1, <1>2 DEF Unfinished
<1>4. TailOK(t)
  <2>1. Len(s.sent) - 0 = Len(s.sent) /\ \A k \in (Len(s.sent) + 1)..Len(s.sent) : FALSE
    BY <1>2
  <2>2. Len(s.sent) = 0 \/ s.sent[Len(s.sent)].fin
    BY <1>2, <1>3, <2>1 DEF StreamOK, TailOK
  <2> QED BY <1>1, <1>2, <1>3, <2>1, <2>2 DEF TailOK
<1> QED BY <1>1, <1>2, <1>4 DEF StreamOK, SenderOK, CurrentOK, t

LEMMA AbortLoopOK ==
  ASSUME NEW socket, NEW s \in StreamSockets, StreamOK(socket, s)
  PROVE  StreamOK(socket, AbortLoop(s)) /\ AbortLoop(s).sent = s.sent
<1> DEFINE t == AbortLoop(s)
<1>1. /\ t.sender = s.sender /\ t.receiver = s.receiver /\ t.current = s.current
      /\ t.left = s.left /\ t.sent = s.sent /\ t.looping = (s.looping /\ s.current # NoEntry)
  BY DEF AbortLoop, StreamSockets
<1> HIDE DEF t
<1> QED BY <1>1 DEF StreamOK, SenderOK, CurrentOK, TailOK, Unfinished, t

-----------------------------------------------------------------------------
(* StreamInv: what a step leaves alone.                                     *)

CallsKept ==
  /\ Len(calls) \in Nat /\ Len(calls') \in Nat /\ Len(calls) <= Len(calls')
  /\ \A c \in 1..Len(calls) : calls'[c].op = calls[c].op /\ calls'[c].arg = calls[c].arg

MadeKept ==
  /\ Len(made) \in Nat /\ Len(made') \in Nat /\ Len(made) <= Len(made')
  /\ \A i \in 1..Len(made) : made'[i] = made[i]

(* A stream moves on, and no message that has arrived is lost.              *)
Moves(socket) ==
  \/ streams'[socket] = streams[socket]
  \/ /\ StreamOK(socket, streams'[socket])
     /\ \A message \in Accumulated(streams[socket].sent) :
          message \in Accumulated(streams'[socket].sent)

LEMMA StreamLater ==
  ASSUME CallsKept, NEW socket, NEW s, StreamOK(socket, s)
  PROVE  StreamOK(socket, s)'
<1>1. /\ Len(calls) \in Nat /\ Len(calls') \in Nat /\ Len(calls) <= Len(calls')
      /\ \A c \in 1..Len(calls) : /\ calls'[c].op = calls[c].op /\ calls'[c].arg = calls[c].arg
                                  /\ c \in 1..Len(calls')
  BY DEF CallsKept
<1>2. \A entry : SendsTo(socket, entry) => SendsTo(socket, entry)'
  BY <1>1 DEF SendsTo
<1>3. SentOK(s.sent)'
  BY <1>1 DEF StreamOK, SentOK
<1> QED BY <1>2, <1>3 DEF StreamOK, SenderOK, CurrentOK, TailOK

LEMMA DeliveredLater ==
  ASSUME BaseInv, CallsKept, MadeKept, \A x \in Sockets : Moves(x),
         NEW c \in 1..Len(calls), Delivered(c)
  PROVE  Delivered(c)'
<1>1. PICK socket : socket = calls[c].arg[1]
  OBVIOUS
<1>2. /\ calls'[c].arg[1] = socket /\ calls'[c].arg[2] = calls[c].arg[2]
      /\ socket \in 1..Len(made) /\ socket \in 1..Len(made') /\ made'[socket] = made[socket]
      /\ socket \in Sockets
  BY <1>1, MadeBound DEF CallsKept, MadeKept, Delivered
<1>3. \A message \in Accumulated(streams[socket].sent) :
        message \in Accumulated(streams'[socket].sent)
  BY <1>2 DEF Moves
<1> QED BY <1>1, <1>2, <1>3 DEF Delivered

LEMMA WorkLater ==
  ASSUME CallsKept, MadeKept, NEW c, WorkOK(c)
  PROVE  WorkOK(c)'
BY DEF CallsKept, MadeKept, WorkOK

LEMMA StreamInvStep ==
  ASSUME BaseInv, StreamInv, CallsKept, MadeKept, \A x \in Sockets : Moves(x),
         \A c \in works' : c \in works \/ WorkOK(c),
         \A i \in 1..Len(toPython') : \A c \in Nat :
           TellsSuccess(toPython'[i], c) => c \in 1..Len(calls'),
         \A c \in 1..Len(calls') : calls'[c].op = "SendData" /\ Succeeds(c)' =>
           c \in 1..Len(calls) /\ (Succeeds(c) \/ Delivered(c)')
  PROVE  StreamInv'
<1>1. ASSUME NEW socket \in Sockets PROVE StreamOK(socket, streams[socket])'
  <2>1. PICK s : s = streams'[socket]
    OBVIOUS
  <2>2. StreamOK(socket, s)
    BY <2>1 DEF Moves, StreamInv
  <2>3. StreamOK(socket, s)'
    BY <2>2, StreamLater
  <2> QED BY <2>1, <2>3
<1>2. \A c \in works' : WorkOK(c)'
  BY WorkLater DEF StreamInv
<1>3. ASSUME NEW c \in 1..Len(calls'), calls'[c].op = "SendData", Succeeds(c)'
      PROVE  Delivered(c)'
  <2>1. c \in 1..Len(calls) /\ (Succeeds(c) \/ Delivered(c)')
    BY <1>3
  <2>2. CASE Succeeds(c)
    <3>1. Delivered(c)
      BY <1>3, <2>1, <2>2 DEF StreamInv, CallsKept
    <3> QED BY <2>1, <3>1, DeliveredLater
  <2> QED BY <2>1, <2>2
<1>4. \A i \in 1..Len(toPython') : \A c \in Nat :
        TellsSuccess(toPython[i], c)' => c \in 1..Len(calls')
  BY DEF TellsSuccess
<1> QED BY <1>1, <1>2, <1>3, <1>4 DEF StreamInv

(* A step of the node: it appends messages, and leaves the calls alone.     *)
LEMMA NodeStep ==
  ASSUME BaseInv, StreamInv, Appends, UNCHANGED calls, MadeKept, \A x \in Sockets : Moves(x),
         \A c \in works' : c \in works \/ WorkOK(c),
         \A k \in Added : \A c \in Nat : TellsSuccess(toPython'[k], c) =>
           c \in 1..Len(calls) /\ (calls[c].op = "SendData" => Delivered(c)')
  PROVE  StreamInv'
<1>1. CallsKept /\ calls' = calls
  BY LenProperties DEF CallsKept, BaseInv, TypeOK
<1>2. ASSUME NEW c \in 1..Len(calls'), calls'[c].op = "SendData", Succeeds(c)'
      PROVE  c \in 1..Len(calls) /\ (Succeeds(c) \/ Delivered(c)')
  <2>1. \/ calls[c].answer = "Success"
        \/ \E i \in 1..Len(toPython') : TellsSuccess(toPython'[i], c)
    BY <1>1, <1>2 DEF Succeeds, TellsSuccess
  <2>2. ASSUME NEW i \in 1..Len(toPython'), TellsSuccess(toPython'[i], c)
        PROVE  Succeeds(c) \/ Delivered(c)'
    <3>1. i \in 1..Len(toPython) \/ i \in Added
      BY DEF Appends, Added
    <3>2. i \in 1..Len(toPython) => toPython'[i] = toPython[i]
      BY DEF Appends
    <3> QED BY <1>1, <1>2, <2>2, <3>1, <3>2 DEF Succeeds
  <2> QED BY <1>1, <2>1, <2>2 DEF Succeeds
<1>3. ASSUME NEW i \in 1..Len(toPython'), NEW c \in Nat, TellsSuccess(toPython'[i], c)
      PROVE  c \in 1..Len(calls')
  <2>1. i \in 1..Len(toPython) \/ i \in Added
    BY DEF Appends, Added
  <2>2. i \in 1..Len(toPython) => toPython'[i] = toPython[i]
    BY DEF Appends
  <2> QED BY <1>1, <1>3, <2>1, <2>2 DEF StreamInv
<1> QED BY <1>1, <1>2, <1>3, StreamInvStep

(* The messages that are no answer "Success".                               *)
LEMMA NoSuccess ==
  ASSUME NEW c, NEW id, NEW other, NEW data,
         NEW m \in {Failure(c), Answer(c, "ServerStarted", id), Answer(c, "SocketConnected", id),
                    ServerSocketConnected(other, id), ServerClosed(id), SocketReceived(id, data),
                    SocketClosed(id)}
  PROVE  \A x : ~TellsSuccess(m, x)
BY DEF Failure, Answer, ServerSocketConnected, ServerClosed, SocketReceived, SocketClosed, Event,
       TellsSuccess

LEMMA SuccessOf ==
  ASSUME NEW c, NEW x, TellsSuccess(Success(c), x)
  PROVE  x = c
BY DEF Success, Answer, TellsSuccess

(* A step that tells of no success and leaves the streams and works alone.  *)
LEMMA IdleStep ==
  ASSUME BaseInv, StreamInv, Appends, UNCHANGED <<calls, streams>>, MadeKept,
         works' \subseteq works,
         \A k \in Added : \A c \in Nat : TellsSuccess(toPython'[k], c) =>
           c \in 1..Len(calls) /\ calls[c].op # "SendData"
  PROVE  StreamInv'
<1>1. \A x \in Sockets : Moves(x)
  BY DEF Moves
<1> QED BY <1>1, NodeStep

LEMMA SameMade ==
  ASSUME BaseInv, UNCHANGED made
  PROVE  MadeKept
BY MadeBound DEF MadeKept

-----------------------------------------------------------------------------
(* The program.                                                             *)

LEMMA CallStream ==
  ASSUME BaseInv, StreamInv,
         NEW operation \in NetCoreOperations \cup ServerOperations \cup SocketOperations,
         Call(operation)
  PROVE  StreamInv'
<1>1. PICK record : /\ calls' = Append(calls, record) /\ record.answer = "none"
                    /\ record.op = operation.op
  BY DEF Call
<1>2. UNCHANGED <<toPython, made, streams, works>> /\ BaseInv'
  BY CallBase DEF Call, tables
<1>3. /\ Len(calls) \in Nat /\ Len(calls') = Len(calls) + 1 /\ calls'[Len(calls) + 1] = record
      /\ \A c \in 1..Len(calls) : calls'[c] = calls[c]
  <2>1. \E S : calls \in Seq(S) /\ calls' \in Seq(S)
    BY <1>2 DEF BaseInv, TypeOK
  <2>2. PICK S : calls \in Seq(S) /\ calls' \in Seq(S)
    BY <2>1
  <2>3. Len(calls) \in Nat /\ calls \in Seq(S \cup {record})
    BY <2>2, LenProperties
  <2> QED BY <1>1, <2>3, AppendProperties
<1>4. CallsKept /\ MadeKept /\ \A x \in Sockets : Moves(x)
  BY <1>2, <1>3, SameMade DEF CallsKept, Moves
<1>5. ASSUME NEW c \in 1..Len(calls'), Succeeds(c)'
      PROVE  c \in 1..Len(calls) /\ Succeeds(c)
  <2>1. CASE c \in 1..Len(calls)
    BY <1>2, <1>3, <1>5, <2>1 DEF Succeeds, TellsSuccess
  <2>2. CASE c \notin 1..Len(calls)
    <3>1. c = Len(calls) + 1 /\ calls'[c].answer = "none"
      BY <1>1, <1>3, <2>2
    <3>2. PICK i \in 1..Len(toPython) : TellsSuccess(toPython[i], c)
      BY <1>2, <1>5, <3>1 DEF Succeeds, TellsSuccess
    <3>3. c \in Nat /\ c \notin 1..Len(calls)
      BY <1>3, <3>1
    <3> QED BY <3>2, <3>3 DEF StreamInv
  <2> QED BY <2>1, <2>2
<1>6. \A i \in 1..Len(toPython') : \A c \in Nat :
        TellsSuccess(toPython'[i], c) => c \in 1..Len(calls')
  BY <1>2, <1>3 DEF StreamInv
<1> QED BY <1>2, <1>4, <1>5, <1>6, StreamInvStep

LEMMA CallsExcept ==
  ASSUME BaseInv, NEW c, NEW record, calls' = [calls EXCEPT ![c] = record]
  PROVE  /\ Len(calls) \in Nat /\ Len(calls') = Len(calls)
         /\ \A i \in 1..Len(calls) : calls'[i] = IF i = c THEN record ELSE calls[i]
<1>1. PICK S : calls \in Seq(S)
  BY DEF BaseInv, TypeOK
<1>2. calls \in Seq(S \cup {record}) /\ record \in S \cup {record} /\ Len(calls) \in Nat
  BY <1>1, LenProperties
<1>3. CASE c \in 1..Len(calls)
  BY <1>2, <1>3, ExceptSeq
<1>4. CASE c \notin 1..Len(calls)
  <2>1. calls' = calls
    BY <1>2, <1>4, LenProperties
  <2> QED BY <1>2, <1>4, <2>1
<1> QED BY <1>3, <1>4

(* A step of the program: it may return a call that a message answers.      *)
LEMMA ProgramStep ==
  ASSUME BaseInv, StreamInv, UNCHANGED <<streams, made, works>>,
         Len(calls') = Len(calls),
         \A c \in 1..Len(calls) : /\ calls'[c].op = calls[c].op /\ calls'[c].arg = calls[c].arg
                                  /\ calls'[c].answer = "Success" => Succeeds(c),
         \A i \in 1..Len(toPython') : \E j \in 1..Len(toPython) : toPython'[i] = toPython[j]
  PROVE  StreamInv'
<1>1. Len(calls) \in Nat
  BY LenProperties DEF BaseInv, TypeOK
<1>2. CallsKept /\ MadeKept /\ \A x \in Sockets : Moves(x)
  BY <1>1, SameMade DEF CallsKept, Moves
<1>3. ASSUME NEW c \in 1..Len(calls'), Succeeds(c)' PROVE Succeeds(c)
  <2>1. \/ calls'[c].answer = "Success"
        \/ \E i \in 1..Len(toPython') : TellsSuccess(toPython'[i], c)
    BY <1>3 DEF Succeeds, TellsSuccess
  <2>2. CASE calls'[c].answer = "Success"
    BY <2>2
  <2>3. CASE \E i \in 1..Len(toPython') : TellsSuccess(toPython'[i], c)
    BY <2>3 DEF Succeeds
  <2> QED BY <2>1, <2>2, <2>3
<1>4. \A i \in 1..Len(toPython') : \A c \in Nat :
        TellsSuccess(toPython'[i], c) => c \in 1..Len(calls')
  BY DEF StreamInv
<1>5. \A c \in works' : c \in works
  OBVIOUS
<1> QED BY <1>2, <1>3, <1>4, <1>5, StreamInvStep

LEMMA GetResponseStream ==
  ASSUME BaseInv, StreamInv, NEW c \in 1..Len(calls), GetResponse(c)
  PROVE  StreamInv'
<1>1. PICK record : /\ calls' = [calls EXCEPT ![c] = record]
                    /\ record = [calls[c] EXCEPT !.state = IF c \in responses THEN "waiting" ELSE "raised"]
  BY DEF GetResponse
<1>2. record.op = calls[c].op /\ record.arg = calls[c].arg /\ record.answer = calls[c].answer
  <2>1. calls[c] \in [op : Operations, arg : Arguments, state : CallStates,
                      answer : AnswerKinds \cup {"none"}]
    BY ElementOfSeq DEF BaseInv, TypeOK
  <2> QED BY <1>1, <2>1
<1>3. /\ Len(calls') = Len(calls)
      /\ \A i \in 1..Len(calls) : calls'[i] = IF i = c THEN record ELSE calls[i]
  BY <1>1, CallsExcept
<1>4. UNCHANGED <<toPython, streams, made, works>>
  BY DEF GetResponse, tables
<1> QED BY <1>2, <1>3, <1>4, ProgramStep DEF Succeeds

LEMMA HandleStream ==
  ASSUME BaseInv, StreamInv, Handle
  PROVE  StreamInv'
<1>1. PICK m \in Messages : m = toPython[1] /\ m = Head(toPython) /\ 1 \in 1..Len(toPython)
  <2>1. Head(toPython) \in Messages /\ Head(toPython) = toPython[1] /\ Len(toPython) \in Nat \ {0}
    BY HeadTailProperties, EmptySeq DEF Handle, BaseInv, TypeOK
  <2> QED BY <2>1
<1>2. \A i \in 1..Len(toPython') : \E j \in 1..Len(toPython) : toPython'[i] = toPython[j]
  <2>1. /\ Len(toPython) \in Nat \ {0} /\ Len(toPython') = Len(toPython) - 1
        /\ \A i \in 1..Len(toPython') : toPython'[i] = toPython[i + 1]
    BY HandleTakes DEF Takes
  <2>2. \A i \in 1..Len(toPython') : i + 1 \in 1..Len(toPython)
    BY <2>1
  <2> QED BY <2>1, <2>2
<1>3. UNCHANGED <<streams, made, works>>
  BY DEF Handle, tables
<1>4. CASE UNCHANGED calls
  BY <1>2, <1>3, <1>4, ProgramStep DEF Succeeds
<1>5. CASE /\ m.to = "call"
           /\ calls' = [calls EXCEPT ![m.call].state = "returned", ![m.call].answer = m.kind]
  <2>1. PICK record : /\ record = [calls[m.call] EXCEPT !.state = "returned", !.answer = m.kind]
                      /\ calls' = [calls EXCEPT ![m.call] = record]
    BY <1>5
  <2>2. /\ Len(calls) \in Nat /\ Len(calls') = Len(calls)
        /\ \A i \in 1..Len(calls) : calls'[i] = IF i = m.call THEN record ELSE calls[i]
    BY <2>1, CallsExcept
  <2>3. ASSUME m.call \in 1..Len(calls)
        PROVE  /\ record.op = calls[m.call].op /\ record.arg = calls[m.call].arg
               /\ record.answer = "Success" => Succeeds(m.call)
    <3>1. calls[m.call] \in [op : Operations, arg : Arguments, state : CallStates,
                             answer : AnswerKinds \cup {"none"}]
      BY <2>3, ElementOfSeq DEF BaseInv, TypeOK
    <3>2. record.op = calls[m.call].op /\ record.arg = calls[m.call].arg /\ record.answer = m.kind
      BY <2>1, <3>1
    <3> QED BY <1>1, <1>5, <3>2 DEF Succeeds, TellsSuccess
  <2>4. \A c \in 1..Len(calls) : /\ calls'[c].op = calls[c].op /\ calls'[c].arg = calls[c].arg
                                 /\ calls'[c].answer = "Success" => Succeeds(c)
    BY <2>2, <2>3 DEF Succeeds
  <2> QED BY <1>2, <1>3, <2>2, <2>4, ProgramStep
<1> QED BY <1>1, <1>4, <1>5 DEF Handle, HandleAnswer, HandleEvent

-----------------------------------------------------------------------------
(* The node.                                                                *)

(* A step that says nothing, one thing or two things, and no success but    *)
(* that of a call that sends no data.                                       *)
LEMMA IdleNone ==
  ASSUME BaseInv, StreamInv,
         UNCHANGED <<known, received, calls, streams, toPython>>, MadeKept,
         works' \subseteq works
  PROVE  StreamInv'
<1>1. Appends /\ Added = {}
  BY AppendsNone
<1> QED BY <1>1, IdleStep

LEMMA IdleOne ==
  ASSUME BaseInv, StreamInv, NEW m \in Messages, Emit(<<m>>),
         UNCHANGED <<known, received, calls, streams>>, MadeKept,
         works' \subseteq works,
         \A c \in Nat : TellsSuccess(m, c) => c \in 1..Len(calls) /\ calls[c].op # "SendData"
  PROVE  StreamInv'
<1>1. Appends /\ \A k \in Added : toPython'[k] = m
  BY AppendsOne
<1> QED BY <1>1, IdleStep

LEMMA IdleTwo ==
  ASSUME BaseInv, StreamInv, NEW m \in Messages, NEW n \in Messages, Emit(<<m, n>>),
         UNCHANGED <<known, received, calls, streams>>, MadeKept,
         works' \subseteq works,
         \A c \in Nat : ~TellsSuccess(m, c),
         \A c \in Nat : TellsSuccess(n, c) => c \in 1..Len(calls) /\ calls[c].op # "SendData"
  PROVE  StreamInv'
<1>1. Appends /\ \A k \in Added : toPython'[k] = m \/ toPython'[k] = n
  BY AppendsTwo
<1> QED BY <1>1, IdleStep

LEMMA StartServerStream ==
  ASSUME NEW m, Serves(m), StreamInv, StartServer(m.call, m.arg[1], m.arg[2])
  PROVE  StreamInv'
<1>1. /\ BaseInv /\ m.call \in Nat /\ UNCHANGED <<known, received, calls, streams, made, works>>
  BY Served DEF Serves, StartServer, program
<1>2. MadeKept /\ works' \subseteq works
  BY <1>1, SameMade
<1>3. PICK a \in {Failure(m.call), Answer(m.call, "ServerStarted", m.call)} : Emit(<<a>>)
  BY DEF StartServer
<1>4. a \in Messages /\ \A x : ~TellsSuccess(a, x)
  BY <1>1, <1>3, MessageType, NoSuccess
<1> QED BY <1>1, <1>2, <1>3, <1>4, IdleOne

LEMMA CloseServerStream ==
  ASSUME NEW m, Serves(m), m.op = "CloseServer", StreamInv, CloseServer(m.call, m.arg)
  PROVE  StreamInv'
<1>1. /\ BaseInv /\ m.call \in Nat /\ UNCHANGED <<known, received, calls, streams, made, works>>
      /\ m.arg \in Nat /\ m.call \in 1..Len(calls) /\ calls[m.call].op = "CloseServer"
  BY Served DEF Serves, CloseServer, program, ArgumentOK
<1>2. MadeKept /\ works' \subseteq works
  BY <1>1, SameMade
<1>3. /\ Failure(m.call) \in Messages /\ ServerClosed(m.arg) \in Messages
      /\ Success(m.call) \in Messages
      /\ \A x : ~TellsSuccess(Failure(m.call), x) /\ ~TellsSuccess(ServerClosed(m.arg), x)
      /\ \A c \in Nat : TellsSuccess(Success(m.call), c) =>
                          c \in 1..Len(calls) /\ calls[c].op # "SendData"
  BY <1>1, MessageType, NoSuccess, SuccessOf
<1>4. CASE Emit(<<Failure(m.call)>>)
  BY <1>1, <1>2, <1>3, <1>4, IdleOne
<1>5. CASE Emit(<<ServerClosed(m.arg), Success(m.call)>>)
  BY <1>1, <1>2, <1>3, <1>5, IdleTwo
<1> QED BY <1>4, <1>5 DEF CloseServer

LEMMA MakeSocketKept ==
  ASSUME BaseInv, NEW protocol, NEW port, NEW peer, MakeSocket(protocol, port, peer)
  PROVE  MadeKept
<1>1. PICK S : made \in Seq(S)
  BY DEF BaseInv, TypeOK
<1>2. PICK record : made' = Append(made, record)
  BY DEF MakeSocket
<1>3. made \in Seq(S \cup {record}) /\ Len(made) \in Nat
  BY <1>1, LenProperties
<1> QED BY <1>2, <1>3, AppendProperties DEF MadeKept

LEMMA ConnectSocketStream ==
  ASSUME NEW m, Serves(m), StreamInv, ConnectSocket(m.call, m.arg[1], m.arg[2])
  PROVE  StreamInv'
<1>1. /\ BaseInv /\ m.call \in Nat /\ UNCHANGED <<known, received, calls, streams, works>>
      /\ Len(made) \in Nat
  BY Served DEF Serves, ConnectSocket, program
<1>2. MadeKept /\ works' \subseteq works
  BY <1>1, MakeSocketKept DEF ConnectSocket
<1>3. CASE Emit(<<Answer(m.call, "SocketConnected", Len(made) + 1)>>)
  <2>1. PICK a : a = Answer(m.call, "SocketConnected", Len(made) + 1)
    OBVIOUS
  <2>2. a \in Messages /\ \A x : ~TellsSuccess(a, x)
    BY <1>1, <2>1, MessageType, NoSuccess
  <2> QED BY <1>1, <1>2, <1>3, <2>1, <2>2, IdleOne
<1>4. CASE UNCHANGED toPython
  BY <1>1, <1>2, <1>4, IdleNone
<1> QED BY <1>3, <1>4 DEF ConnectSocket

LEMMA CloseSocketStream ==
  ASSUME NEW m, Serves(m), m.op = "CloseSocket", StreamInv, CloseSocket(m.call, m.arg)
  PROVE  StreamInv'
<1>1. /\ BaseInv /\ m.call \in Nat /\ UNCHANGED <<known, received, calls, made, works>>
      /\ m.arg \in Nat /\ m.call \in 1..Len(calls) /\ calls[m.call].op = "CloseSocket"
      /\ streams \in [Sockets -> StreamSockets]
  BY Served DEF Serves, CloseSocket, program, ArgumentOK, TypeOK
<1>2. MadeKept /\ works' \subseteq works
  BY <1>1, SameMade
<1>3. /\ Failure(m.call) \in Messages /\ SocketClosed(m.arg) \in Messages
      /\ Success(m.call) \in Messages
      /\ \A x : ~TellsSuccess(Failure(m.call), x) /\ ~TellsSuccess(SocketClosed(m.arg), x)
      /\ \A c \in Nat : TellsSuccess(Success(m.call), c) => c = m.call
  BY <1>1, MessageType, NoSuccess, SuccessOf
<1>4. CASE Emit(<<Failure(m.call)>>) /\ UNCHANGED streams
  BY <1>1, <1>2, <1>3, <1>4, IdleOne
<1>5. CASE /\ Emit(<<SocketClosed(m.arg), Success(m.call)>>)
           /\ streams' = [streams EXCEPT ![m.arg] = AbortLoop(streams[m.arg])]
  <2>1. ASSUME NEW x \in Sockets PROVE Moves(x)
    <3>1. CASE x = m.arg
      <4>1. streams'[x] = AbortLoop(streams[x]) /\ streams[x] \in StreamSockets
        BY <1>1, <1>5, <3>1
      <4>2. StreamOK(x, streams[x])
        BY DEF StreamInv
      <4> QED BY <4>1, <4>2, AbortLoopOK DEF Moves
    <3>2. CASE x # m.arg
      BY <1>1, <1>5, <3>2 DEF Moves
    <3> QED BY <3>1, <3>2
  <2>2. Appends /\ \A k \in Added : \/ toPython'[k] = SocketClosed(m.arg)
                                    \/ toPython'[k] = Success(m.call)
    BY <1>1, <1>3, <1>5, AppendsTwo
  <2>3. \A k \in Added : \A c \in Nat : TellsSuccess(toPython'[k], c) =>
          c \in 1..Len(calls) /\ calls[c].op # "SendData"
    BY <1>1, <1>3, <2>2
  <2> QED BY <1>1, <1>2, <2>1, <2>2, <2>3, NodeStep
<1> QED BY <1>4, <1>5 DEF CloseSocket, CloseInner

LEMMA SendDataStream ==
  ASSUME NEW m, Serves(m), m.op = "SendData", StreamInv, SocketInv,
         SendData(m.call, m.arg[1], m.arg[2])
  PROVE  StreamInv'
<1>1. /\ BaseInv /\ m.call \in Nat /\ UNCHANGED <<known, received, calls, made>>
      /\ m.arg \in Nat \X Sizes /\ m.call \in 1..Len(calls) /\ calls[m.call].op = "SendData"
      /\ calls[m.call].arg = m.arg
      /\ streams \in [Sockets -> StreamSockets]
  BY Served DEF Serves, SendData, program, ArgumentOK, TypeOK
<1>2. MadeKept
  BY <1>1, SameMade
<1>3. PICK socket \in Nat, size \in Nat : m.arg = <<socket, size>>
  <2>1. m.arg[1] \in Nat /\ m.arg[2] \in Nat /\ m.arg = <<m.arg[1], m.arg[2]>>
    <3>1. \A arg \in Nat \X Sizes : arg[1] \in Nat /\ arg[2] \in Sizes /\ arg = <<arg[1], arg[2]>>
      OBVIOUS
    <3> QED BY <1>1, <3>1, IpcAssumption
  <2> QED BY <2>1
<1>4. CASE Emit(<<Failure(m.call)>>) /\ UNCHANGED <<streams, works>>
  <2>1. Failure(m.call) \in Messages /\ \A x : ~TellsSuccess(Failure(m.call), x)
    BY <1>1, MessageType, NoSuccess
  <2> QED BY <1>1, <1>2, <1>4, <2>1, IdleOne
<1>5. CASE socket \in sockets /\ SendInner(m.call, socket, size) /\ UNCHANGED toPython
  <2>1. Appends /\ Added = {}
    BY <1>1, <1>5, AppendsNone
  <2>2. socket \in 1..Len(made)
    BY <1>5 DEF SocketInv, FreshInv
  <2>3. CASE /\ made[socket].protocol = "stream" /\ UNCHANGED works
             /\ streams' = [streams EXCEPT ![socket] = StreamSend(streams[socket], StreamEntry(m.call, size))]
    <3>1. PICK entry \in Entries : entry = StreamEntry(m.call, size)
      BY <1>1 DEF StreamEntry, Entries
    <3>2. SendsTo(socket, entry)
      BY <1>1, <1>3, <3>1 DEF SendsTo, StreamEntry
    <3>3. ASSUME NEW x \in Sockets PROVE Moves(x)
      <4>1. CASE x = socket
        <5>1. streams'[x] = StreamSend(streams[x], entry) /\ streams[x] \in StreamSockets
          BY <1>1, <2>3, <3>1, <4>1
        <5>2. StreamOK(x, streams[x])
          BY DEF StreamInv
        <5> QED BY <3>2, <4>1, <5>1, <5>2, StreamSendOK DEF Moves
      <4>2. CASE x # socket
        BY <1>1, <2>3, <4>2 DEF Moves
      <4> QED BY <4>1, <4>2
    <3> QED BY <1>1, <1>2, <2>1, <2>3, <3>3, NodeStep
  <2>4. CASE /\ made[socket].protocol # "stream" /\ UNCHANGED streams
             /\ works' = works \cup {m.call}
    <3>1. WorkOK(m.call)
      BY <1>1, <1>3, <2>2, <2>4 DEF WorkOK
    <3>2. \A x \in Sockets : Moves(x)
      BY <2>4 DEF Moves
    <3> QED BY <1>1, <1>2, <2>1, <2>4, <3>1, <3>2, NodeStep
  <2> QED BY <1>5, <2>3, <2>4 DEF SendInner
<1>6. m.arg[1] = socket /\ m.arg[2] = size
  BY <1>3
<1> QED BY <1>4, <1>5, <1>6 DEF SendData

LEMMA SendHelloStream ==
  ASSUME NEW m, Serves(m), StreamInv, (m.op = "SendHello" /\ SendHello(m.call)) \/ Terminate
  PROVE  StreamInv'
<1>1. /\ BaseInv /\ m.call \in 1..Len(calls) /\ calls[m.call].op = m.op
      /\ UNCHANGED <<known, received, calls, made, streams, toPython>>
      /\ works' = works \/ (m.op = "SendHello" /\ works' = works \cup {m.call})
  BY Served DEF Serves, SendHello, Terminate, program, tables
<1>2. MadeKept /\ Appends /\ Added = {} /\ \A x \in Sockets : Moves(x)
  BY <1>1, SameMade, AppendsNone DEF Moves
<1>3. m.op = "SendHello" => WorkOK(m.call)
  BY <1>1 DEF WorkOK
<1> QED BY <1>1, <1>2, <1>3, NodeStep

LEMMA HandleRequestStream ==
  ASSUME BaseInv, StreamInv, SocketInv, HandleRequest
  PROVE  StreamInv'
BY RequestCases, StartServerStream, CloseServerStream, ConnectSocketStream, SendDataStream,
   CloseSocketStream, SendHelloStream

LEMMA WorkStream ==
  ASSUME BaseInv, StreamInv, NEW c \in works, Work(c)
  PROVE  StreamInv'
<1>1. /\ UNCHANGED <<known, received, calls, made, streams>> /\ works' \subseteq works
      /\ c \in Nat /\ WorkOK(c) /\ c \in 1..Len(calls)
  BY DEF Work, program, tables, BaseInv, TypeOK, StreamInv, WorkOK
<1>2. PICK a \in {Success(c), Failure(c)} : Emit(<<a>>)
  BY DEF Work
<1>3. a \in Messages /\ \A x : TellsSuccess(a, x) => x = c
  BY <1>1, <1>2, MessageType, NoSuccess, SuccessOf
<1>4. Appends /\ \A k \in Added : toPython'[k] = a
  BY <1>1, <1>2, <1>3, AppendsOne
<1>5. MadeKept /\ \A x \in Sockets : Moves(x)
  BY <1>1, SameMade DEF Moves
<1>6. calls[c].op = "SendData" => Delivered(c)'
  BY <1>1 DEF WorkOK, Delivered
<1> QED BY <1>1, <1>3, <1>4, <1>5, <1>6, NodeStep

LEMMA OpeningStream ==
  ASSUME BaseInv, StreamInv, SocketInv, NEW o \in opening, Opened(o) \/ OpeningFailed(o)
  PROVE  StreamInv'
<1>1. /\ UNCHANGED <<known, received, calls, made, works>>
      /\ o.call \in Nat /\ o.socket \in Nat /\ o.server \in Nat
  BY DEF Opened, OpeningFailed, program, BaseInv, TypeOK
<1>2. UNCHANGED streams
  <2>1. FreshInv /\ o.socket \in Sockets
    BY MadeBound DEF SocketInv, FreshInv
  <2>2. Fresh(o.socket)
    BY <2>1 DEF Fresh
  <2>3. streams[o.socket] = NewStream /\ streams \in [Sockets -> StreamSockets]
    BY <2>1, <2>2 DEF FreshInv, BaseInv, TypeOK
  <2>4. streams' \in {streams, [streams EXCEPT ![o.socket] = NewStream]}
    BY DEF Opened, OpeningFailed, AddStream
  <2> QED BY <2>1, <2>3, <2>4
<1>3. MadeKept /\ works' \subseteq works
  BY <1>1, SameMade
<1>4. CASE UNCHANGED toPython
  BY <1>1, <1>2, <1>3, <1>4, IdleNone
<1>5. CASE \E m \in {Failure(o.call), Answer(o.call, "SocketConnected", o.socket),
                     ServerSocketConnected(o.server, o.socket)} : Emit(<<m>>)
  <2>1. PICK m \in {Failure(o.call), Answer(o.call, "SocketConnected", o.socket),
                    ServerSocketConnected(o.server, o.socket)} : Emit(<<m>>)
    BY <1>5
  <2>2. m \in Messages /\ \A x : ~TellsSuccess(m, x)
    BY <1>1, <2>1, MessageType, NoSuccess
  <2> QED BY <1>1, <1>2, <1>3, <2>1, <2>2, IdleOne
<1> QED BY <1>4, <1>5 DEF Opened, OpeningFailed

LEMMA ReceivedFrameStream ==
  ASSUME BaseInv, StreamInv, NEW peer \in Peers, NEW port \in Ports,
         HandleReceivedFrame(peer, port)
  PROVE  StreamInv'
<1>1. /\ UNCHANGED <<known, received, calls, works, streams>> /\ frames' \in Nat
      /\ Len(made) \in Nat /\ Len(made) + 1 \in Nat /\ works' \subseteq works
  BY MadeBound DEF HandleReceivedFrame, program, BaseInv, TypeOK
<1>2. ASSUME NEW socket \in SocketsOf(ports, port, peer), ReceiveAt(socket, frames')
      PROVE  StreamInv'
  <2>1. MadeKept
    BY <1>2, SameMade DEF ReceiveAt
  <2>2. CASE UNCHANGED toPython
    BY <1>1, <2>1, <2>2, IdleNone
  <2>3. CASE Emit(<<SocketReceived(socket, frames')>>)
    <3>1. socket \in Nat
      <4>1. \A s \in PortOf(ports, port).senders : s.socket \in 1..Len(made)
        BY MadeBound, PortOfType DEF BaseInv, PortsInv
      <4> QED BY <4>1 DEF SocketsOf
    <3>2. PICK m : m = SocketReceived(socket, frames')
      OBVIOUS
    <3>3. m \in Messages /\ \A x : ~TellsSuccess(m, x)
      BY <1>1, <3>1, <3>2, MessageType, NoSuccess
    <3> QED BY <1>1, <2>1, <2>3, <3>2, <3>3, IdleOne
  <2> QED BY <1>2, <2>2, <2>3 DEF ReceiveAt
<1>3. ASSUME NEW s \in servers, Accept(s.server, port, peer, s.protocol, frames')
      PROVE  StreamInv'
  <2>1. MadeKept
    BY <1>3, MakeSocketKept DEF Accept
  <2>2. CASE UNCHANGED toPython
    BY <1>1, <2>1, <2>2, IdleNone
  <2>3. CASE Emit(<<ServerSocketConnected(s.server, Len(made) + 1),
                    SocketReceived(Len(made) + 1, frames')>>)
    <3>1. PICK a, m : a = ServerSocketConnected(s.server, Len(made) + 1)
                      /\ m = SocketReceived(Len(made) + 1, frames')
      OBVIOUS
    <3>2. s.server \in Nat
      BY DEF BaseInv, TypeOK
    <3>3. a \in Messages /\ m \in Messages
          /\ \A x : ~TellsSuccess(a, x) /\ ~TellsSuccess(m, x)
      BY <1>1, <3>1, <3>2, MessageType, NoSuccess
    <3> QED BY <1>1, <2>1, <2>3, <3>1, <3>3, IdleTwo
  <2> QED BY <1>3, <2>2, <2>3 DEF Accept
<1> QED BY <1>2, <1>3 DEF HandleReceivedFrame

-----------------------------------------------------------------------------
(* The loops of the streams.                                                *)

(* The stream of a socket that is not made has nothing to do.               *)
LEMMA StreamMade ==
  ASSUME BaseInv, SocketInv, NEW socket \in Sockets, streams[socket].current # NoEntry
  PROVE  socket \in 1..Len(made)
<1>1. ~Fresh(socket)
  BY DEF SocketInv, FreshInv, NewStream
<1>2. socket \in Nat \ {0} /\ Len(made) \in Nat
  BY MadeBound, IpcAssumption DEF Sockets
<1> QED BY <1>1, <1>2 DEF Fresh

LEMMA LoopStream ==
  ASSUME BaseInv, StreamInv, SocketInv, NEW socket \in Sockets,
         \/ StreamTakes(socket) \/ StreamFrameOk(socket)
         \/ StreamEntryDone(socket) \/ StreamFrameFails(socket)
  PROVE  StreamInv'
<1> DEFINE s == streams[socket]
<1>1. /\ s \in StreamSockets /\ StreamOK(socket, s) /\ streams \in [Sockets -> StreamSockets]
      /\ s.sent \in Seq(StreamFrames) /\ s.current.call \in Nat
  <2>1. /\ s \in StreamSockets /\ StreamOK(socket, s) /\ streams \in [Sockets -> StreamSockets]
    BY DEF BaseInv, TypeOK, StreamInv
  <2> QED BY <2>1, StreamParts
<1>2. UNCHANGED <<known, received, calls, made, works>>
  BY DEF StreamTakes, StreamFrameOk, StreamEntryDone, StreamFrameFails, SetStream, program
<1>3. MadeKept
  BY <1>2, SameMade
<1>4. ASSUME NEW t, StreamOK(socket, t), t.sent \in {s.sent, Append(s.sent, StreamFrame(s))},
             t.sent # s.sent => s.left > 0 /\ s.looping, SetStream(socket, t)
      PROVE  (\A x \in Sockets : Moves(x)) /\ streams'[socket] = t
  <2>1. streams'[socket] = t /\ \A x \in Sockets : x # socket => streams'[x] = streams[x]
    BY <1>1, <1>4 DEF SetStream
  <2>2. \A message \in Accumulated(s.sent) : message \in Accumulated(t.sent)
    <3>1. CASE t.sent = s.sent
      BY <3>1
    <3>2. CASE t.sent # s.sent
      <4>1. s.left > 0 /\ s.looping /\ t.sent = Append(s.sent, StreamFrame(s))
        BY <1>4, <3>2
      <4> HIDE DEF s
      <4> QED BY <1>1, <4>1, FrameArrives
    <3> QED BY <3>1, <3>2
  <2> QED BY <1>4, <2>1, <2>2 DEF Moves
<1>5. CASE StreamTakes(socket)
  <2>1. UNCHANGED toPython /\ \A x \in Sockets : Moves(x)
    BY <1>1, <1>4, <1>5, TakeEntryOK DEF StreamTakes
  <2>2. Appends /\ Added = {}
    BY <1>2, <2>1, AppendsNone
  <2> QED BY <1>2, <1>3, <2>1, <2>2, NodeStep
<1>6. CASE StreamFrameOk(socket)
  <2>1. UNCHANGED toPython /\ \A x \in Sockets : Moves(x)
    BY <1>1, <1>4, <1>6, FrameOkOK DEF StreamFrameOk
  <2>2. Appends /\ Added = {}
    BY <1>2, <2>1, AppendsNone
  <2> QED BY <1>2, <1>3, <2>1, <2>2, NodeStep
<1>7. CASE StreamFrameFails(socket)
  <2>1. s.left > 0 /\ s.looping
    BY <1>7 DEF StreamFrameFails
  <2>2. PICK arrived \in BOOLEAN : SetStream(socket, EntryFailed(s, arrived))
    BY <1>7 DEF StreamFrameFails
  <2>3. \A x \in Sockets : Moves(x)
    BY <1>1, <1>4, <2>1, <2>2, EntryFailedOK
  <2>4. PICK m : m = Failure(s.current.call)
    OBVIOUS
  <2>5. m \in Messages /\ Emit(<<m>>) /\ \A x : ~TellsSuccess(m, x)
    BY <1>1, <1>7, <2>4, MessageType, NoSuccess DEF StreamFrameFails
  <2>6. Appends /\ \A k \in Added : toPython'[k] = m
    BY <1>2, <2>5, AppendsOne
  <2> QED BY <1>2, <1>3, <2>3, <2>5, <2>6, NodeStep
<1>8. CASE StreamEntryDone(socket)
  <2>1. IsSent(s) /\ SetStream(socket, EntryDone(s)) /\ Emit(<<Success(s.current.call)>>)
    BY <1>8 DEF StreamEntryDone
  <2>2. EntryDone(s).sent = s.sent /\ StreamOK(socket, EntryDone(s))
    BY <1>1, <2>1, EntryDoneOK
  <2>3. (\A x \in Sockets : Moves(x)) /\ streams'[socket] = EntryDone(s)
    BY <1>4, <2>1, <2>2
  <2>4. PICK c \in Nat : c = s.current.call
    BY <1>1
  <2>5. /\ s.left = 0 /\ s.current # NoEntry /\ SendsTo(socket, s.current)
        /\ s.current.size > 0 => Whole(c, s.current.size) \in Accumulated(s.sent)
    BY <1>1, <2>1, <2>4 DEF IsSent, StreamOK, CurrentOK
  <2>6. c \in 1..Len(calls) /\ calls[c].arg[1] = socket /\ calls[c].arg[2] = s.current.size
    BY <2>4, <2>5 DEF SendsTo
  <2>7. Delivered(c)'
    <3>1. socket \in 1..Len(made)
      BY <2>5, StreamMade
    <3> QED BY <1>2, <2>2, <2>3, <2>5, <2>6, <3>1 DEF Delivered
  <2>8. PICK m : m = Success(c)
    OBVIOUS
  <2>9. m \in Messages /\ Emit(<<m>>) /\ \A x : TellsSuccess(m, x) => x = c
    BY <2>1, <2>4, <2>8, MessageType, SuccessOf
  <2>10. Appends /\ \A k \in Added : toPython'[k] = m
    BY <1>2, <2>9, AppendsOne
  <2> QED BY <1>2, <1>3, <2>3, <2>6, <2>7, <2>9, <2>10, NodeStep
<1> QED BY <1>5, <1>6, <1>7, <1>8

-----------------------------------------------------------------------------
LEMMA StreamInit ==
  ASSUME Init
  PROVE  StreamInv
<1>1. calls = <<>> /\ works = {} /\ toPython = <<>> /\ \A x \in Sockets : streams[x] = NewStream
  BY DEF Init
<1> QED BY <1>1, NewStreamOK DEF StreamInv

LEMMA StreamNext ==
  ASSUME BaseInv, SocketInv, StreamInv, [Next]_vars
  PROVE  StreamInv'
<1>1. CASE UNCHANGED vars
  <2>1. UNCHANGED <<known, received, calls, streams, made, works, toPython>>
    BY <1>1 DEF vars, program, tables
  <2> QED BY <2>1, SameMade, IdleNone
<1>2. CASE Next
  BY <1>2, CallStream, ReceivedFrameStream, GetResponseStream, HandleStream, HandleRequestStream,
     WorkStream, OpeningStream, LoopStream DEF Next, Answering
<1> QED BY <1>1, <1>2

LEMMA WholeFollows ==
  ASSUME BaseInv, StreamInv
  PROVE  MessagesWhole
<1> SUFFICES ASSUME NEW socket \in Sockets
             PROVE  /\ \A message \in Accumulated(streams[socket].sent) : \E c \in 1..Len(calls) :
                         calls[c].op = "SendData" /\ message = [k \in 1..calls[c].arg[2] |-> c]
                    /\ \A c \in 1..Len(calls) :
                         (/\ calls[c].op = "SendData" /\ calls[c].answer = "Success"
                          /\ calls[c].arg[1] = socket /\ made[socket].protocol = "stream"
                          /\ calls[c].arg[2] > 0) =>
                           [k \in 1..calls[c].arg[2] |-> c] \in Accumulated(streams[socket].sent)
  BY DEF MessagesWhole
<1>1. \A message \in Accumulated(streams[socket].sent) : \E c \in 1..Len(calls) :
        calls[c].op = "SendData" /\ message = [k \in 1..calls[c].arg[2] |-> c]
  BY DEF StreamInv, StreamOK, SentOK, Whole
<1>2. ASSUME NEW c \in 1..Len(calls), calls[c].op = "SendData", calls[c].answer = "Success",
             calls[c].arg[1] = socket, made[socket].protocol = "stream", calls[c].arg[2] > 0
      PROVE  [k \in 1..calls[c].arg[2] |-> c] \in Accumulated(streams[socket].sent)
  <2>1. Delivered(c)
    BY <1>2 DEF StreamInv, Succeeds
  <2> QED BY <1>2, <2>1 DEF Delivered, Whole
<1> QED BY <1>1, <1>2

(* The accumulator at the other end of a StreamSocket yields only messages  *)
(* of the program, each whole, and a sendData that has succeeded stands for *)
(* one of them, unless it was empty: the loop takes one message at a time   *)
(* and is left at the first frame that fails.                               *)
THEOREM MessagesStayWhole == Spec => []MessagesWhole
<1>1. Init => StreamInv
  BY StreamInit
<1>2. BaseInv /\ SocketInv /\ StreamInv /\ [Next]_vars => StreamInv'
  BY StreamNext
<1>3. BaseInv /\ StreamInv => MessagesWhole
  BY WholeFollows
<1> QED BY <1>1, <1>2, <1>3, SocketsInvariant, PTL DEF Spec
=============================================================================
