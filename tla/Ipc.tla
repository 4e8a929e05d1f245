-------------------------------- MODULE Ipc --------------------------------
(***************************************************************************)
(* A Python program (py_core.ipc) that uses the network through a node     *)
(* process (py-core/node): its calls travel to the node as requests over a *)
(* WebSocket, answers and events travel back, and the node keeps the       *)
(* servers and sockets, over the ports of TunnelService.                   *)
(*                                                                         *)
(* A tunnel socket is open at once; a trusted or stream socket after a     *)
(* handshake, which may fail, and it never closes the tunnel socket it is  *)
(* made of.  The messages to either side stay in order.                    *)
(***************************************************************************)
EXTENDS Tunnel, Stream, Integers, SequencesExt

CONSTANTS
  ServerPorts, DynamicPorts,  \* local ports
  Peers,      \* remote nodes, each with a port
  Protocols,  \* subset of {"tunnel", "trusted", "stream"}
  Sizes,      \* frames that a message of the program takes in a stream
  MaxCalls,   \* bound: calls of the program
  MaxPending, \* bound: calls that wait at once
  MaxFrames   \* bound: frames that peers send

ASSUME IpcAssumption ==
  /\ Protocols \subseteq {"tunnel", "trusted", "stream"}
  /\ Sizes \subseteq Nat
  /\ MaxCalls \in Nat /\ MaxPending \in Nat /\ MaxFrames \in Nat
  /\ Cardinality(DynamicPorts) >= MaxCalls

VARIABLES
  \* the program, and IpcServer in it
  calls,      \* sequence: request, state and answer of each call
  responses,  \* calls with a OneShot in _response
  known,      \* [_server and _socket: descriptors that have a queue]
  objects,    \* [Server and Socket objects that the program has got]
  received,   \* [socket -> what its object can receive]
  \* the messages between the two
  toNode, toPython,
  \* the node process
  exited,
  servers,    \* #servers
  sockets,    \* #sockets
  ports,      \* #ports of the tunnel service
  made,       \* tunnel sockets made so far: [protocol, port, peer]
  opening,    \* handshakes that go on: [socket, call or server]
  works,      \* calls whose frame is being sent
  streams,    \* [socket -> its StreamSocket]
  frames,     \* bounded by MaxFrames
  \* history
  emitted,    \* [socket -> what was emitted while it was in #sockets]
  orphans     \* sockets that were accepted after the close of their server

program == <<calls, responses, known, objects, received>>
tables == <<servers, sockets, ports, made, opening, streams>>
history == <<emitted, orphans>>
vars == <<program, toNode, toPython, exited, tables, works, frames, history>>

-----------------------------------------------------------------------------
Sockets == 1..(MaxCalls + MaxFrames)

Ports == ServerPorts \cup DynamicPorts

Request(c, op, arg) == [call |-> c, op |-> op, arg |-> arg]

Answer(c, kind, id) == [to |-> "call", call |-> c, kind |-> kind, id |-> id]
Success(c) == Answer(c, "Success", 0)
Failure(c) == Answer(c, "Failure", 0)

Event(kind, server, socket, data) ==
  [to |-> "event", kind |-> kind, server |-> server, socket |-> socket, data |-> data]
ServerSocketConnected(server, socket) == Event("ServerSocketConnected", server, socket, 0)
ServerClosed(server) == Event("ServerClosed", server, 0, 0)
SocketReceived(socket, data) == Event("SocketReceived", 0, socket, data)
SocketClosed(socket) == Event("SocketClosed", 0, socket, 0)

Emit(messages) == toPython' = toPython \o messages

-----------------------------------------------------------------------------
(* The program: a call registers its descriptor, sends its request, and     *)
(* then asks for the response.                                              *)
NetCoreOperations ==
  [op : {"StartServer"}, arg : ServerPorts \X Protocols]
  \cup [op : {"ConnectSocket"}, arg : Peers \X Protocols]
  \cup [op : {"SendHello", "Terminate"}, arg : {0}]
ServerOperations == [op : {"CloseServer"}, arg : objects.servers]
SocketOperations ==
  [op : {"SendData"}, arg : objects.sockets \X Sizes] \cup [op : {"CloseSocket"}, arg : objects.sockets]

Terminating == \E i \in 1..Len(calls) : calls[i].op = "Terminate"

Pending == {c \in 1..Len(calls) : calls[c].state \in {"sent", "waiting"}}

Call(operation) ==
  LET c == Len(calls) + 1
  IN  /\ c <= MaxCalls /\ Cardinality(Pending) < MaxPending /\ ~Terminating
      /\ calls' = Append(calls, [op |-> operation.op, arg |-> operation.arg,
                                 state |-> "sent", answer |-> "none"])
      /\ responses' = IF operation.op = "Terminate" THEN responses ELSE responses \cup {c}
      /\ toNode' = Append(toNode, Request(c, operation.op, operation.arg))
      /\ UNCHANGED <<known, objects, received, toPython, exited, tables, works, frames, history>>

(* get_response, which raises where the response has been handled before.   *)
GetResponse(c) ==
  /\ calls[c].state = "sent" /\ calls[c].op # "Terminate"
  /\ calls' = [calls EXCEPT ![c].state = IF c \in responses THEN "waiting" ELSE "raised"]
  /\ UNCHANGED <<responses, known, objects, received, toNode, toPython, exited, tables, works,
                 frames, history>>

(* _handler: a response sets the OneShot of its call and makes the queue of *)
(* the server or socket it names.                                           *)
HandleAnswer(m) ==
  LET waiting == m.call \in responses /\ calls[m.call].state = "waiting"
  IN  /\ m.to = "call"
      /\ responses' = responses \ {m.call}
      /\ calls' = IF waiting
                  THEN [calls EXCEPT ![m.call].state = "returned", ![m.call].answer = m.kind]
                  ELSE calls
      /\ known' = [servers |-> known.servers \cup (IF m.kind = "ServerStarted" THEN {m.id} ELSE {}),
                   sockets |-> known.sockets \cup (IF m.kind = "SocketConnected" THEN {m.id} ELSE {})]
      /\ objects' = IF ~waiting THEN objects ELSE
                    [servers |-> objects.servers \cup (known'.servers \ known.servers),
                     sockets |-> objects.sockets \cup (known'.sockets \ known.sockets)]
      /\ UNCHANGED received

(* An event goes to the queue of its server or socket, where its object     *)
(* takes it from at once, and is dropped where there is no queue.           *)
HandleServerSocketConnected(m) ==
  /\ m.kind = "ServerSocketConnected"
  /\ known' = IF m.server \in known.servers
              THEN [known EXCEPT !.sockets = @ \cup {m.socket}] ELSE known
  /\ objects' = IF m.server \in known.servers \cap objects.servers
                THEN [objects EXCEPT !.sockets = @ \cup {m.socket}] ELSE objects
  /\ UNCHANGED received

HandleServerClosed(m) ==
  /\ m.kind = "ServerClosed"
  /\ known' = [known EXCEPT !.servers = @ \ {m.server}]
  /\ UNCHANGED <<objects, received>>

HandleSocketReceived(m) ==
  /\ m.kind = "SocketReceived"
  /\ received' = IF m.socket \in known.sockets
                 THEN [received EXCEPT ![m.socket] = Append(@, m.data)] ELSE received
  /\ UNCHANGED <<known, objects>>

HandleSocketClosed(m) ==
  /\ m.kind = "SocketClosed"
  /\ known' = [known EXCEPT !.sockets = @ \ {m.socket}]
  /\ UNCHANGED <<objects, received>>

HandleEvent(m) ==
  /\ m.to = "event"
  /\ \/ HandleServerSocketConnected(m) \/ HandleServerClosed(m)
     \/ HandleSocketReceived(m) \/ HandleSocketClosed(m)
  /\ UNCHANGED <<calls, responses>>

Handle ==
  /\ toPython # <<>>
  /\ toPython' = Tail(toPython)
  /\ HandleAnswer(Head(toPython)) \/ HandleEvent(Head(toPython))
  /\ UNCHANGED <<toNode, exited, tables, works, frames, history>>

-----------------------------------------------------------------------------
(* The node.  A server or socket is put in its table and then told of.      *)
StartServer(c, port, protocol) ==
  /\ IF CanListen(ports, port)
     THEN /\ ports' = Listen(ports, port, c)
          /\ servers' = servers \cup {[server |-> c, protocol |-> protocol]}
          /\ Emit(<<Answer(c, "ServerStarted", c)>>)
     ELSE /\ Emit(<<Failure(c)>>)
          /\ UNCHANGED <<ports, servers>>
  /\ UNCHANGED <<sockets, made, opening, streams, works, exited, history>>

CloseServer(c, server) ==
  LET found == {s \in servers : s.server = server}
  IN  /\ servers' = servers \ found
      /\ ports' = IF found = {} THEN ports ELSE CancelListener(ports, server)
      /\ Emit(IF found = {} THEN <<Failure(c)>> ELSE <<ServerClosed(server), Success(c)>>)
      /\ UNCHANGED <<sockets, made, opening, streams, works, exited, history>>

(* A tunnel socket is made, and its frame sender put in the table.          *)
MakeSocket(protocol, port, peer) ==
  /\ made' = Append(made, [protocol |-> protocol, port |-> port, peer |-> peer])
  /\ ports' = AddSender(ports, port, peer, Len(made) + 1)

AddStream(socket, protocol) ==
  streams' = IF protocol = "stream" THEN [streams EXCEPT ![socket] = NewStream] ELSE streams

ConnectSocket(c, peer, protocol) ==
  LET socket == Len(made) + 1
      port == CHOOSE p \in DynamicPorts : CanOpen(ports, p)
  IN  /\ MakeSocket(protocol, port, peer)
      /\ IF protocol = "tunnel"
         THEN /\ sockets' = sockets \cup {socket}
              /\ Emit(<<Answer(c, "SocketConnected", socket)>>)
              /\ UNCHANGED opening
         ELSE /\ opening' = opening \cup {[socket |-> socket, call |-> c, server |-> NoListener]}
              /\ UNCHANGED <<sockets, toPython>>
      /\ UNCHANGED <<servers, streams, works, exited, history>>

(* Socket.close: a tunnel socket closes at once, a stream when its loop has *)
(* ended; neither is waited for.                                            *)
CloseInner(socket) ==
  /\ ports' = IF made[socket].protocol = "tunnel" THEN OnSocketClose(ports, socket) ELSE ports
  /\ streams' = [streams EXCEPT ![socket] = AbortLoop(@)]

\* Mutant of CloseSocket: the program is not told.
CloseSocketSilently(c, socket) ==
  /\ IF socket \in sockets
     THEN /\ CloseInner(socket)
          /\ sockets' = sockets \ {socket}
          /\ Emit(<<Success(c)>>)
     ELSE Emit(<<Failure(c)>>) /\ UNCHANGED <<sockets, ports, streams>>
  /\ UNCHANGED <<servers, made, opening, works, exited, history>>

CloseSocket(c, socket) ==
  /\ IF socket \in sockets
     THEN /\ CloseInner(socket)
          /\ sockets' = sockets \ {socket}
          /\ Emit(<<SocketClosed(socket), Success(c)>>)
     ELSE Emit(<<Failure(c)>>) /\ UNCHANGED <<sockets, ports, streams>>
  /\ UNCHANGED <<servers, made, opening, works, exited, history>>

(* Socket.send: a stream takes the message in its channel.                  *)
SendInner(c, socket, size) ==
  IF made[socket].protocol = "stream"
  THEN /\ streams' = [streams EXCEPT ![socket] = StreamSend(@, StreamEntry(c, size))]
       /\ UNCHANGED works
  ELSE works' = works \cup {c} /\ UNCHANGED streams

SendData(c, socket, size) ==
  /\ IF socket \in sockets
     THEN SendInner(c, socket, size) /\ UNCHANGED toPython
     ELSE Emit(<<Failure(c)>>) /\ UNCHANGED <<streams, works>>
  /\ UNCHANGED <<servers, sockets, ports, made, opening, exited, history>>

SendHello(c) == works' = works \cup {c} /\ UNCHANGED <<toPython, exited, tables, history>>

(* The process exits; what it had to say is lost.                           *)
Terminate == exited' = TRUE /\ UNCHANGED <<toPython, tables, works, history>>

HandleRequest ==
  /\ toNode # <<>> /\ ~exited
  /\ toNode' = Tail(toNode)
  /\ LET m == Head(toNode)
     IN  CASE m.op = "StartServer" -> StartServer(m.call, m.arg[1], m.arg[2])
           [] m.op = "CloseServer" -> CloseServer(m.call, m.arg)
           [] m.op = "ConnectSocket" -> ConnectSocket(m.call, m.arg[1], m.arg[2])
           [] m.op = "SendData" -> SendData(m.call, m.arg[1], m.arg[2])
           [] m.op = "CloseSocket" -> CloseSocket(m.call, m.arg)
           [] m.op = "SendHello" -> SendHello(m.call)
           [] m.op = "Terminate" -> Terminate
  /\ UNCHANGED <<program, frames>>

\* Mutant of Work: only a send that succeeds is answered.
WorkIfOk(c) ==
  /\ c \in works /\ ~exited
  /\ works' = works \ {c}
  /\ \E answers \in {<<Success(c)>>, <<>>} : Emit(answers)
  /\ UNCHANGED <<program, toNode, exited, tables, frames, history>>

(* The send of a frame comes to its end.                                    *)
Work(c) ==
  /\ c \in works /\ ~exited
  /\ works' = works \ {c}
  /\ \E answer \in {Success(c), Failure(c)} : Emit(<<answer>>)
  /\ UNCHANGED <<program, toNode, exited, tables, frames, history>>

-----------------------------------------------------------------------------
(* A handshake comes to its end: connect() answers, an accepted socket is   *)
(* given to the server's callback, also if the server has closed since.  A  *)
(* handshake that fails leaves its tunnel socket behind.                    *)
Opened(o) ==
  /\ ~exited /\ opening' = opening \ {o}
  /\ sockets' = sockets \cup {o.socket}
  /\ AddStream(o.socket, made[o.socket].protocol)
  /\ IF o.server = NoListener
     THEN Emit(<<Answer(o.call, "SocketConnected", o.socket)>>) /\ UNCHANGED orphans
     ELSE /\ Emit(<<ServerSocketConnected(o.server, o.socket)>>)
          /\ orphans' = IF \E s \in servers : s.server = o.server
                        THEN orphans ELSE orphans \cup {o.socket}
  /\ UNCHANGED <<program, toNode, exited, servers, ports, made, works, frames, emitted>>

OpeningFailed(o) ==
  /\ ~exited /\ opening' = opening \ {o}
  /\ IF o.server = NoListener THEN Emit(<<Failure(o.call)>>) ELSE UNCHANGED toPython
  /\ UNCHANGED <<program, toNode, exited, servers, sockets, ports, made, streams, works, frames,
                 history>>

\* Mutant of Accept: the frame that opens the socket is handed over before it is announced.
AcceptAfterFrame(server, port, peer, protocol, data) ==
  LET socket == Len(made) + 1
  IN  /\ MakeSocket(protocol, port, peer)
      /\ IF protocol = "tunnel"
         THEN /\ sockets' = sockets \cup {socket}
              /\ Emit(<<SocketReceived(socket, data), ServerSocketConnected(server, socket)>>)
              /\ emitted' = [emitted EXCEPT ![socket] = <<data>>]
              /\ UNCHANGED opening
         ELSE /\ opening' = opening \cup {[socket |-> socket, call |-> 0, server |-> server]}
              /\ UNCHANGED <<sockets, toPython, emitted>>

(* The callback of listen(): a tunnel socket is announced, and then takes   *)
(* the frame it was made for; others take it for the first of a handshake.  *)
Accept(server, port, peer, protocol, data) ==
  LET socket == Len(made) + 1
  IN  /\ MakeSocket(protocol, port, peer)
      /\ IF protocol = "tunnel"
         THEN /\ sockets' = sockets \cup {socket}
              /\ Emit(<<ServerSocketConnected(server, socket), SocketReceived(socket, data)>>)
              /\ emitted' = [emitted EXCEPT ![socket] = <<data>>]
              /\ UNCHANGED opening
         ELSE /\ opening' = opening \cup {[socket |-> socket, call |-> 0, server |-> server]}
              /\ UNCHANGED <<sockets, toPython, emitted>>

(* A socket's onReceive stays set when it has been closed: a trusted socket *)
(* that is closing, or that a new Syn revives, still receives.              *)
ReceiveAt(socket, data) ==
  /\ IF \E o \in opening : o.socket = socket
     THEN UNCHANGED <<toPython, emitted>>
     ELSE /\ Emit(<<SocketReceived(socket, data)>>)
          /\ emitted' = IF socket \in sockets
                        THEN [emitted EXCEPT ![socket] = Append(@, data)] ELSE emitted
  /\ UNCHANGED <<sockets, ports, made, opening>>

(* A frame of a peer: it goes to the socket that is open to the peer, else  *)
(* to the listener, else nowhere.                                           *)
HandleReceivedFrame(peer, port) ==
  LET existing == SocketsOf(ports, port, peer)
  IN  /\ ~exited /\ frames < MaxFrames /\ frames' = frames + 1
      /\ \/ \E socket \in existing : ReceiveAt(socket, frames')
         \/ /\ existing = {}
            /\ \E s \in servers : /\ s.server = PortOf(ports, port).listener
                                  /\ Accept(s.server, port, peer, s.protocol, frames')
      /\ UNCHANGED <<program, toNode, exited, servers, streams, works, orphans>>

-----------------------------------------------------------------------------
(* The loops of the stream sockets.                                         *)
SetStream(socket, s) ==
  /\ ~exited
  /\ streams' = [streams EXCEPT ![socket] = s]
  /\ UNCHANGED <<program, toNode, exited, servers, sockets, ports, made, opening, works, frames,
                 history>>

StreamTakes(socket) ==
  CanTake(streams[socket]) /\ SetStream(socket, TakeEntry(streams[socket])) /\ UNCHANGED toPython

StreamFrameOk(socket) ==
  LET s == streams[socket]
  IN  s.left > 0 /\ s.looping /\ SetStream(socket, FrameOk(s)) /\ UNCHANGED toPython

StreamEntryDone(socket) ==
  LET s == streams[socket]
  IN  IsSent(s) /\ SetStream(socket, EntryDone(s)) /\ Emit(<<Success(s.current.call)>>)

StreamFrameFails(socket) ==
  LET s == streams[socket]
  IN  /\ s.left > 0 /\ s.looping
      /\ \E arrived \in BOOLEAN : SetStream(socket, EntryFailed(s, arrived))
      /\ Emit(<<Failure(s.current.call)>>)

-----------------------------------------------------------------------------
Init ==
  /\ calls = <<>> /\ responses = {}
  /\ known = [servers |-> {}, sockets |-> {}]
  /\ objects = [servers |-> {}, sockets |-> {}]
  /\ received = [d \in Sockets |-> <<>>]
  /\ toNode = <<>> /\ toPython = <<>>
  /\ exited = FALSE
  /\ servers = {} /\ sockets = {} /\ ports = <<>> /\ made = <<>> /\ opening = {}
  /\ works = {}
  /\ streams = [d \in Sockets |-> NewStream]
  /\ frames = 0
  /\ emitted = [d \in Sockets |-> <<>>]
  /\ orphans = {}

Answering ==
  \/ \E c \in 1..Len(calls) : GetResponse(c)
  \/ Handle
  \/ HandleRequest
  \/ \E c \in works : Work(c)
  \/ \E o \in opening : Opened(o) \/ OpeningFailed(o)
  \/ \E socket \in Sockets :
       \/ StreamTakes(socket) \/ StreamFrameOk(socket)
       \/ StreamEntryDone(socket) \/ StreamFrameFails(socket)

Next ==
  \/ \E operation \in NetCoreOperations \cup ServerOperations \cup SocketOperations : Call(operation)
  \/ \E peer \in Peers, port \in Ports : HandleReceivedFrame(peer, port)
  \/ Answering

(* Either process goes on with what it has to do, and a handshake or a send *)
(* comes to an end: its timeouts see to that.                               *)
Spec == Init /\ [][Next]_vars /\ WF_vars(Answering)

-----------------------------------------------------------------------------
(* Properties.                                                              *)

Announces(m, socket) ==
  \/ m.to = "call" /\ m.kind = "SocketConnected" /\ m.id = socket
  \/ m.to = "event" /\ m.kind = "ServerSocketConnected" /\ m.socket = socket

TellsClose(m, socket) == m.to = "event" /\ m.kind = "SocketClosed" /\ m.socket = socket

HandsData(m, socket) == m.to = "event" /\ m.kind = "SocketReceived" /\ m.socket = socket

(* Program and node have the same sockets, up to the messages on their way. *)
(* The node alone keeps a socket whose handshake outlasted its server.      *)
SocketsAgree ==
  /\ \A socket \in sockets \ orphans :
       socket \in known.sockets \/ \E i \in 1..Len(toPython) : Announces(toPython[i], socket)
  /\ \A socket \in known.sockets :
       socket \in sockets \/ \E i \in 1..Len(toPython) : TellsClose(toPython[i], socket)

(* The messages among the first i that hand data to a socket.               *)
Handed(socket, i) == {j \in 1..i : HandsData(toPython[j], socket)}

(* What a socket of the node was handed while it was open, the program's    *)
(* socket receives, all of it and in order: nothing is sent to a socket     *)
(* that the program does not know yet.                                      *)
ReceivedInOrder ==
  \A socket \in sockets \ orphans :
    LET before == Len(received[socket])
    IN  /\ Len(emitted[socket]) = before + Cardinality(Handed(socket, Len(toPython)))
        /\ \A k \in 1..before : received[socket][k] = emitted[socket][k]
        /\ \A i \in Handed(socket, Len(toPython)) :
             toPython[i].data = emitted[socket][before + Cardinality(Handed(socket, i))]

(* A message of the program arrives whole or not at all, never mixed with   *)
(* another, and it has arrived when its call returns with success - but for *)
(* an empty one, which is confirmed and not sent.                           *)
MessagesWhole ==
  \A socket \in Sockets :
    LET arrived == Accumulated(streams[socket].sent)
    IN  /\ \A message \in arrived : \E c \in 1..Len(calls) :
             calls[c].op = "SendData" /\ message = [k \in 1..calls[c].arg[2] |-> c]
        /\ \A c \in 1..Len(calls) :
             (/\ calls[c].op = "SendData" /\ calls[c].answer = "Success"
              /\ calls[c].arg[1] = socket /\ made[socket].protocol = "stream" /\ calls[c].arg[2] > 0) =>
               [k \in 1..calls[c].arg[2] |-> c] \in arrived

(* Again and again no call is left waiting: every call returns or raises,   *)
(* unless the program has terminated the node, or the call is a message     *)
(* that a stream passed over - one that was sent while another was on its   *)
(* way, or that the loop had ended for.                                     *)
Settled(c) ==
  \/ calls[c].state \in {"returned", "raised"}
  \/ \E socket \in Sockets : PassedOver(streams[socket], c)
CallsSettle == []<>(Terminating \/ \A c \in 1..Len(calls) : Settled(c))
=============================================================================
