------------------------------ MODULE Neighbor ------------------------------
(***************************************************************************)
(* NeighborService and NeighborSocket (net/neighbor) at two nodes, over    *)
(* the media of net/link: a serial line that is always there, and          *)
(* WebSocket connections that one end, the client (websocket-browser),     *)
(* opens to the other, the server (websocket-node).                        *)
(*                                                                         *)
(* Time passes in ticks.  A timer that is due goes off before the next     *)
(* tick, and a frame that is not lost arrives, and has waited for its cost *)
(* (the delay of NeighborSocket), within the tick in which it is sent.     *)
(* Costs of links and the queue of FrameBroker are left out.               *)
(***************************************************************************)
EXTENDS Integers, FiniteSets, SequencesExt

CONSTANTS
  Client, Server,      \* the two ends
  Connections,         \* the WebSocket connections they can have
  Serial,              \* the serial line
  SEND_HELLO_INTERVAL,
  NEIGHBOR_EXPIRATION_TIMEOUT,
  MaxHellos,           \* bound: hellos that applications ask for
  MaxDisturbances,     \* bound: lost frames and closed connections
  MaxFrames            \* bound: frames on their way at once

ASSUME NeighborAssumption ==
  /\ Client # Server /\ Serial \notin Connections
  /\ "server" \notin Connections \cup {Serial}   \* it names an address
  /\ SEND_HELLO_INTERVAL \in Nat \ {0}
  /\ NEIGHBOR_EXPIRATION_TIMEOUT \in Nat
  /\ NEIGHBOR_EXPIRATION_TIMEOUT > 2 * SEND_HELLO_INTERVAL   \* four times, in constants.ts

VARIABLES
  entry,         \* [Nodes -> set of at most one entry: the neighbor at the other end]
  open,          \* [Nodes -> links whose port is open at this end]
  connections,   \* [Nodes -> links that #connections, or the port list, leads to]
  connecting,    \* connections that the client waits for
  network,       \* frames on their way
  delayed,       \* [Nodes -> frames of a known sender that wait for their cost]
  hellos,        \* bounded by MaxHellos
  disturbances,  \* bounded by MaxDisturbances
  calm,          \* history: ticks since a frame or connection was lost or ignored
  flaws          \* history: which of Flaws have happened

media == <<open, connections, connecting>>
vars == <<entry, media, network, delayed, hellos, disturbances, calm, flaws>>

-----------------------------------------------------------------------------
Nodes == {Client, Server}
Links == Connections \cup {Serial}

Flaws == {
  "twice",    \* connect() was called again for a remote it was still connecting to
  "late",     \* a frame was handled after the close of the connection it came by
  "unarmed"}  \* the hello timer went off without an address and was not set again

Off == -1   \* a timer that has gone off and has not been set again

Other(n) == IF n = Client THEN Server ELSE Client

(* The client knows every connection by the server's address; the server   *)
(* sees a port of its own for each.                                        *)
Address(n, link) == IF n = Client /\ link \in Connections THEN "server" ELSE link

IsWebSocket(n, address) == \E c \in Connections : address = Address(n, c)

Frame(n, link, type) == [from |-> n, link |-> link, type |-> type]

(* NeighborNodeEntry, with the ticks its two Delays have left.  An address  *)
(* comes with the port whose closing takes it away.                         *)
Entry(addresses) ==
  [addresses |-> addresses, sendHello |-> SEND_HELLO_INTERVAL,
   expiration |-> NEIGHBOR_EXPIRATION_TIMEOUT]

HasAddress(e, address) == \E known \in ToSet(e.addresses) : known.address = address

(* Changes to the entry that do nothing where there is none.                *)
DelayExpiration(entries) ==
  {[e EXCEPT !.expiration = NEIGHBOR_EXPIRATION_TIMEOUT] : e \in entries}
DelayHelloInterval(entries) ==
  {[e EXCEPT !.sendHello = SEND_HELLO_INTERVAL] : e \in entries}

AddAddressIfNotExists(e, known) ==
  IF HasAddress(e, known.address) THEN e ELSE [e EXCEPT !.addresses = Append(@, known)]

AddNeighbor(entries, known) ==
  IF entries = {} THEN {Entry(<<known>>)} ELSE {AddAddressIfNotExists(e, known) : e \in entries}

\* Mutant of RemoveAddress: the address stays.
KeepAddress(e, port) == e

(* The abort listener of the address, of which the entry has one.           *)
RemoveAddress(e, port) ==
  IF \E i \in DOMAIN e.addresses : e.addresses[i].port = port
  THEN [e EXCEPT !.addresses = RemoveAt(@, CHOOSE i \in DOMAIN @ : @[i].port = port)]
  ELSE e

(* The handler of a medium: for an address without a connection nothing     *)
(* goes out, nor over one that the other end has closed, and the send is    *)
(* reported as done.                                                        *)
SentOver(n, links, type) ==
  {Frame(n, link, type) : link \in links \cap connections[n] \cap open[Other(n)]}

Sent(n, address, type) ==
  SentOver(n, {link \in Links : Address(n, link) = address}, type)

Send(frames) ==
  /\ network' = network \cup frames
  /\ Cardinality(network') <= MaxFrames

(* A connection's close event is not ordered with the handling of what came *)
(* by it before: the client awaits the bytes of each message first.         *)
Handles(n, frame) == frame.link \in open[n] \/ (n = Client /\ frame.link \in Connections)

Late(n, frame) == IF frame.link \in open[n] THEN {} ELSE {"late"}

-----------------------------------------------------------------------------
(* sendHello(), asked for by an application for some address.               *)
SendHello(n, address) ==
  /\ hellos < MaxHellos /\ hellos' = hellos + 1
  /\ Send(Sent(n, address, "Hello"))
  /\ calm' = 0
  /\ UNCHANGED <<entry, media, delayed, disturbances, flaws>>

(* #onFrameReceived: every hello makes its sender a neighbor; one that is   *)
(* not a mere keep-alive is answered at once, and the answer counts as a    *)
(* hello.                                                                   *)
ReceiveHello(n, frame) ==
  LET address == Address(n, frame.link)
      known == [address |-> address, port |-> frame.link]
      entries == DelayExpiration(AddNeighbor(entry[n], known))
      rest == network \ {frame}
      reply == frame.type = "Hello"
  IN  /\ frame.type \in {"Hello", "KeepAlive"}
      /\ Handles(n, frame)
      /\ entry' = [entry EXCEPT ![n] = IF reply THEN DelayHelloInterval(entries) ELSE entries]
      /\ network' = IF reply THEN rest \cup Sent(n, address, "KeepAlive") ELSE rest
      /\ flaws' = flaws \cup Late(n, frame)
      /\ UNCHANGED <<media, delayed, hellos, disturbances, calm>>

\* Mutant of HelloInterval: the timer is not set again.
HelloOnce(n) ==
  \E e \in entry[n] :
    /\ e.sendHello = 0
    /\ entry' = [entry EXCEPT ![n] = {[e EXCEPT !.sendHello = Off]}]
    /\ IF e.addresses = <<>> THEN UNCHANGED network
       ELSE Send(Sent(n, Head(e.addresses).address, "KeepAlive"))
    /\ UNCHANGED <<media, delayed, hellos, disturbances, calm, flaws>>

(* The hello timer.  Without an address it is not set again.                *)
HelloInterval(n) ==
  \E e \in entry[n] :
    /\ e.sendHello = 0
    /\ IF e.addresses = <<>>
       THEN /\ entry' = [entry EXCEPT ![n] = {[e EXCEPT !.sendHello = Off]}]
            /\ flaws' = flaws \cup {"unarmed"}
            /\ UNCHANGED network
       ELSE /\ entry' = [entry EXCEPT ![n] = DelayHelloInterval({e})]
            /\ Send(Sent(n, Head(e.addresses).address, "KeepAlive"))
            /\ UNCHANGED flaws
    /\ UNCHANGED <<media, delayed, hellos, disturbances, calm>>

(* The expiration timer.                                                    *)
Expire(n) ==
  /\ \E e \in entry[n] : e.expiration = 0
  /\ entry' = [entry EXCEPT ![n] = {}]
  /\ UNCHANGED <<media, network, delayed, hellos, disturbances, calm, flaws>>

-----------------------------------------------------------------------------
(* NeighborSocket.send: only the first address is tried.                    *)
SendFrame(n) ==
  \E e \in entry[n] :
    /\ e.addresses # <<>>
    /\ Send(Sent(n, Head(e.addresses).address, "Data"))
    /\ entry' = [entry EXCEPT ![n] = DelayHelloInterval({e})]
    /\ UNCHANGED <<media, delayed, hellos, disturbances, calm, flaws>>

(* NeighborSocket.sendBroadcast: the WebSocket handler sends to all its     *)
(* connections, which counts as a hello to every neighbor with such an      *)
(* address; other neighbors are sent to one by one, but the ignored one.    *)
SendBroadcast(n, ignored) ==
  LET reached == {e \in entry[n] : \E known \in ToSet(e.addresses) : IsWebSocket(n, known.address)}
      single == IF ignored THEN {} ELSE {e \in entry[n] \ reached : e.addresses # <<>>}
  IN  /\ Send(SentOver(n, Connections, "Data")
              \cup UNION {Sent(n, Head(e.addresses).address, "Data") : e \in single})
      /\ entry' = [entry EXCEPT ![n] =
                     DelayHelloInterval(reached \cup single) \cup (@ \ (reached \cup single))]
      /\ UNCHANGED <<media, delayed, hellos, disturbances, calm, flaws>>

(* #onFrameReceived: a frame from an address that no neighbor has is        *)
(* ignored; others wait.                                                    *)
ReceiveFrame(n, frame) ==
  LET known == \E e \in entry[n] : HasAddress(e, Address(n, frame.link))
  IN  /\ frame.type = "Data"
      /\ Handles(n, frame)
      /\ network' = network \ {frame}
      /\ delayed' = IF known THEN [delayed EXCEPT ![n] = @ \cup {frame}] ELSE delayed
      /\ calm' = IF known THEN calm ELSE 0
      /\ UNCHANGED <<entry, media, hellos, disturbances, flaws>>

\* Mutant of Deliver: a frame does not count as a sign of life.
DeliverOnly(n, frame) ==
  /\ delayed' = [delayed EXCEPT ![n] = @ \ {frame}]
  /\ UNCHANGED <<entry, media, network, hellos, disturbances, calm, flaws>>

(* After the wait: the frame goes to the socket's user, and counts for the  *)
(* neighbor if it has not expired in the meantime.                          *)
Deliver(n, frame) ==
  /\ delayed' = [delayed EXCEPT ![n] = @ \ {frame}]
  /\ entry' = [entry EXCEPT ![n] = DelayExpiration(@)]
  /\ calm' = IF entry[n] = {} THEN 0 ELSE calm
  /\ UNCHANGED <<media, network, hellos, disturbances, flaws>>

-----------------------------------------------------------------------------
(* The media.                                                               *)
Disturb == disturbances < MaxDisturbances /\ disturbances' = disturbances + 1 /\ calm' = 0

Lose(frame) ==
  /\ Disturb
  /\ network' = network \ {frame}
  /\ UNCHANGED <<entry, media, delayed, hellos, flaws>>

(* A frame that comes to an end that is closed.                             *)
Drop(frame) ==
  /\ frame.link \notin open[Other(frame.from)]
  /\ network' = network \ {frame}
  /\ calm' = 0
  /\ UNCHANGED <<entry, media, delayed, hellos, disturbances, flaws>>

(* connect(): a remote that is connected already is refused, but one that   *)
(* is being connected to is not.                                            *)
Connect(c) ==
  /\ connections[Client] \cap Connections = {}
  /\ c \notin connecting /\ \A n \in Nodes : c \notin open[n]
  /\ \A frame \in network : frame.link # c
  /\ connecting' = connecting \cup {c}
  /\ flaws' = IF connecting = {} THEN flaws ELSE flaws \cup {"twice"}
  /\ UNCHANGED <<entry, open, connections, network, delayed, hellos, disturbances, calm>>

(* addConnection: a connection takes the place of one to the same remote.   *)
AddConnection(n, c) ==
  {link \in connections[n] : Address(n, link) # Address(n, c)} \cup {c}

Connected(c) ==
  /\ c \in connecting /\ connecting' = connecting \ {c}
  /\ open' = [n \in Nodes |-> open[n] \cup {c}]
  /\ connections' = [n \in Nodes |-> AddConnection(n, c)]
  /\ calm' = 0
  /\ UNCHANGED <<entry, network, delayed, hellos, disturbances, flaws>>

(* The close event of a connection at one end: whatever connection its      *)
(* remote has is forgotten, and the port's signal takes the address away.   *)
OnClose(n, c) ==
  /\ open' = [open EXCEPT ![n] = @ \ {c}]
  /\ connections' = [connections EXCEPT ![n] =
                       {link \in @ : Address(n, link) # Address(n, c)}]
  /\ entry' = [entry EXCEPT ![n] = {RemoveAddress(e, c) : e \in @}]
  /\ UNCHANGED <<connecting, network, delayed, hellos, flaws>>

Close(n, c) == c \in open[n] \cap open[Other(n)] /\ Disturb /\ OnClose(n, c)

(* The other end learns of it.                                              *)
Closed(n, c) ==
  /\ c \in open[n] \ open[Other(n)]
  /\ calm' = 0 /\ UNCHANGED disturbances
  /\ OnClose(n, c)

(* Time.                                                                    *)
Passed(e) == [e EXCEPT !.expiration = @ - 1, !.sendHello = IF @ = Off THEN Off ELSE @ - 1]

Due(e) == e.expiration = 0 \/ e.sendHello = 0

Settling == NEIGHBOR_EXPIRATION_TIMEOUT + SEND_HELLO_INTERVAL + 1

Tick ==
  /\ network = {} /\ \A n \in Nodes : delayed[n] = {}
  /\ \A n \in Nodes : \A e \in entry[n] : ~Due(e)
  /\ entry' = [n \in Nodes |-> {Passed(e) : e \in entry[n]}]
  /\ calm' = IF open[Client] # open[Server] THEN 0
             ELSE IF calm < Settling THEN calm + 1 ELSE calm
  /\ UNCHANGED <<media, network, delayed, hellos, disturbances, flaws>>

-----------------------------------------------------------------------------
Init ==
  /\ entry = [n \in Nodes |-> {}]
  /\ open = [n \in Nodes |-> {Serial}]
  /\ connections = [n \in Nodes |-> {Serial}]
  /\ connecting = {}
  /\ network = {}
  /\ delayed = [n \in Nodes |-> {}]
  /\ hellos = 0
  /\ disturbances = 0
  /\ calm = 0
  /\ flaws = {}

Next ==
  \/ \E n \in Nodes :
       \/ \E address \in {Address(n, link) : link \in Links} : SendHello(n, address)
       \/ HelloInterval(n) \/ Expire(n) \/ SendFrame(n)
       \/ \E ignored \in BOOLEAN : SendBroadcast(n, ignored)
       \/ \E frame \in delayed[n] : Deliver(n, frame)
       \/ \E c \in Connections : Close(n, c) \/ Closed(n, c)
  \/ \E frame \in network :
       \/ ReceiveHello(Other(frame.from), frame)
       \/ ReceiveFrame(Other(frame.from), frame)
       \/ Lose(frame)
       \/ Drop(frame)
  \/ \E c \in Connections : Connect(c) \/ Connected(c)
  \/ Tick

Spec == Init /\ [][Next]_vars

-----------------------------------------------------------------------------
(* Properties.                                                              *)

(* A frame for a known address goes out over a port that is open: an end    *)
(* forgets an address with its connection, and keeps the connection of an   *)
(* address it knows - unless a remote was connected to twice at once, where *)
(* the close of one connection forgets the other, or a frame was handled    *)
(* after the close, which brings the address back for good.                 *)
AddressesLive ==
  flaws \cap {"twice", "late"} = {} =>
    \A n \in Nodes : \A e \in entry[n] : \A known \in ToSet(e.addresses) :
      \E link \in connections[n] \cap open[n] : Address(n, link) = known.address

(* An end drops its neighbor only if a frame or connection has been lost,   *)
(* changed or ignored within the time of an expiration: the hellos of the   *)
(* neighbor, or its frames in their place, keep it otherwise - unless one   *)
(* of the flaws has left the neighbor without a hello timer or with an      *)
(* address that leads nowhere.                                              *)
NeighborStays ==
  [][\A n \in Nodes :
       (entry[n] # {} /\ entry'[n] = {}) =>
         calm < NEIGHBOR_EXPIRATION_TIMEOUT \/ flaws # {}]_vars

(* Once nothing has been lost, changed or ignored for longer than an        *)
(* expiration and a hello, the two ends agree on being neighbors.           *)
TablesAgree ==
  (flaws = {} /\ calm = Settling) => \A n \in Nodes : entry[n] = {} => entry[Other(n)] = {}
=============================================================================
