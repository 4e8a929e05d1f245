------------------------------- MODULE Tunnel -------------------------------
(***************************************************************************)
(* The ports of TunnelService (net/tunnel), as operators over the table    *)
(* #ports: a function from the ports in use to the sockets' frame senders  *)
(* and the listener.  A peer stands for a node and a port there; sockets   *)
(* and listeners are the numbers they are known by.                        *)
(***************************************************************************)
EXTENDS Naturals, Functions, FiniteSets

NoListener == 0

NewPort == [senders |-> {}, listener |-> NoListener]

PortOf(ports, port) == IF port \in DOMAIN ports THEN ports[port] ELSE NewPort

SetPort(ports, port, p) == [x \in DOMAIN ports \cup {port} |-> IF x = port THEN p ELSE ports[x]]

AddSender(ports, port, peer, socket) ==
  LET p == PortOf(ports, port)
  IN  SetPort(ports, port, [p EXCEPT !.senders = @ \cup {[peer |-> peer, socket |-> socket]}])

(* open(), as openDynamicPort calls it: the port is not in use.             *)
CanOpen(ports, port) == port \notin DOMAIN ports

(* listen(), on a port that may have sockets already.                       *)
CanListen(ports, port) == PortOf(ports, port).listener = NoListener
Listen(ports, port, listener) ==
  SetPort(ports, port, [PortOf(ports, port) EXCEPT !.listener = listener])

(* What listen() returns, to stop listening.  The port stays in the table.  *)
CancelListener(ports, listener) ==
  [port \in DOMAIN ports |->
     [ports[port] EXCEPT !.listener = IF @ = listener THEN NoListener ELSE @]]

(* The close of a tunnel socket: an empty port is taken from the table.     *)
OnSocketClose(ports, socket) ==
  LET closed == [port \in DOMAIN ports |->
                   [ports[port] EXCEPT !.senders = {s \in @ : s.socket # socket}]]
      emptied == {port \in DOMAIN ports : ports[port] # closed[port] /\ closed[port] = NewPort}
  IN  Restrict(closed, DOMAIN ports \ emptied)

(* handleReceivedFrame: the socket a frame goes to, if any.                 *)
SocketsOf(ports, port, peer) ==
  {s.socket : s \in {x \in PortOf(ports, port).senders : x.peer = peer}}
=============================================================================
