------------------------------- MODULE MCIpc -------------------------------
(* One peer, two local ports, tunnel and stream sockets. *)
EXTENDS Ipc
=============================================================================
