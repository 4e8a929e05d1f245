----------------------------- MODULE MCNeighbor -----------------------------
(* A client and a server with two WebSocket connections and a serial line. *)
EXTENDS Neighbor
=============================================================================
