-------------------------- MODULE TrustedSocketInv --------------------------
(***************************************************************************)
(* Inductive invariants of TrustedSocket: what makes its safety properties *)
(* true, checked by TLC and used in TrustedSocket_proofs.                  *)
(***************************************************************************)
EXTENDS TrustedSocket

(* What each end knows about the other's half of the handshake, told by its *)
(* own state and by what the other has put on its way.                      *)
Heard(p) == syn[p].incoming # "yet"
Spoken(p) == syn[p].outgoing # "yet"

HandshakeInvOf(p, q) ==
  /\ Heard(p) => Spoken(q)
  /\ syn[p].outgoing = "syn ack received" => Heard(q)
  /\ \A body \in BagToSet(network[p]) :
       /\ body = Control("syn") => Spoken(q)
       /\ body = Control("syn ack") => Heard(q)
  /\ \A action \in BagToSet(sending[q]) :
       action.body = Control("syn ack") => Heard(q)
  /\ isOpen[p] => Heard(q) /\ Spoken(q)

HandshakeInv ==
  \A p \in Peer : ~everClosed[Other(p)] => HandshakeInvOf(p, Other(p))

-----------------------------------------------------------------------------
(* Every body that p has on its way, or may still put there. *)
Outgoing(p) ==
  {action.body : action \in BagToSet(sending[p])}
    \cup {timeout.body : timeout \in BagToSet(timers[p])}
    \cup BagToSet(network[Other(p)])

(* How many of p's sends have been given a number. *)
Numbered(p) == nextSend[p] + (IF sendingFrame[p] = NoFrame THEN 0 ELSE 1)

Delivered(q, k) == \E i \in 1..Len(received[q]) : received[q][i] = k

(* The frame in flight and the queue behind it hold the sends that are not  *)
(* confirmed, in order.                                                     *)
QueueInv(p) ==
  /\ nextSend[p] < SeqModulus
  /\ sendingFrame[p] # NoFrame =>
       /\ sendingFrame[p].seq = nextSend[p]
       /\ sendingFrame[p].payload = nextSend[p] + 1
  /\ Len(result[p]) = Numbered(p) + Len(sendPendingFrames[p])
  /\ \A i \in 1..Len(sendPendingFrames[p]) :
       sendPendingFrames[p][i] = Numbered(p) + i

(* Frames of p, however old, carry the send that their number says. *)
Carries(p, body) ==
  body.type = "data" => /\ body.payload = body.seq + 1
                        /\ body.payload <= Numbered(p)

FramesInv(p) == \A body \in Outgoing(p) : Carries(p, body)

(* The other end has been handed only what p has numbered, and acknowledges *)
(* no more than it was handed.                                              *)
AcksDelivered(q, body) ==
  body.type \in {"data", "data ack"} => \A k \in 1..body.ack : Delivered(q, k)

AcksInv(p, q) ==
  /\ \A i \in 1..Len(received[q]) : received[q][i] \in 1..Numbered(p)
  /\ \A k \in 1..nextReceive[q] : Delivered(q, k)
  /\ \A body \in Outgoing(q) : AcksDelivered(q, body)

OkInv(p, q) == \A k \in 1..Len(result[p]) : result[p][k] = "ok" => Delivered(q, k)

OrderInv(q) ==
  /\ Len(received[q]) = nextReceive[q]
  /\ \A i \in 1..Len(received[q]) : received[q][i] = i

OnTheWireInv ==
  \A p \in Peer : \A body \in BagToSet(network[p]) :
    body.type \in {"data", "data ack"} => body.ack < SeqModulus

DeliveryInv ==
  /\ OnTheWireInv
  /\ \A p \in Peer : ~everClosed[p] =>
       /\ QueueInv(p)
       /\ FramesInv(p)
       /\ AcksInv(p, Other(p))
       /\ OkInv(p, Other(p))
       /\ ~everClosed[Other(p)] => OrderInv(Other(p))
=============================================================================
