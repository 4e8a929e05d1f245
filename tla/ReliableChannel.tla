--------------------------- MODULE ReliableChannel ---------------------------
(***************************************************************************)
(* What a pair of trusted sockets promises to the two applications: a      *)
(* channel in each direction that delivers what was sent, in order, once,  *)
(* and confirms a send only after its delivery -- until an end breaks the  *)
(* connection.  There are no frames, numbers, timers or retries here.      *)
(***************************************************************************)
EXTENDS Naturals, Sequences, FiniteSets

CONSTANTS Peer, Other(_)

VARIABLES
  accepted,    \* how many sends of p the channel has taken
  delivered,   \* the sends of the other peer that p has been handed
  confirmed,   \* the sends of p that have been reported as delivered
  broken       \* p no longer takes part

vars == <<accepted, delivered, confirmed, broken>>

Init ==
  /\ accepted = [p \in Peer |-> 0]
  /\ delivered = [p \in Peer |-> <<>>]
  /\ confirmed = [p \in Peer |-> {}]
  /\ broken = [p \in Peer |-> FALSE]

Send(p) ==
  /\ ~broken[p]
  /\ accepted' = [accepted EXCEPT ![p] = @ + 1]
  /\ UNCHANGED <<delivered, confirmed, broken>>

Deliver(p) ==
  /\ Len(delivered[p]) < accepted[Other(p)]
  /\ delivered' = [delivered EXCEPT ![p] = Append(@, Len(@) + 1)]

Confirm(p) ==
  LET k == Cardinality(confirmed[p]) + 1 IN
  /\ k <= Len(delivered[Other(p)])
  /\ confirmed' = [confirmed EXCEPT ![p] = @ \cup {k}]

(* Something arrives at p: data, a confirmation, or both in one message.    *)
Exchange(p) ==
  /\ ~broken[p]
  /\ Deliver(p) \/ UNCHANGED delivered
  /\ Confirm(p) \/ UNCHANGED confirmed
  /\ UNCHANGED <<accepted, broken>>

Break(p) ==
  /\ broken' = [broken EXCEPT ![p] = TRUE]
  /\ UNCHANGED <<accepted, delivered, confirmed>>

Next == \E p \in Peer : Send(p) \/ Exchange(p) \/ Break(p)

Spec == Init /\ [][Next]_vars

-----------------------------------------------------------------------------
(* What follows for the applications: each is handed a prefix of what the  *)
(* other sent, and told of the delivery of a prefix of its own sends.       *)
OneToEach(p) == \A k \in 1..Len(delivered[p]) : delivered[p][k] = k

ChannelInv ==
  \A p \in Peer :
    /\ OneToEach(p)
    /\ Len(delivered[p]) <= accepted[Other(p)]
    /\ \E n \in 0..Len(delivered[Other(p)]) : confirmed[p] = 1..n
=============================================================================
