--------------------------- MODULE MCTrustedSocket ---------------------------
(***************************************************************************)
(* Instances of TrustedSocket for TLC: how much each application sends.    *)
(***************************************************************************)
EXTENDS TrustedSocketInv

NoSends == [p \in Peer |-> 0]
OneFromClient == [p \in Peer |-> IF p = Client THEN 1 ELSE 0]
TwoFromClient == [p \in Peer |-> IF p = Client THEN 2 ELSE 0]
=============================================================================
