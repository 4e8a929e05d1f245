----------------------- MODULE ReliableChannel_proofs -----------------------
(***************************************************************************)
(* What the abstract channel gives the two applications.                   *)
(***************************************************************************)
EXTENDS ReliableChannel, FiniteSetTheorems, TLAPS

ChannelTypeOK ==
  /\ accepted \in [Peer -> Nat]
  /\ delivered \in [Peer -> Seq(Nat)]
  /\ confirmed \in [Peer -> SUBSET Nat]

IChannelInv == ChannelTypeOK /\ ChannelInv

(* Confirming the next send of a confirmed prefix leaves a longer prefix.   *)
LEMMA ConfirmExtends ==
  ASSUME NEW n \in Nat
  PROVE  /\ Cardinality(1..n) = n
         /\ (1..n) \cup {n + 1} = 1..(n + 1)
<1>1. Cardinality(1..n) = n
  BY FS_Interval
<1>2. (1..n) \cup {n + 1} = 1..(n + 1)
  OBVIOUS
<1>. QED  BY <1>1, <1>2

(* A delivery hands over the send that comes after those delivered before.  *)
LEMMA DeliverKeeps ==
  ASSUME IChannelInv, NEW p \in Peer, Other(p) \in Peer, Deliver(p)
  PROVE  /\ delivered' \in [Peer -> Seq(Nat)]
         /\ OneToEach(p)'
         /\ \A q \in Peer \ {p} : delivered'[q] = delivered[q]
         /\ Len(delivered'[p]) = Len(delivered[p]) + 1
         /\ Len(delivered'[p]) <= accepted[Other(p)]
<1>1. /\ delivered \in [Peer -> Seq(Nat)] /\ delivered[p] \in Seq(Nat)
      /\ Len(delivered[p]) \in Nat /\ accepted[Other(p)] \in Nat
  BY DEF IChannelInv, ChannelTypeOK
<1>2. delivered' = [delivered EXCEPT ![p] =
                      Append(delivered[p], Len(delivered[p]) + 1)]
  BY DEF Deliver
<1>3. delivered'[p] = Append(delivered[p], Len(delivered[p]) + 1)
  BY <1>1, <1>2
<1>4. OneToEach(p)'
  BY <1>1, <1>3 DEF OneToEach, IChannelInv, ChannelInv
<1>5. Len(delivered'[p]) = Len(delivered[p]) + 1
  BY <1>1, <1>3
<1>6. Len(delivered'[p]) <= accepted[Other(p)]
  BY <1>1, <1>5 DEF Deliver
<1>. QED  BY <1>1, <1>2, <1>4, <1>5, <1>6

(* However the two ends send, exchange and break off: what an application   *)
(* is handed is a prefix of what the other sent, each send once and in      *)
(* order, and only delivered sends are confirmed.                           *)
THEOREM ChannelIsReliable ==
  ASSUME \A p \in Peer : Other(p) \in Peer
  PROVE  Spec => []ChannelInv
<1>1. Init => IChannelInv
  <2> SUFFICES ASSUME Init PROVE IChannelInv
    OBVIOUS
  <2>1. ChannelTypeOK
    BY DEF Init, ChannelTypeOK
  <2>2. ASSUME NEW p \in Peer
        PROVE  /\ OneToEach(p)
               /\ Len(delivered[p]) <= accepted[Other(p)]
               /\ \E n \in 0..Len(delivered[Other(p)]) : confirmed[p] = 1..n
    <3>1. delivered[p] = <<>> /\ delivered[Other(p)] = <<>>
          /\ accepted[Other(p)] = 0 /\ confirmed[p] = 1..0
      BY DEF Init
    <3>. QED  BY <3>1 DEF OneToEach
  <2>. QED  BY <2>1, <2>2 DEF IChannelInv, ChannelInv
<1>2. IChannelInv /\ [Next]_vars => IChannelInv'
  <2> SUFFICES ASSUME IChannelInv, [Next]_vars PROVE IChannelInv'
    OBVIOUS
  <2>1. CASE UNCHANGED vars
    BY <2>1 DEF vars, IChannelInv, ChannelTypeOK, ChannelInv, OneToEach
  <2>2. ASSUME NEW p \in Peer, Send(p) PROVE IChannelInv'
    <3>1. /\ accepted' \in [Peer -> Nat]
          /\ \A q \in Peer : accepted'[q] >= accepted[q]
      BY <2>2 DEF Send, IChannelInv, ChannelTypeOK
    <3>2. UNCHANGED <<delivered, confirmed>>
      BY <2>2 DEF Send
    <3>3. ASSUME NEW q \in Peer
          PROVE  Len(delivered'[q]) <= accepted'[Other(q)]
      <4>1. /\ Len(delivered[q]) \in Nat /\ accepted[Other(q)] \in Nat
            /\ accepted'[Other(q)] \in Nat
            /\ accepted'[Other(q)] >= accepted[Other(q)]
            /\ Len(delivered[q]) <= accepted[Other(q)]
        BY <3>1 DEF IChannelInv, ChannelTypeOK, ChannelInv
      <4>. QED  BY <3>2, <4>1
    <3>. QED
      BY <3>1, <3>2, <3>3
         DEF IChannelInv, ChannelTypeOK, ChannelInv, OneToEach
  <2>3. ASSUME NEW p \in Peer, Exchange(p) PROVE IChannelInv'
    <3>1. /\ delivered' \in [Peer -> Seq(Nat)]
          /\ \A q \in Peer : /\ OneToEach(q)'
                             /\ Len(delivered'[q]) <= accepted[Other(q)]
                             /\ Len(delivered'[q]) >= Len(delivered[q])
      <4>1. CASE Deliver(p)
        <5>1. /\ delivered' \in [Peer -> Seq(Nat)]
              /\ OneToEach(p)'
              /\ \A q \in Peer \ {p} : delivered'[q] = delivered[q]
              /\ Len(delivered'[p]) = Len(delivered[p]) + 1
              /\ Len(delivered'[p]) <= accepted[Other(p)]
          BY <4>1, DeliverKeeps
        <5>2. ASSUME NEW q \in Peer
              PROVE  /\ OneToEach(q)'
                     /\ Len(delivered'[q]) <= accepted[Other(q)]
                     /\ Len(delivered'[q]) >= Len(delivered[q])
          <6>1. /\ Len(delivered[q]) \in Nat
                /\ Len(delivered[q]) <= accepted[Other(q)]
                /\ OneToEach(q)
            BY DEF IChannelInv, ChannelTypeOK, ChannelInv
          <6>2. CASE q = p
            BY <5>1, <6>1, <6>2
          <6>3. CASE q # p
            BY <5>1, <6>1, <6>3 DEF OneToEach
          <6>. QED  BY <6>2, <6>3
        <5>. QED  BY <5>1, <5>2
      <4>2. CASE UNCHANGED delivered
        <5>1. ASSUME NEW q \in Peer
              PROVE  /\ OneToEach(q)'
                     /\ Len(delivered'[q]) <= accepted[Other(q)]
                     /\ Len(delivered'[q]) >= Len(delivered[q])
          <6>1. /\ Len(delivered[q]) \in Nat
                /\ Len(delivered[q]) <= accepted[Other(q)]
                /\ OneToEach(q)
            BY DEF IChannelInv, ChannelTypeOK, ChannelInv
          <6>. QED  BY <4>2, <6>1 DEF OneToEach
        <5>. QED  BY <4>2, <5>1 DEF IChannelInv, ChannelTypeOK
      <4>. QED  BY <2>3, <4>1, <4>2 DEF Exchange
    <3>2. ASSUME NEW q \in Peer
          PROVE  \E n \in 0..Len(delivered'[Other(q)]) : confirmed'[q] = 1..n
      <4>1. PICK n \in 0..Len(delivered[Other(q)]) : confirmed[q] = 1..n
        BY DEF IChannelInv, ChannelInv
      <4>2. /\ Len(delivered[Other(q)]) \in Nat
            /\ Len(delivered'[Other(q)]) \in Nat
            /\ Len(delivered'[Other(q)]) >= Len(delivered[Other(q)])
        <5>1. Other(q) \in Peer
          OBVIOUS
        <5>2. /\ delivered[Other(q)] \in Seq(Nat)
              /\ delivered'[Other(q)] \in Seq(Nat)
          BY <3>1, <5>1 DEF IChannelInv, ChannelTypeOK
        <5>. QED  BY <3>1, <5>1, <5>2
      <4>3. CASE q = p /\ Confirm(p)
        <5>1. Cardinality(confirmed[p]) = n
          BY <4>1, <4>2, <4>3, ConfirmExtends
        <5>2. /\ n + 1 <= Len(delivered[Other(p)])
              /\ confirmed'[p] = confirmed[p] \cup {n + 1}
          BY <4>3, <5>1 DEF Confirm, IChannelInv, ChannelTypeOK
        <5>3. confirmed'[q] = 1..(n + 1)
          BY <4>1, <4>2, <4>3, <5>2, ConfirmExtends
        <5>4. n + 1 \in 0..Len(delivered'[Other(q)])
          BY <4>1, <4>2, <4>3, <5>2
        <5>. QED  BY <5>3, <5>4
      <4>4. CASE ~(q = p /\ Confirm(p))
        <5>1. confirmed'[q] = confirmed[q]
          BY <2>3, <4>4 DEF Exchange, Confirm, IChannelInv, ChannelTypeOK
        <5>2. n \in 0..Len(delivered'[Other(q)])
          BY <4>1, <4>2
        <5>. QED  BY <4>1, <5>1, <5>2
      <4>. QED  BY <4>3, <4>4
    <3>3. /\ accepted' = accepted
          /\ confirmed' \in [Peer -> SUBSET Nat]
      <4>1. PICK n \in 0..Len(delivered[Other(p)]) : confirmed[p] = 1..n
        BY DEF IChannelInv, ChannelInv
      <4>2. n \in Nat /\ Cardinality(confirmed[p]) = n
        <5>1. Len(delivered[Other(p)]) \in Nat
          BY DEF IChannelInv, ChannelTypeOK
        <5>2. n \in Nat
          BY <5>1
        <5>. QED  BY <4>1, <5>2, ConfirmExtends
      <4>3. confirmed \in [Peer -> SUBSET Nat]
        BY DEF IChannelInv, ChannelTypeOK
      <4>4. CASE Confirm(p)
        <5>1. confirmed' = [confirmed EXCEPT ![p] = confirmed[p] \cup {n + 1}]
          BY <4>2, <4>4 DEF Confirm
        <5>. QED  BY <2>3, <4>2, <4>3, <5>1 DEF Exchange
      <4>5. CASE UNCHANGED confirmed
        BY <2>3, <4>3, <4>5 DEF Exchange
      <4>. QED  BY <2>3, <4>4, <4>5 DEF Exchange
    <3>. QED
      BY <3>1, <3>2, <3>3 DEF IChannelInv, ChannelTypeOK, ChannelInv
  <2>4. ASSUME NEW p \in Peer, Break(p) PROVE IChannelInv'
    BY <2>4 DEF Break, IChannelInv, ChannelTypeOK, ChannelInv, OneToEach
  <2>. QED  BY <2>1, <2>2, <2>3, <2>4 DEF Next
<1>3. IChannelInv => ChannelInv
  BY DEF IChannelInv
<1>. QED  BY <1>1, <1>2, <1>3, PTL DEF Spec
=============================================================================
