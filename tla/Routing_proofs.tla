--------------------------- MODULE Routing_proofs ---------------------------
(***************************************************************************)
(* A node takes a frame up again only after MaxCacheSize others, in every  *)
(* network and whatever discovery answers.  The reason is RemembersLatest: *)
(* the cache holds the ids taken up last, so that a frame which is not in  *)
(* it is not among those.                                                  *)
(***************************************************************************)
EXTENDS Routing, TLAPS

AllIds == UNION {IdsOf[n] : n \in Node}
Message == [from : Node, to : Node, frame : Frame]
Entry == [frame : Frame, delivered : BOOLEAN]

-----------------------------------------------------------------------------
(* Bags, and the cache of ids. *)

LEMMA BagOps ==
  ASSUME NEW bag, NEW other, NEW x
  PROVE  /\ BagToSet(EmptyBag) = {}
         /\ BagToSet(bag (+) other) = BagToSet(bag) \cup BagToSet(other)
         /\ BagToSet(BagAdd(bag, x)) = BagToSet(bag) \cup {x}
         /\ BagToSet(BagRemove(bag, x)) \subseteq BagToSet(bag)
BY DEF BagToSet, EmptyBag, SetToBag, (+), BagAdd, BagRemove

(* A new id goes to the end, and the first one goes if there are too many.  *)
LEMMA InsertNew ==
  ASSUME NEW S, NEW cache \in Seq(S), NEW id \in S, ~Contains(cache, id),
         Len(cache) <= MaxCacheSize
  PROVE  LET new == InsertId(cache, id, MaxCacheSize)
         IN  /\ new \in Seq(S)
             /\ Len(cache) < MaxCacheSize => new = Append(cache, id)
             /\ Len(cache) = MaxCacheSize => new = Tail(Append(cache, id))
<1>1. Append(cache, id) \in Seq(S) /\ Len(Append(cache, id)) = Len(cache) + 1
  OBVIOUS
<1>2. MaxCacheSize \in Nat /\ Len(cache) \in Nat
  BY LimitsAssumption
<1> QED
  BY <1>1, <1>2 DEF InsertId

LEMMA InsertAny ==
  ASSUME NEW S, NEW cache \in Seq(S), NEW id \in S, Len(cache) <= MaxCacheSize
  PROVE  /\ InsertId(cache, id, MaxCacheSize) \in Seq(S)
         /\ Len(InsertId(cache, id, MaxCacheSize)) <= MaxCacheSize
<1>1. Append(cache, id) \in Seq(S) /\ Len(Append(cache, id)) = Len(cache) + 1
  OBVIOUS
<1>2. MaxCacheSize \in Nat \ {0} /\ Len(cache) \in Nat
  BY LimitsAssumption
<1>3. Len(cache) = MaxCacheSize =>
        /\ Tail(Append(cache, id)) \in Seq(S)
        /\ Len(Tail(Append(cache, id))) = MaxCacheSize
  BY <1>1, <1>2
<1> QED
  BY <1>1, <1>2, <1>3 DEF InsertId

-----------------------------------------------------------------------------
(* Type correctness. *)

LEMMA InitTypeOK == Init => TypeOK
<1> SUFFICES ASSUME Init PROVE TypeOK
  OBVIOUS
<1>1. BagToSet(EmptyBag) = {}
  BY BagOps
<1>2. MaxCacheSize \in Nat
  BY LimitsAssumption
<1> QED
  BY <1>1, <1>2 DEF Init, TypeOK

LEMMA SendFrameTypeOK ==
  ASSUME TypeOK, NEW n \in Node, NEW frame \in Frame, NEW previousHop, NEW bag,
         BagToSet(bag) \subseteq Message, SendFrame(n, frame, previousHop, bag)
  PROVE  /\ BagToSet(network') \subseteq Message
         /\ DOMAIN waiting' = Node
         /\ \A m \in Node : BagToSet(waiting'[m]) \subseteq Frame
<1>1. CASE IsFlooded(n, frame.destination)
  <2>1. BagToSet(Copies(n, previousHop, frame)) \subseteq Message
    <3> DEFINE others == IF Shared THEN Neighbors[n] ELSE Neighbors[n] \ {previousHop}
               self == [copy \in {Copy(n, n, frame)} |->
                          IF previousHop = n THEN 1 ELSE 2]
               toOthers == SetToBag({Copy(n, m, frame) : m \in others})
    <3>1. BagToSet(toOthers) \subseteq Message
      BY NetworkAssumption DEF BagToSet, SetToBag, Copy, Message
    <3>2. BagToSet(self) \subseteq Message
      BY DEF BagToSet, Copy, Message
    <3>3. Copies(n, previousHop, frame) = toOthers (+) self
      BY DEF Copies
    <3> HIDE DEF toOthers, self
    <3>4. BagToSet(toOthers (+) self) = BagToSet(toOthers) \cup BagToSet(self)
      BY BagOps
    <3> QED
      BY <3>1, <3>2, <3>3, <3>4
  <2>2. network' = bag (+) Copies(n, previousHop, frame) /\ waiting' = waiting
    BY <1>1 DEF SendFrame
  <2>3. BagToSet(network') = BagToSet(bag) \cup BagToSet(Copies(n, previousHop, frame))
    BY <2>2, BagOps
  <2> QED
    BY <2>1, <2>2, <2>3 DEF TypeOK
<1>2. CASE ~IsFlooded(n, frame.destination)
  <2>1. /\ network' = bag
        /\ waiting' = [waiting EXCEPT ![n] = BagAdd(waiting[n], frame)]
    BY <1>2 DEF SendFrame
  <2>2. BagToSet(BagAdd(waiting[n], frame)) = BagToSet(waiting[n]) \cup {frame}
    BY BagOps
  <2> QED
    BY <2>1, <2>2 DEF TypeOK
<1> QED
  BY <1>1, <1>2

(* Ids that have been drawn and rejected stay in the cache.                 *)
LEMMA GeneratedType ==
  ASSUME TypeOK, NEW n \in Node, NEW draw \in Generated(n)
  PROVE  /\ draw.id \in AllIds
         /\ draw.cache \in Seq(AllIds)
         /\ Len(draw.cache) <= MaxCacheSize
<1> DEFINE IsCache(c) == c \in Seq(AllIds) /\ Len(c) <= MaxCacheSize
<1>1. ASSUME NEW cache, IsCache(cache), NEW d \in Drawn(n, cache)
      PROVE  d.id \in AllIds /\ IsCache(d.cache)
  <2>1. PICK id \in IdsOf[n] : d = [id |-> id, cache |-> InsertId(cache, id, MaxCacheSize)]
    BY DEF Drawn
  <2>2. id \in AllIds
    BY DEF AllIds
  <2> QED
    BY <1>1, <2>1, <2>2, InsertAny
<1>2. IsCache(sent[n])
  BY DEF TypeOK, AllIds
<1>3. PICK first \in Drawn(n, sent[n]) : draw = first \/ draw \in Drawn(n, first.cache)
  BY DEF Generated
<1> HIDE DEF IsCache
<1>4. first.id \in AllIds /\ IsCache(first.cache)
  BY <1>1, <1>2
<1>5. draw.id \in AllIds /\ IsCache(draw.cache)
  BY <1>1, <1>3, <1>4
<1> QED
  BY <1>5 DEF IsCache

LEMMA SendTypeOK ==
  ASSUME TypeOK, NEW n \in Node, NEW d \in Wanted[n], Send(n, d)
  PROVE  TypeOK'
<1> USE DEF TypeOK
<1>1. PICK draw \in Generated(n) :
        LET frame == [id |-> draw.id, source |-> n, destination |-> d,
                      number |-> Len(frames)]
        IN  /\ sent' = [sent EXCEPT ![n] = draw.cache]
            /\ frames' = Append(frames, frame)
            /\ SendFrame(n, frame, Broadcast, network)
  BY DEF Send
<1> DEFINE frame == [id |-> draw.id, source |-> n, destination |-> d,
                     number |-> Len(frames)]
<1>2. /\ draw.id \in AllIds
      /\ draw.cache \in Seq(AllIds) /\ Len(draw.cache) <= MaxCacheSize
  BY GeneratedType
<1>3. frame \in Frame
  <2>1. d \in Destination
    BY LimitsAssumption
  <2> QED
    BY <1>2, <2>1 DEF Frame, AllIds
<1>4. /\ BagToSet(network') \subseteq Message
      /\ \A m \in Node : BagToSet(waiting'[m]) \subseteq Frame
      /\ DOMAIN waiting' = Node
  BY <1>1, <1>3, SendFrameTypeOK DEF Message
<1>5. /\ sent' \in [Node -> Seq(AllIds)]
      /\ \A m \in Node : Len(sent'[m]) <= MaxCacheSize
  BY <1>1, <1>2 DEF AllIds
<1>6. frames' \in Seq(Frame)
  BY <1>1, <1>3
<1> QED
  BY <1>4, <1>5, <1>6 DEF Send, AllIds, Message

LEMMA ForwardTypeOK ==
  ASSUME TypeOK, NEW n \in Node, Forward(n)
  PROVE  TypeOK'
<1> USE DEF TypeOK
<1>1. PICK frame \in BagToSet(waiting[n]) :
        /\ waiting' = [waiting EXCEPT ![n] = BagRemove(@, frame)]
        /\ \/ UNCHANGED network
           \/ \E gateway \in GatewaysTo(n, frame.destination) :
                network' = BagAdd(network, Copy(n, gateway, frame))
        /\ UNCHANGED <<sent, received, handled, frames>>
  BY DEF Forward
<1>2. frame \in Frame
  OBVIOUS
<1>3. GatewaysTo(n, frame.destination) \subseteq Node
  BY <1>2, NetworkAssumption DEF GatewaysTo, Frame
<1>4. BagToSet(network') \subseteq Message
  <2>1. CASE UNCHANGED network
    BY <2>1 DEF Message
  <2>2. ASSUME NEW gateway \in GatewaysTo(n, frame.destination),
               network' = BagAdd(network, Copy(n, gateway, frame))
        PROVE  BagToSet(network') \subseteq Message
    <3>1. Copy(n, gateway, frame) \in Message
      BY <1>2, <1>3 DEF Copy, Message
    <3>2. BagToSet(BagAdd(network, Copy(n, gateway, frame)))
            = BagToSet(network) \cup {Copy(n, gateway, frame)}
      BY BagOps
    <3> QED
      BY <2>2, <3>1, <3>2 DEF Message
  <2> QED
    BY <1>1, <2>1, <2>2
<1>5. BagToSet(BagRemove(waiting[n], frame)) \subseteq BagToSet(waiting[n])
  BY BagOps
<1> QED
  BY <1>1, <1>4, <1>5 DEF Message

LEMMA ReceiveTypeOK ==
  ASSUME TypeOK, NEW n \in Node, Receive(n)
  PROVE  TypeOK'
<1>1. PICK msg \in BagToSet(network) : msg.to = n /\ (Ignore(n, msg) \/ Handle(n, msg))
  BY DEF Receive
<1>2. msg \in Message /\ msg.frame \in Frame /\ msg.frame.id \in AllIds
  BY DEF TypeOK, Message, Frame, AllIds
<1>3. BagToSet(BagRemove(network, msg)) \subseteq Message
  BY BagOps DEF TypeOK, Message
<1>4. CASE Ignore(n, msg)
  BY <1>3, <1>4 DEF Ignore, TypeOK, Message
<1>5. CASE Handle(n, msg)
  <2>1. /\ BagToSet(network') \subseteq Message
        /\ DOMAIN waiting' = Node
        /\ \A m \in Node : BagToSet(waiting'[m]) \subseteq Frame
    <3>1. CASE Contains(sent[n], msg.frame.id)
      BY <1>3, <1>5, <3>1 DEF Handle, TypeOK
    <3>2. CASE ~Contains(sent[n], msg.frame.id)
      BY <1>2, <1>3, <1>5, <3>2, SendFrameTypeOK DEF Handle
    <3> QED
      BY <3>1, <3>2
  <2>2. /\ received' \in [Node -> Seq(AllIds)]
        /\ \A m \in Node : Len(received'[m]) <= MaxCacheSize
    <3> DEFINE new == InsertId(received[n], msg.frame.id, MaxCacheSize)
    <3>1. new \in Seq(AllIds) /\ Len(new) <= MaxCacheSize
      BY <1>2, InsertAny DEF TypeOK, AllIds
    <3>2. received' = [received EXCEPT ![n] = new]
      BY <1>5 DEF Handle, Remember
    <3> HIDE DEF new
    <3> QED
      BY <3>1, <3>2 DEF TypeOK, AllIds
  <2>3. handled' \in [Node -> Seq(Entry)]
    <3>1. IsForLocal(n, msg.frame.destination) \in BOOLEAN
      BY DEF IsForLocal, Matches, IsMulticast
    <3> DEFINE entry == [frame |-> msg.frame,
                         delivered |-> IsForLocal(n, msg.frame.destination)]
    <3>2. entry \in Entry
      BY <1>2, <3>1 DEF Entry
    <3>3. handled' = [handled EXCEPT ![n] = Append(handled[n], entry)]
      BY <1>5 DEF Handle
    <3>4. handled \in [Node -> Seq(Entry)]
      BY DEF TypeOK, Entry
    <3> HIDE DEF entry
    <3>5. Append(handled[n], entry) \in Seq(Entry)
      BY <3>2, <3>4
    <3> QED
      BY <3>3, <3>4, <3>5
  <2> QED
    BY <1>5, <2>1, <2>2, <2>3 DEF Handle, TypeOK, Message, AllIds, Entry
<1> QED
  BY <1>1, <1>4, <1>5

LEMMA StepTypeOK == TypeOK /\ [Next]_vars => TypeOK'
<1> SUFFICES ASSUME TypeOK, [Next]_vars PROVE TypeOK'
  OBVIOUS
<1>1. ASSUME NEW n \in Node, NEW d \in Wanted[n], Send(n, d) PROVE TypeOK'
  BY <1>1, SendTypeOK
<1>2. ASSUME NEW n \in Node, Forward(n) PROVE TypeOK'
  BY <1>2, ForwardTypeOK
<1>3. ASSUME NEW n \in Node, Receive(n) PROVE TypeOK'
  BY <1>3, ReceiveTypeOK
<1>4. CASE UNCHANGED vars
  BY <1>4 DEF vars, TypeOK
<1> QED
  BY <1>1, <1>2, <1>3, <1>4 DEF Next

(* Every variable keeps the shape that the code's classes give it, in every *)
(* network.                                                                 *)
THEOREM RoutingTypeCorrect == Spec => []TypeOK
<1> QED
  BY InitTypeOK, StepTypeOK, PTL DEF Spec

-----------------------------------------------------------------------------
(* Repeats. *)

CacheInv == TypeOK /\ RemembersLatest /\ RepeatsAreFarApart

(* What a frame that is taken up adds to the history and to the cache.      *)
LEMMA HandleExtends ==
  ASSUME TypeOK, NEW n \in Node, NEW msg \in BagToSet(network), Handle(n, msg)
  PROVE  \E entry \in Entry :
           /\ entry.frame.id = msg.frame.id
           /\ handled' = [handled EXCEPT ![n] = Append(handled[n], entry)]
           /\ received' = [received EXCEPT
                ![n] = InsertId(received[n], entry.frame.id, MaxCacheSize)]
           /\ ~Contains(received[n], entry.frame.id)
<1> DEFINE entry == [frame |-> msg.frame,
                     delivered |-> IsForLocal(n, msg.frame.destination)]
<1>1. msg.frame \in Frame
  BY DEF TypeOK
<1>2. IsForLocal(n, msg.frame.destination) \in BOOLEAN
  BY DEF IsForLocal, Matches, IsMulticast
<1>3. entry \in Entry /\ entry.frame = msg.frame
  BY <1>1, <1>2 DEF Entry
<1>4. /\ handled' = [handled EXCEPT ![n] = Append(handled[n], entry)]
      /\ received' = [received EXCEPT
           ![n] = InsertId(received[n], msg.frame.id, MaxCacheSize)]
      /\ ~Contains(received[n], msg.frame.id)
  BY DEF Handle, Remember
<1> HIDE DEF entry
<1> QED
  BY <1>3, <1>4

(* The cache follows the end of the history. *)
LEMMA HandleRemembersLatest ==
  ASSUME TypeOK, RemembersLatest, NEW n \in Node, NEW msg \in BagToSet(network),
         Handle(n, msg)
  PROVE  RemembersLatest'
<1>1. PICK entry \in Entry :
        /\ handled' = [handled EXCEPT ![n] = Append(handled[n], entry)]
        /\ received' = [received EXCEPT
             ![n] = InsertId(received[n], entry.frame.id, MaxCacheSize)]
        /\ ~Contains(received[n], entry.frame.id)
  BY HandleExtends
<1> DEFINE h == handled[n]
           r == received[n]
           id == entry.frame.id
           newH == Append(h, entry)
           newR == InsertId(r, id, MaxCacheSize)
<1>2. h \in Seq(Entry) /\ r \in Seq(AllIds) /\ id \in AllIds
  BY DEF TypeOK, Entry, AllIds, Frame
<1>3. MaxCacheSize \in Nat \ {0}
  BY LimitsAssumption
<1>4. /\ Len(r) = IF Len(h) < MaxCacheSize THEN Len(h) ELSE MaxCacheSize
      /\ \A k \in 1..Len(r) : r[k] = h[Len(h) - Len(r) + k].frame.id
  BY DEF RemembersLatest
<1>5. /\ Len(r) < MaxCacheSize => newR = Append(r, id)
      /\ Len(r) = MaxCacheSize => newR = Tail(Append(r, id))
  BY <1>1, <1>2, <1>3, <1>4, InsertNew
<1>6. /\ Len(newR) = IF Len(newH) < MaxCacheSize THEN Len(newH) ELSE MaxCacheSize
      /\ \A k \in 1..Len(newR) : newR[k] = newH[Len(newH) - Len(newR) + k].frame.id
  <2> HIDE DEF h, r, id
  <2>1. CASE Len(h) < MaxCacheSize
    <3>1. newR = Append(r, id) /\ Len(newR) = Len(h) + 1 /\ Len(newH) = Len(h) + 1
      BY <1>2, <1>3, <1>4, <1>5, <2>1
    <3>2. \A k \in 1..Len(newR) : newR[k] = newH[k].frame.id
      BY <1>2, <1>4, <2>1, <3>1 DEF id
    <3> QED
      BY <1>3, <2>1, <3>1, <3>2
  <2>2. CASE Len(h) >= MaxCacheSize
    <3>1. Len(r) = MaxCacheSize /\ newR = Tail(Append(r, id))
      BY <1>2, <1>3, <1>4, <1>5, <2>2
    <3>2. Len(newR) = MaxCacheSize /\ Len(newH) = Len(h) + 1
      BY <1>2, <1>3, <3>1
    <3>3. ASSUME NEW k \in 1..MaxCacheSize
          PROVE  newR[k] = newH[Len(h) + 1 - MaxCacheSize + k].frame.id
      <4>1. newR[k] = Append(r, id)[k + 1]
        BY <1>2, <1>3, <3>1
      <4>2. k < MaxCacheSize => newR[k] = r[k + 1]
        BY <1>2, <1>3, <3>1, <4>1
      <4>3. k = MaxCacheSize => newR[k] = id
        BY <1>2, <1>3, <3>1, <4>1
      <4>4. newH[Len(h) + 1] = entry /\ \A i \in 1..Len(h) : newH[i] = h[i]
        BY <1>2
      <4>5. k < MaxCacheSize => r[k + 1] = h[Len(h) - MaxCacheSize + (k + 1)].frame.id
        <5>1. k < MaxCacheSize => k + 1 \in 1..Len(r)
          BY <1>3, <3>1
        <5>2. Len(h) - Len(r) + (k + 1) = Len(h) - MaxCacheSize + (k + 1)
          BY <3>1
        <5> QED
          BY <1>4, <5>1, <5>2
      <4>6. k < MaxCacheSize =>
              /\ Len(h) + 1 - MaxCacheSize + k \in 1..Len(h)
              /\ Len(h) - MaxCacheSize + (k + 1) = Len(h) + 1 - MaxCacheSize + k
        BY <1>2, <1>3, <2>2
      <4>7. k = MaxCacheSize => Len(h) + 1 - MaxCacheSize + k = Len(h) + 1
        BY <1>2, <1>3
      <4>8. k < MaxCacheSize \/ k = MaxCacheSize
        BY <1>3
      <4> HIDE DEF newH, newR
      <4> QED
        BY <4>2, <4>3, <4>4, <4>5, <4>6, <4>7, <4>8 DEF id
    <3>4. MaxCacheSize <= Len(newH) /\ Len(newH) - Len(newR) = Len(h) + 1 - MaxCacheSize
      BY <1>2, <1>3, <2>2, <3>2
    <3> HIDE DEF newH, newR
    <3> QED
      BY <1>2, <1>3, <2>2, <3>2, <3>3, <3>4
  <2>3. Len(h) \in Nat /\ MaxCacheSize \in Nat
    BY <1>2, <1>3
  <2> HIDE DEF newH, newR
  <2> QED
    BY <2>1, <2>2, <2>3
<1>7. handled'[n] = newH /\ received'[n] = newR
  BY <1>1 DEF TypeOK
<1>8. \A m \in Node \ {n} : handled'[m] = handled[m] /\ received'[m] = received[m]
  BY <1>1 DEF TypeOK
<1> HIDE DEF newH, newR
<1>9. ASSUME NEW m \in Node
      PROVE  /\ Len(received'[m]) = IF Len(handled'[m]) < MaxCacheSize
                                    THEN Len(handled'[m]) ELSE MaxCacheSize
             /\ \A k \in 1..Len(received'[m]) :
                  received'[m][k] =
                    handled'[m][Len(handled'[m]) - Len(received'[m]) + k].frame.id
  <2>1. CASE m = n
    BY <1>6, <1>7, <2>1
  <2>2. CASE m # n
    BY <1>8, <2>2 DEF RemembersLatest
  <2> QED
    BY <2>1, <2>2
<1> QED
  BY <1>9 DEF RemembersLatest

(* Were a frame among the last ones, its id would be in the cache.          *)
LEMMA HandleRepeatsFarApart ==
  ASSUME CacheInv, NEW n \in Node, NEW msg \in BagToSet(network), Handle(n, msg)
  PROVE  RepeatsAreFarApart'
<1> USE DEF CacheInv
<1>1. PICK entry \in Entry :
        /\ handled' = [handled EXCEPT ![n] = Append(handled[n], entry)]
        /\ ~Contains(received[n], entry.frame.id)
  BY HandleExtends
<1> DEFINE h == handled[n]
           r == received[n]
<1>2. h \in Seq(Entry) /\ r \in Seq(AllIds) /\ MaxCacheSize \in Nat \ {0}
  BY LimitsAssumption DEF TypeOK, Entry, AllIds
<1>3. /\ Len(r) = IF Len(h) < MaxCacheSize THEN Len(h) ELSE MaxCacheSize
      /\ \A k \in 1..Len(r) : r[k] = h[Len(h) - Len(r) + k].frame.id
  BY DEF RemembersLatest
<1>4. \A k \in 1..Len(r) : r[k] # entry.frame.id
  BY <1>1 DEF Contains
<1>5. ASSUME NEW i \in DOMAIN h, h[i].frame.id = entry.frame.id
      PROVE  Len(h) + 1 - i > MaxCacheSize
  <2> HIDE DEF h, r
  <2> SUFFICES ASSUME Len(h) + 1 - i <= MaxCacheSize PROVE FALSE
    BY <1>2
  <2> DEFINE k == i - (Len(h) - Len(r))
  <2>1. k \in 1..Len(r) /\ Len(h) - Len(r) + k = i
    BY <1>2, <1>3
  <2> QED
    BY <1>3, <1>4, <1>5, <2>1
<1>6. handled'[n] = Append(h, entry)
  BY <1>1 DEF TypeOK
<1>7. \A m \in Node \ {n} : handled'[m] = handled[m]
  BY <1>1 DEF TypeOK
<1>8. \A i, j \in DOMAIN h : i < j /\ h[i].frame.id = h[j].frame.id => j - i > MaxCacheSize
  BY DEF RepeatsAreFarApart
<1>9. ASSUME NEW i \in DOMAIN Append(h, entry), NEW j \in DOMAIN Append(h, entry),
             i < j, Append(h, entry)[i].frame.id = Append(h, entry)[j].frame.id
      PROVE  j - i > MaxCacheSize
  <2> HIDE DEF h
  <2>1. i \in DOMAIN h /\ Append(h, entry)[i] = h[i]
    BY <1>2, <1>9
  <2>2. CASE j \in DOMAIN h
    BY <1>2, <1>8, <1>9, <2>1, <2>2
  <2>3. CASE j = Len(h) + 1
    BY <1>2, <1>5, <1>9, <2>1, <2>3
  <2> QED
    BY <1>2, <2>2, <2>3
<1> HIDE DEF h
<1> QED
  BY <1>6, <1>7, <1>9 DEF RepeatsAreFarApart

LEMMA InitCacheInv == Init => CacheInv
<1> SUFFICES ASSUME Init PROVE CacheInv
  OBVIOUS
<1>1. MaxCacheSize \in Nat \ {0}
  BY LimitsAssumption
<1> QED
  BY <1>1, InitTypeOK DEF Init, CacheInv, RemembersLatest, RepeatsAreFarApart

LEMMA StepCacheInv == CacheInv /\ [Next]_vars => CacheInv'
<1> SUFFICES ASSUME CacheInv, [Next]_vars PROVE CacheInv'
  OBVIOUS
<1>1. TypeOK'
  BY StepTypeOK DEF CacheInv
<1>2. CASE handled' = handled /\ received' = received
  BY <1>1, <1>2 DEF CacheInv, RemembersLatest, RepeatsAreFarApart
<1>3. ASSUME NEW n \in Node, NEW msg \in BagToSet(network), Handle(n, msg)
      PROVE  CacheInv'
  BY <1>1, <1>3, HandleRemembersLatest, HandleRepeatsFarApart DEF CacheInv
<1>4. ASSUME NEW n \in Node, Receive(n) PROVE CacheInv'
  BY <1>2, <1>3, <1>4 DEF Receive, Ignore
<1>5. ASSUME NEW n \in Node, NEW d \in Wanted[n], Send(n, d) PROVE CacheInv'
  BY <1>2, <1>5 DEF Send
<1>6. ASSUME NEW n \in Node, Forward(n) PROVE CacheInv'
  BY <1>2, <1>6 DEF Forward
<1>7. CASE UNCHANGED vars
  BY <1>2, <1>7 DEF vars
<1> QED
  BY <1>4, <1>5, <1>6, <1>7 DEF Next

(* No node delivers or relays a frame again before it has taken up          *)
(* MaxCacheSize others.                                                     *)
THEOREM FramesAreTakenUpOnce == Spec => []RepeatsAreFarApart
<1>1. CacheInv => RepeatsAreFarApart
  BY DEF CacheInv
<1> QED
  BY <1>1, InitCacheInv, StepCacheInv, PTL DEF Spec
=============================================================================
