------------------------ MODULE TrustedSocket_proofs ------------------------
(***************************************************************************)
(* Proofs about TrustedSocket.  The types of its state; the handshakes that *)
(* open and close a connection: a socket is open only when the other end   *)
(* has answered, reports the state that it is in, and closes without an    *)
(* error only when both ends agree to.  Then what becomes of data: a       *)
(* send() which resolves Ok was delivered, delivery is in order, without   *)
(* loss or repetition, while both ends stay open, the sockets of one       *)
(* connection implement ReliableChannel, and a close forgets no send but   *)
(* the one in flight.                                                      *)
(***************************************************************************)
EXTENDS TrustedSocketInv, FiniteSetTheorems, TLAPS

-----------------------------------------------------------------------------
(* Bags. *)

LEMMA PlusBag ==
  ASSUME NEW B, IsABag(B), NEW S
  PROVE  IsABag(Plus(B, S)) /\ BagToSet(Plus(B, S)) = BagToSet(B) \cup S
  BY DEF IsABag, Plus, SetToBag, BagToSet, (+)

LEMMA MinusBag ==
  ASSUME NEW B, IsABag(B), NEW e
  PROVE  IsABag(Minus(B, e)) /\ BagToSet(Minus(B, e)) \subseteq BagToSet(B)
  BY DEF IsABag, Minus, SetToBag, BagToSet, (-)

LEMMA EmptyBagIsABag == IsABag(EmptyBag) /\ BagToSet(EmptyBag) = {}
  BY DEF IsABag, EmptyBag, SetToBag, BagToSet

-----------------------------------------------------------------------------
(* Actions and frames. *)

LEMMA NewSendType ==
  \A body \in Body : NewSend(body) \in SendAction /\ NewAckSend(body) \in SendAction
  BY RetryCountAssumption DEF NewSend, NewAckSend, SendAction

LEMMA ControlType ==
  \A type \in RequestType \cup ControlAckType : Control(type) \in Body
  BY DEF Control, Body, ControlBody

LEMMA DataBodyType ==
  \A seq, ack, payload \in Nat :
    Data(seq, ack, payload) \in DataBody /\ DataAck(ack) \in Body
  BY DEF Data, DataBody, Body, DataAck, DataAckBody

LEMMA ModuloNat ==
  \A n \in Nat : n % SeqModulus \in Nat /\ n % SeqModulus <= n /\ n % SeqModulus < SeqModulus
  BY SeqModulusAssumption

LEMMA WireType == \A body \in Body : Wire(body) \in Body
<1> SUFFICES ASSUME NEW body \in Body PROVE Wire(body) \in Body
  OBVIOUS
<1>1. CASE body \in ControlBody
  BY <1>1 DEF Wire, Body, ControlBody, RequestType, ControlAckType
<1>2. CASE body \in DataBody
  BY <1>2, ModuloNat DEF Wire, Body, DataBody, Data
<1>3. CASE body \in DataAckBody
  BY <1>3, ModuloNat DEF Wire, Body, DataAckBody, DataAck
<1> QED BY <1>1, <1>2, <1>3 DEF Body

LEMMA RetryType ==
  ASSUME NEW action \in SendAction
  PROVE  /\ Retryable(action) => RetryAfterFailure(action) \in SendAction
         /\ AckSendRetryable(action) => RetryAck(action) \in SendAction
         /\ AckTimeout(action) \in AckTimeoutAction
<1>1. Retryable(action) => RetryAfterFailure(action) \in SendAction
  BY RetryCountAssumption DEF SendAction, Retryable, RetryAfterFailure
<1>2. ~AckSendRetryable(action)
  BY DEF SendAction, AckSendRetryable
<1>3. AckTimeout(action) \in AckTimeoutAction
  BY DEF SendAction, AckTimeout, AckTimeoutAction
<1> QED BY <1>1, <1>2, <1>3

LEMMA AckTimeoutRetryType ==
  ASSUME NEW timeout \in AckTimeoutAction, AckTimeoutRetryable(timeout)
  PROVE  RetryAfterAckTimeout(timeout) \in SendAction
  BY RetryCountAssumption
     DEF AckTimeoutAction, AckTimeoutRetryable, RetryAfterAckTimeout, SendAction
-----------------------------------------------------------------------------
(* The type invariant, in the parts that the building blocks of the actions *)
(* write.                                                                   *)

HookType ==
  /\ state \in [Peer -> {"opening", "open", "closing", "closed"}]
  /\ connecting \in [Peer -> PromiseState]
  /\ closing \in [Peer -> PromiseState]
  /\ isOpen \in [Peer -> BOOLEAN]
  /\ everClosed \in [Peer -> BOOLEAN]
  /\ failed \in [Peer -> BOOLEAN]

ShakeType == syn \in [Peer -> SynState] /\ fin \in [Peer -> FinState]

DataType ==
  /\ nextReceive \in [Peer -> Nat]
  /\ nextSend \in [Peer -> Nat]
  /\ sendingFrame \in [Peer -> DataBody \cup {NoFrame}]
  /\ sendPendingFrames \in [Peer -> Seq(Nat)]
  /\ result \in [Peer -> Seq(SendResult)]
  /\ received \in [Peer -> Seq(Nat)]

BagType ==
  /\ BagsOf(sending, SendAction)
  /\ BagsOf(timers, AckTimeoutAction)
  /\ BagsOf(network, Body)

RestType ==
  /\ phase \in [Peer -> {"none", "live", "rejected"}]
  /\ retryThrew \in [Peer -> BOOLEAN]

LEMMA TypeParts ==
  TypeOK <=> HookType /\ ShakeType /\ DataType /\ BagType /\ RestType
  BY DEF TypeOK, HookType, ShakeType, DataType, BagType, RestType

LEMMA TypePartsNext ==
  ASSUME HookType', ShakeType', DataType', BagType', RestType'
  PROVE  TypeOK'
  BY DEF TypeOK, HookType, ShakeType, DataType, BagType, RestType

LEMMA OtherType ==
  \A p \in Peer : Other(p) \in Peer /\ Other(p) # p /\ Other(Other(p)) = p
  BY PeerAssumption DEF Peer, Other

LEMMA BagsPlus ==
  ASSUME NEW f, NEW S, BagsOf(f, S), NEW p \in Peer, NEW new \in SUBSET S
  PROVE  BagsOf([f EXCEPT ![p] = Plus(@, new)], S)
  BY PlusBag DEF BagsOf

LEMMA BagsMinus ==
  ASSUME NEW f, NEW S, BagsOf(f, S), NEW p \in Peer, NEW e
  PROVE  BagsOf([f EXCEPT ![p] = Minus(@, e)], S)
  BY MinusBag DEF BagsOf

LEMMA BagsReplace ==
  ASSUME NEW f, NEW S, BagsOf(f, S), NEW p \in Peer, NEW e, NEW new \in SUBSET S
  PROVE  BagsOf([f EXCEPT ![p] = Plus(Minus(@, e), new)], S)
  BY PlusBag, MinusBag DEF BagsOf

LEMMA StayType ==
  ASSUME TypeOK, NEW p \in Peer, Stay(p)
  PROVE  HookType'
  BY DEF TypeOK, HookType, Stay, SocketActionHook, PromiseState

LEMMA OpenType ==
  ASSUME TypeOK, NEW p \in Peer, Open(p)
  PROVE  HookType'
  BY DEF TypeOK, HookType, Open, SocketActionHook, PromiseState

LEMMA OpenIfDoneType ==
  ASSUME TypeOK, NEW p \in Peer, OpenIfDone(p)
  PROVE  HookType'
  BY StayType, OpenType DEF OpenIfDone

LEMMA ResolveType ==
  ASSUME NEW results \in Seq(SendResult), NEW sends, NEW value \in SendResult
  PROVE  Resolve(results, sends, value) \in Seq(SendResult)
<1>1. Resolve(results, sends, value) \in [1..Len(results) -> SendResult]
  BY DEF Resolve
<1> QED BY <1>1

LEMMA CloseType ==
  ASSUME TypeOK, NEW p \in Peer, NEW error \in BOOLEAN, NEW timedOut,
         Close(p, error, timedOut)
  PROVE  HookType' /\ ShakeType' /\ DataType'
<1>1. HookType'
  BY DEF TypeOK, HookType, Close, PromiseState
<1>2. ShakeType'
  BY DEF TypeOK, ShakeType, Close, NoHandshake, SynState, FinState
<1>3. DataType'
  <2>1. result' \in [Peer -> Seq(SendResult)]
    BY ResolveType DEF TypeOK, Close, SendResult
  <2> QED BY <2>1 DEF TypeOK, DataType, Close
<1> QED BY <1>1, <1>2, <1>3

LEMMA StartSendsType ==
  ASSUME TypeOK, NEW p \in Peer, NEW actions \in SUBSET SendAction,
         StartSends(p, actions)
  PROVE  BagsOf(sending', SendAction)
  BY BagsPlus DEF TypeOK, StartSends

LEMMA ReceiveType ==
  ASSUME TypeOK, NEW p \in Peer, NEW body, Receive(p, body)
  PROVE  BagsOf(network', Body) /\ BagsOf(timers', AckTimeoutAction) /\ RestType'
  BY BagsMinus DEF TypeOK, Receive, RestType

LEMMA TransmitType ==
  ASSUME TypeOK, NEW p \in Peer, NEW action \in SendAction, Transmit(p, action)
  PROVE  BagsOf(sending', SendAction) /\ BagsOf(network', Body) /\ RestType'
<1>1. {Wire(action.body)} \in SUBSET Body
  BY WireType DEF SendAction
<1>2. BagsOf(network', Body)
  <2>1. CASE UNCHANGED network
    BY <2>1 DEF TypeOK
  <2>2. CASE network' = [network EXCEPT ![Other(p)] =
                           Plus(@, {Wire(action.body)})]
    <3> DEFINE new == {Wire(action.body)}
    <3>1. Other(p) \in Peer /\ BagsOf(network, Body)
      BY OtherType DEF TypeOK
    <3>2. BagsOf([network EXCEPT ![Other(p)] = Plus(@, new)], Body)
      BY <1>1, <3>1, BagsPlus
    <3> QED BY <3>2, <2>2
  <2> QED BY <2>1, <2>2 DEF Transmit
<1>3. BagsOf(sending', SendAction) /\ RestType'
  BY BagsMinus DEF TypeOK, Transmit, RestType
<1> QED BY <1>2, <1>3

LEMMA StartTimerType ==
  ASSUME TypeOK, NEW p \in Peer, NEW action \in SendAction, StartTimer(p, action)
  PROVE  BagsOf(timers', AckTimeoutAction)
<1> DEFINE new == {AckTimeout(action)}
<1>1. new \in SUBSET AckTimeoutAction
  BY RetryType
<1>2. BagsOf([timers EXCEPT ![p] = Plus(@, new)], AckTimeoutAction)
  BY <1>1, BagsPlus DEF TypeOK
<1> QED BY <1>2 DEF StartTimer

LEMMA FailType ==
  ASSUME TypeOK, NEW p \in Peer, NEW action, NEW retries \in SUBSET SendAction,
         Fail(p, action, retries)
  PROVE  BagType' /\ phase' = phase
  BY BagsReplace DEF TypeOK, Fail, BagType

LEMMA ExpireType ==
  ASSUME TypeOK, NEW p \in Peer, NEW timeout, NEW retries \in SUBSET SendAction,
         Expire(p, timeout, retries)
  PROVE  BagType' /\ RestType'
  BY BagsMinus, StartSendsType DEF TypeOK, Expire, BagType, RestType

LEMMA InBag ==
  ASSUME TypeOK, NEW p \in Peer
  PROVE  /\ \A action : BagIn(action, sending[p]) => action \in SendAction
         /\ \A timeout : BagIn(timeout, timers[p]) => timeout \in AckTimeoutAction
         /\ \A body : BagIn(body, network[p]) => body \in Body
  BY DEF TypeOK, BagsOf, BagIn

LEMMA SynRepliesType == \A s : SynReplies(s) \in SUBSET SendAction
  BY NewSendType, ControlType DEF SynReplies, RequestType, ControlAckType

LEMMA FinRepliesType == \A f : FinReplies(f) \in SUBSET SendAction
  BY NewSendType, ControlType DEF FinReplies, RequestType, ControlAckType

LEMMA NextFrameType ==
  ASSUME TypeOK, NEW p \in Peer, NEW queue \in Seq(Nat), NEW seq \in Nat,
         NEW actions \in SUBSET SendAction,
         SendNextFrame(p, queue, seq, actions)
  PROVE  /\ sendingFrame' \in [Peer -> DataBody \cup {NoFrame}]
         /\ sendPendingFrames' \in [Peer -> Seq(Nat)]
         /\ BagsOf(sending', SendAction)
<1>1. CASE queue = <<>>
  BY <1>1, StartSendsType DEF SendNextFrame, TypeOK
<1>2. CASE queue # <<>>
  <2> DEFINE frame == Data(seq, nextReceive[p], Head(queue))
  <2>1. Head(queue) \in Nat /\ Tail(queue) \in Seq(Nat)
    BY <1>2
  <2>2. frame \in DataBody /\ frame \in Body
    BY <2>1, DataBodyType DEF TypeOK, Body
  <2>3. actions \cup {NewSend(frame)} \in SUBSET SendAction
    BY <2>2, NewSendType
  <2>4. BagsOf(sending', SendAction)
    BY <1>2, <2>3, StartSendsType DEF SendNextFrame
  <2>5. /\ sendingFrame' = [sendingFrame EXCEPT ![p] = frame]
        /\ sendPendingFrames' = [sendPendingFrames EXCEPT ![p] = Tail(queue)]
    BY <1>2 DEF SendNextFrame
  <2> HIDE DEF frame
  <2> QED BY <2>1, <2>2, <2>4, <2>5 DEF TypeOK
<1> QED BY <1>1, <1>2

LEMMA AcknowledgeType ==
  ASSUME TypeOK, NEW p \in Peer, NEW ack \in Nat,
         NEW actions \in SUBSET SendAction,
         HandleAcknowledgeNumber(p, ack, actions)
  PROVE  /\ sendingFrame' \in [Peer -> DataBody \cup {NoFrame}]
         /\ sendPendingFrames' \in [Peer -> Seq(Nat)]
         /\ nextSend' \in [Peer -> Nat]
         /\ result' \in [Peer -> Seq(SendResult)]
         /\ BagsOf(sending', SendAction)
<1>1. CASE Acknowledges(p, ack)
  <2>1. sendPendingFrames[p] \in Seq(Nat)
    BY DEF TypeOK
  <2> DEFINE settled == Resolve(result[p], {sendingFrame[p].payload}, "ok")
  <2>2. settled \in Seq(SendResult)
    <3>1. result[p] \in Seq(SendResult) /\ "ok" \in SendResult
      BY DEF TypeOK, SendResult
    <3> QED BY <3>1, ResolveType
  <2>3. result' = [result EXCEPT ![p] = settled]
    BY <1>1 DEF HandleAcknowledgeNumber
  <2>4. result' \in [Peer -> Seq(SendResult)]
    BY <2>2, <2>3 DEF TypeOK
  <2>5. nextSend' \in [Peer -> Nat]
    BY <1>1 DEF HandleAcknowledgeNumber, TypeOK
  <2>6. SendNextFrame(p, sendPendingFrames[p], ack, actions)
    BY <1>1 DEF HandleAcknowledgeNumber
  <2> QED BY <2>1, <2>4, <2>5, <2>6, NextFrameType
<1>2. CASE ~Acknowledges(p, ack)
  BY <1>2, StartSendsType DEF HandleAcknowledgeNumber, TypeOK
<1> QED BY <1>1, <1>2

LEMMA RetrySetType ==
  ASSUME NEW action \in SendAction, NEW timeout \in AckTimeoutAction, NEW c \in BOOLEAN
  PROVE  /\ c /\ Retryable(action) => {RetryAfterFailure(action)} \in SUBSET SendAction
         /\ c /\ AckSendRetryable(action) => {RetryAck(action)} \in SUBSET SendAction
         /\ c /\ AckTimeoutRetryable(timeout) =>
              {RetryAfterAckTimeout(timeout)} \in SUBSET SendAction
  BY RetryType, AckTimeoutRetryType

LEMMA TypeInit == Init => TypeOK
<1> SUFFICES ASSUME Init PROVE TypeOK
  OBVIOUS
<1>1. HookType /\ ShakeType /\ DataType /\ RestType
  BY DEF Init, HookType, ShakeType, DataType, RestType, PromiseState,
         NoHandshake, SynState, FinState
<1>2. BagType
  BY EmptyBagIsABag DEF Init, BagType, BagsOf
<1> QED BY <1>1, <1>2, TypeParts

(* Every step keeps the types: one lemma per group of actions, in the order *)
(* of TrustedSocket.                                                        *)

LEMMA StayAllType ==
  ASSUME TypeOK, NEW p \in Peer, UNCHANGED <<syn, fin, dataVars>>, Stay(p)
  PROVE  HookType' /\ ShakeType' /\ DataType'
  BY StayType DEF TypeOK, ShakeType, DataType, dataVars

LEMMA OpeningType ==
  ASSUME TypeOK, Connect \/ Accept \/ Reject
  PROVE  TypeOK'
<1>0. Client \in Peer /\ Server \in Peer
  BY DEF Peer
<1>1. CASE Connect
  <2> DEFINE new == {NewSend(Control("syn"))}
  <2>1. new \in SUBSET SendAction
    BY NewSendType, ControlType DEF RequestType
  <2>2. BagsOf(sending', SendAction)
    BY <1>0, <1>1, <2>1, StartSendsType DEF Connect
  <2>3. HookType' /\ ShakeType' /\ DataType' /\ RestType' /\ BagsOf(timers', AckTimeoutAction)
          /\ BagsOf(network', Body)
    BY <1>0, <1>1 DEF Connect, TypeOK, HookType, ShakeType, DataType, RestType,
               PromiseState, dataVars, historyVars
  <2> QED BY <2>2, <2>3, TypePartsNext DEF BagType
<1>2. CASE Accept
  <2>1. BagsOf(sending', SendAction)
    BY <1>0, <1>2, SynRepliesType, StartSendsType DEF Accept
  <2>2. BagsOf(network', Body)
    BY <1>0, <1>2, BagsMinus DEF Accept, TypeOK
  <2>3. ShakeType'
    BY <1>2 DEF Accept, TypeOK, ShakeType, SynState
  <2>4. HookType' /\ DataType' /\ RestType' /\ BagsOf(timers', AckTimeoutAction)
    BY <1>2 DEF Accept, TypeOK, HookType, DataType, RestType, PromiseState,
               dataVars, historyVars
  <2> QED BY <2>1, <2>2, <2>3, <2>4, TypePartsNext DEF BagType
<1>3. CASE Reject
  <2>1. BagsOf(network', Body)
    <3>1. PICK body : network' = [network EXCEPT ![Server] = Minus(@, body)]
      BY <1>3 DEF Reject
    <3>2. BagsOf(network, Body)
      BY DEF TypeOK
    <3> QED BY <1>0, <3>1, <3>2, BagsMinus
  <2>2. HookType' /\ ShakeType' /\ DataType' /\ RestType' /\ BagsOf(timers', AckTimeoutAction)
          /\ BagsOf(sending', SendAction)
    BY <1>3 DEF Reject, TypeOK, HookType, ShakeType, DataType, RestType,
               dataVars, historyVars, promiseVars
  <2> QED BY <2>1, <2>2, TypePartsNext DEF BagType
<1> QED BY <1>1, <1>2, <1>3

(* The three ways a transmission or a timer ends. *)
LEMMA FailureType ==
  ASSUME TypeOK, NEW p \in Peer, NEW action, NEW retries \in SUBSET SendAction,
         Fail(p, action, retries), retryThrew' \in [Peer -> BOOLEAN],
         \/ Close(p, TRUE, {})
         \/ UNCHANGED <<syn, fin, dataVars>> /\ Stay(p)
  PROVE  TypeOK'
<1>1. BagType' /\ RestType'
  BY FailType DEF RestType, TypeOK
<1>2. HookType' /\ ShakeType' /\ DataType'
  BY CloseType, StayAllType
<1> QED BY <1>1, <1>2, TypePartsNext

LEMMA TimeoutType ==
  ASSUME TypeOK, NEW p \in Peer, NEW timeout, NEW retries \in SUBSET SendAction,
         NEW timedOut, Expire(p, timeout, retries),
         \/ Close(p, TRUE, timedOut)
         \/ UNCHANGED <<syn, fin, dataVars>> /\ Stay(p)
  PROVE  TypeOK'
<1>1. BagType' /\ RestType'
  BY ExpireType
<1>2. HookType' /\ ShakeType' /\ DataType'
  BY CloseType, StayAllType
<1> QED BY <1>1, <1>2, TypePartsNext

LEMMA SendFailureType ==
  ASSUME TypeOK, NEW p \in Peer, NEW action \in BagToSet(sending[p]),
         OnSendFailure(p, action)
  PROVE  TypeOK'
<1>1. action \in SendAction
  BY DEF TypeOK, BagsOf
<1>2. retryThrew \in [Peer -> BOOLEAN]
  BY DEF TypeOK
<1>3. CASE OnSynSendFailure(p, action)
  <2> DEFINE retry == syn[p].outgoing = "yet" /\ Retryable(action)
             retries == IF retry THEN {RetryAfterFailure(action)} ELSE {}
  <2>1. retries \in SUBSET SendAction
    BY <1>1, RetryType
  <2> QED BY <1>2, <1>3, <2>1, FailureType DEF OnSynSendFailure
<1>4. CASE OnSynAckSendFailure(p, action)
  <2> DEFINE retry == syn[p].incoming = "syn received" /\ AckSendRetryable(action)
             retries == IF retry THEN {RetryAck(action)} ELSE {}
  <2>1. retries \in SUBSET SendAction
    BY <1>1, RetryType
  <2> QED BY <1>2, <1>4, <2>1, FailureType DEF OnSynAckSendFailure
<1>5. CASE OnSendDataFailure(p, action)
  <2> DEFINE retry == InFlight(p, action.body) /\ Retryable(action)
             retries == IF retry THEN {RetryAfterFailure(action)} ELSE {}
  <2>1. retries \in SUBSET SendAction
    BY <1>1, RetryType
  <2> QED BY <1>2, <1>5, <2>1, FailureType DEF OnSendDataFailure
<1>6. CASE OnSendDataAckFailure(p, action)
  <2> DEFINE retry == (/\ isOpen[p] /\ sendingFrame[p] # NoFrame
                       /\ action.body.ack = nextReceive[p])
                      /\ AckSendRetryable(action)
             retries == IF retry THEN {RetryAck(action)} ELSE {}
  <2>1. retries \in SUBSET SendAction
    BY <1>1, RetryType
  <2> QED BY <1>2, <1>6, <2>1, FailureType DEF OnSendDataAckFailure
<1>7. CASE OnFinSendFailure(p, action)
  <2> DEFINE retry == fin[p].outgoing = "yet" /\ Retryable(action)
             retries == IF retry THEN {RetryAfterFailure(action)} ELSE {}
  <2>1. retries \in SUBSET SendAction
    BY <1>1, RetryType
  <2> QED BY <1>2, <1>7, <2>1, FailureType DEF OnFinSendFailure
<1>8. CASE OnFinAckSendFailure(p, action)
  <2> DEFINE waiting == fin[p].incoming = "fin received"
             retry == /\ waiting
                      /\ ~(waiting /\ action.retry = 0)
                      /\ AckSendRetryable(action)
             retries == IF retry THEN {RetryAck(action)} ELSE {}
  <2>1. retries \in SUBSET SendAction
    BY <1>1, RetryType
  <2>2. retryThrew' \in [Peer -> BOOLEAN]
    BY <1>2, <1>8 DEF OnFinAckSendFailure
  <2> QED BY <1>8, <2>1, <2>2, FailureType DEF OnFinAckSendFailure
<1> QED BY <1>3, <1>4, <1>5, <1>6, <1>7, <1>8 DEF OnSendFailure

LEMMA AckTimeoutStepType ==
  ASSUME TypeOK, NEW p \in Peer, NEW timeout \in BagToSet(timers[p]),
         OnReceiveAckTimeout(p, timeout)
  PROVE  TypeOK'
<1>1. timeout \in AckTimeoutAction
  BY DEF TypeOK, BagsOf
<1>2. CASE OnSynAckReceiveTimeout(p, timeout)
  <2> DEFINE retry == syn[p].outgoing = "syn sent" /\ AckTimeoutRetryable(timeout)
             retries == IF retry THEN {RetryAfterAckTimeout(timeout)} ELSE {}
  <2>1. retries \in SUBSET SendAction
    BY <1>1, AckTimeoutRetryType
  <2> QED BY <1>2, <2>1, TimeoutType DEF OnSynAckReceiveTimeout
<1>3. CASE OnReceiveDataAckTimeout(p, timeout)
  <2> DEFINE retry == InFlight(p, timeout.body) /\ AckTimeoutRetryable(timeout)
             retries == IF retry THEN {RetryAfterAckTimeout(timeout)} ELSE {}
  <2>1. retries \in SUBSET SendAction
    BY <1>1, AckTimeoutRetryType
  <2> QED BY <1>3, <2>1, TimeoutType DEF OnReceiveDataAckTimeout
<1>4. CASE OnFinAckReceiveTimeout(p, timeout)
  <2> DEFINE retry == fin[p].outgoing = "fin sent" /\ AckTimeoutRetryable(timeout)
             retries == IF retry THEN {RetryAfterAckTimeout(timeout)} ELSE {}
  <2>1. retries \in SUBSET SendAction
    BY <1>1, AckTimeoutRetryType
  <2> QED BY <1>4, <2>1, TimeoutType DEF OnFinAckReceiveTimeout
<1> QED BY <1>2, <1>3, <1>4 DEF OnReceiveAckTimeout

(* A handler that moves one handshake and may open the socket. *)
LEMMA SynStepType ==
  ASSUME TypeOK, NEW p \in Peer, BagType', RestType',
         NEW next \in SynState, syn' = [syn EXCEPT ![p] = next],
         UNCHANGED <<fin, dataVars>>,
         Stay(p) \/ OpenIfDone(p)
  PROVE  TypeOK'
<1>1. ShakeType' /\ DataType'
  BY DEF TypeOK, ShakeType, DataType, dataVars
<1>2. HookType'
  BY StayType, OpenIfDoneType
<1> QED BY <1>1, <1>2, TypePartsNext

(* A handler that moves the other one and may close it. *)
LEMMA CloseIfDoneType ==
  ASSUME TypeOK, NEW p \in Peer, NEW next \in FinState, CloseIfDone(p, next)
  PROVE  HookType' /\ ShakeType' /\ DataType'
<1>1. CASE FinDone(next)
  BY <1>1, CloseType DEF CloseIfDone
<1>2. CASE ~FinDone(next)
  <2>1. ShakeType' /\ DataType'
    BY <1>2 DEF CloseIfDone, TypeOK, ShakeType, DataType, dataVars
  <2> QED BY <1>2, <2>1, StayType DEF CloseIfDone
<1> QED BY <1>1, <1>2

LEMMA TransmitTimerType ==
  ASSUME TypeOK, NEW p \in Peer, NEW action \in SendAction, Transmit(p, action),
         StartTimer(p, action) \/ UNCHANGED timers
  PROVE  BagType' /\ RestType'
<1>1. BagsOf(timers', AckTimeoutAction)
  BY StartTimerType DEF TypeOK
<1> QED BY <1>1, TransmitType DEF BagType

LEMMA SendSuccessType ==
  ASSUME TypeOK, NEW p \in Peer, NEW action \in BagToSet(sending[p]),
         OnSendSuccess(p, action)
  PROVE  TypeOK'
<1>1. action \in SendAction
  BY DEF TypeOK, BagsOf
<1>2. syn[p] \in SynState /\ fin[p] \in FinState
  BY DEF TypeOK
<1>3. CASE OnSynSendSuccess(p, action)
  <2> DEFINE next == [syn[p] EXCEPT !.outgoing = "syn sent"]
  <2>1. next \in SynState /\ syn' = [syn EXCEPT ![p] = next]
    BY <1>2, <1>3 DEF SynState, OnSynSendSuccess
  <2>2. BagType' /\ RestType'
    BY <1>1, <1>3, TransmitTimerType DEF OnSynSendSuccess
  <2> QED BY <1>3, <2>1, <2>2, SynStepType DEF OnSynSendSuccess
<1>4. CASE OnSynAckSendSuccess(p, action)
  <2>1. BagType' /\ RestType'
    BY <1>1, <1>4, TransmitTimerType DEF OnSynAckSendSuccess
  <2>2. CASE syn[p].incoming # "syn received"
    <3>1. UNCHANGED <<syn, fin, dataVars>> /\ Stay(p)
      BY <1>4, <2>2 DEF OnSynAckSendSuccess
    <3> QED BY <2>1, <3>1, StayAllType, TypePartsNext
  <2>3. CASE syn[p].incoming = "syn received"
    <3> DEFINE next == [syn[p] EXCEPT !.incoming = "syn ack sent"]
    <3>1. next \in SynState
      BY <1>2 DEF SynState
    <3>2. syn' = [syn EXCEPT ![p] = next] /\ OpenIfDone(p)
      BY <1>4, <2>3 DEF OnSynAckSendSuccess
    <3>3. UNCHANGED <<fin, dataVars>>
      BY <1>4 DEF OnSynAckSendSuccess
    <3> QED BY <2>1, <3>1, <3>2, <3>3, SynStepType
  <2> QED BY <2>2, <2>3
<1>5. CASE OnSendDataSuccess(p, action)
  <2>1. BagType' /\ RestType'
    BY <1>1, <1>5, TransmitTimerType DEF OnSendDataSuccess
  <2> QED BY <1>5, <2>1, StayAllType, TypePartsNext DEF OnSendDataSuccess
<1>6. CASE OnSendDataAckSuccess(p, action)
  <2>1. BagType' /\ RestType'
    BY <1>1, <1>6, TransmitTimerType DEF OnSendDataAckSuccess
  <2> QED BY <1>6, <2>1, StayAllType, TypePartsNext DEF OnSendDataAckSuccess
<1>7. CASE OnFinSendSuccess(p, action)
  <2>1. BagType' /\ RestType'
    BY <1>1, <1>7, TransmitTimerType DEF OnFinSendSuccess
  <2>2. ShakeType' /\ DataType'
    BY <1>2, <1>7 DEF OnFinSendSuccess, TypeOK, ShakeType, FinState, DataType, dataVars
  <2>3. HookType'
    BY <1>7, StayType DEF OnFinSendSuccess
  <2> QED BY <2>1, <2>2, <2>3, TypePartsNext
<1>8. CASE OnFinAckSendSuccess(p, action)
  <2>1. BagType' /\ RestType'
    BY <1>1, <1>8, TransmitTimerType DEF OnFinAckSendSuccess
  <2> DEFINE next == [fin[p] EXCEPT !.incoming = "fin ack sent"]
  <2>2. next \in FinState
    BY <1>2 DEF FinState
  <2>3. \/ UNCHANGED <<syn, fin, dataVars>> /\ Stay(p)
        \/ CloseIfDone(p, next)
    BY <1>8 DEF OnFinAckSendSuccess
  <2>4. HookType' /\ ShakeType' /\ DataType'
    BY <2>2, <2>3, StayAllType, CloseIfDoneType
  <2> QED BY <2>1, <2>4, TypePartsNext
<1> QED BY <1>3, <1>4, <1>5, <1>6, <1>7, <1>8 DEF OnSendSuccess

LEMMA ReceiveTypeOfData ==
  \A body \in Body :
    /\ body.type = "data" => body.seq \in Nat /\ body.ack \in Nat /\ body.payload \in Nat
    /\ body.type = "data ack" => body.ack \in Nat
  BY DEF Body, ControlBody, RequestType, ControlAckType, DataBody, DataAckBody

LEMMA ReceiveStepType ==
  ASSUME TypeOK, NEW p \in Peer, OnReceive(p)
  PROVE  TypeOK'
<1>1. syn[p] \in SynState /\ fin[p] \in FinState
  BY DEF TypeOK
<1>2. BagsOf(sending, SendAction)
  BY DEF TypeOK
<1>3. CASE OnSynReceived(p)
  <2> DEFINE next == [syn[p] EXCEPT !.incoming = "syn received"]
  <2>1. next \in SynState /\ syn' = [syn EXCEPT ![p] = next]
    BY <1>1, <1>3 DEF SynState, OnSynReceived
  <2>2. BagType' /\ RestType'
    BY <1>3, ReceiveType, SynRepliesType, StartSendsType DEF OnSynReceived, BagType
  <2> QED BY <1>3, <2>1, <2>2, SynStepType DEF OnSynReceived
<1>4. CASE OnSynAckReceived(p)
  <2>1. BagType' /\ RestType'
    BY <1>2, <1>4, ReceiveType DEF OnSynAckReceived, BagType
  <2>2. CASE syn[p].outgoing = "yet"
    <3>1. UNCHANGED <<syn, fin, dataVars>> /\ Stay(p)
      BY <1>4, <2>2 DEF OnSynAckReceived
    <3> QED BY <2>1, <3>1, StayAllType, TypePartsNext
  <2>3. CASE syn[p].outgoing # "yet"
    <3> DEFINE next == [syn[p] EXCEPT !.outgoing = "syn ack received"]
    <3>1. next \in SynState
      BY <1>1 DEF SynState
    <3>2. syn' = [syn EXCEPT ![p] = next] /\ OpenIfDone(p)
      BY <1>4, <2>3 DEF OnSynAckReceived
    <3>3. UNCHANGED <<fin, dataVars>>
      BY <1>4 DEF OnSynAckReceived
    <3> QED BY <2>1, <3>1, <3>2, <3>3, SynStepType
  <2> QED BY <2>2, <2>3
<1>5. CASE OnFinReceived(p)
  <2>1. FinReplies(fin[p]) \in SUBSET SendAction
    BY FinRepliesType
  <2>2. StartSends(p, FinReplies(fin[p]))
    BY <1>5 DEF OnFinReceived
  <2>3. BagType' /\ RestType'
    BY <1>5, <2>1, <2>2, ReceiveType, StartSendsType DEF OnFinReceived, BagType
  <2>4. ShakeType' /\ DataType'
    BY <1>1, <1>5 DEF OnFinReceived, TypeOK, ShakeType, FinState, DataType, dataVars
  <2>5. HookType'
    BY <1>5, StayType DEF OnFinReceived
  <2> QED BY <2>3, <2>4, <2>5, TypePartsNext
<1>6. CASE OnFinAckReceived(p)
  <2>1. BagType' /\ RestType'
    BY <1>2, <1>6, ReceiveType DEF OnFinAckReceived, BagType
  <2> DEFINE next == [fin[p] EXCEPT !.outgoing = "fin ack received"]
  <2>2. next \in FinState
    BY <1>1 DEF FinState
  <2>3. \/ UNCHANGED <<syn, fin, dataVars>> /\ Stay(p)
        \/ CloseIfDone(p, next)
    BY <1>6 DEF OnFinAckReceived
  <2>4. HookType' /\ ShakeType' /\ DataType'
    BY <2>2, <2>3, StayAllType, CloseIfDoneType
  <2> QED BY <2>1, <2>4, TypePartsNext
<1>7. ASSUME NEW body, OnDataWhenNotOpen(p, body)
      PROVE  TypeOK'
  <2>1. BagType' /\ RestType'
    BY <1>2, <1>7, ReceiveType DEF OnDataWhenNotOpen, BagType
  <2> QED BY <1>7, <2>1, StayAllType, TypePartsNext DEF OnDataWhenNotOpen
<1>8. ASSUME NEW body \in BagToSet(network[p]), OnDataReceived(p, body)
      PROVE  TypeOK'
  <2>1. body.seq \in Nat /\ body.ack \in Nat /\ body.payload \in Nat
    BY <1>8, ReceiveTypeOfData DEF TypeOK, BagsOf, OnDataReceived
  <2>2. nextReceive' \in [Peer -> Nat] /\ received' \in [Peer -> Seq(Nat)]
    <3>1. CASE IsNext(p, body)
      <4>1. /\ nextReceive' = [nextReceive EXCEPT ![p] = body.seq + 1]
            /\ received' = [received EXCEPT ![p] = Append(@, body.payload)]
        BY <1>8, <3>1 DEF OnDataReceived
      <4>2. nextReceive \in [Peer -> Nat] /\ received \in [Peer -> Seq(Nat)]
        BY DEF TypeOK
      <4> QED BY <2>1, <4>1, <4>2
    <3>2. CASE ~IsNext(p, body)
      BY <1>8, <3>2 DEF OnDataReceived, TypeOK
    <3> QED BY <3>1, <3>2
  <2> DEFINE answer == NewAckSend(DataAck(nextReceive'[p]))
             replies == IF body.seq > nextReceive[p] THEN {} ELSE {answer}
  <2>3. replies \in SUBSET SendAction
    BY <2>2, DataBodyType, NewSendType
  <2>4. HandleAcknowledgeNumber(p, body.ack, replies)
    BY <1>8 DEF OnDataReceived
  <2>5. DataType' /\ BagsOf(sending', SendAction)
    BY <2>1, <2>2, <2>3, <2>4, AcknowledgeType DEF DataType
  <2>6. BagType' /\ RestType'
    BY <1>8, <2>5, ReceiveType DEF OnDataReceived, BagType
  <2>7. HookType' /\ ShakeType'
    BY <1>8, StayType DEF OnDataReceived, TypeOK, ShakeType
  <2> QED BY <2>5, <2>6, <2>7, TypePartsNext
<1>9. ASSUME NEW body \in BagToSet(network[p]), OnDataAckReceived(p, body)
      PROVE  TypeOK'
  <2>1. body.ack \in Nat
    BY <1>9, ReceiveTypeOfData DEF TypeOK, BagsOf, OnDataAckReceived
  <2>2. HandleAcknowledgeNumber(p, body.ack, {})
    BY <1>9 DEF OnDataAckReceived
  <2>3. nextReceive' \in [Peer -> Nat] /\ received' \in [Peer -> Seq(Nat)]
    BY <1>9 DEF OnDataAckReceived, TypeOK
  <2>4. DataType' /\ BagsOf(sending', SendAction)
    BY <2>1, <2>2, <2>3, AcknowledgeType DEF DataType
  <2>5. BagType' /\ RestType'
    BY <1>9, <2>4, ReceiveType DEF OnDataAckReceived, BagType
  <2>6. HookType' /\ ShakeType'
    BY <1>9, StayType DEF OnDataAckReceived, TypeOK, ShakeType
  <2> QED BY <2>4, <2>5, <2>6, TypePartsNext
<1> QED BY <1>3, <1>4, <1>5, <1>6, <1>7, <1>8, <1>9 DEF OnReceive

LEMMA ApplicationType ==
  ASSUME TypeOK, NEW p \in Peer, Application(p)
  PROVE  TypeOK'
<1>1. CASE SendData(p)
  <2> DEFINE queue == Append(sendPendingFrames[p], Len(result[p]) + 1)
  <2>1. queue \in Seq(Nat) /\ nextSend[p] \in Nat
    BY DEF TypeOK
  <2>2. result' \in [Peer -> Seq(SendResult)]
    BY <1>1 DEF SendData, TypeOK, SendResult
  <2>3. /\ sendingFrame' \in [Peer -> DataBody \cup {NoFrame}]
        /\ sendPendingFrames' \in [Peer -> Seq(Nat)]
        /\ BagsOf(sending', SendAction)
    <3>1. CASE sendingFrame[p] = NoFrame
      <4>1. SendNextFrame(p, queue, nextSend[p], {})
        BY <1>1, <3>1 DEF SendData
      <4> HIDE DEF queue
      <4>2. {} \in SUBSET SendAction
        OBVIOUS
      <4> QED BY <2>1, <4>1, <4>2, NextFrameType
    <3>2. CASE sendingFrame[p] # NoFrame
      <4>1. sendPendingFrames' = [sendPendingFrames EXCEPT ![p] = queue]
        BY <1>1, <3>2 DEF SendData
      <4>2. UNCHANGED <<sending, sendingFrame>>
        BY <1>1, <3>2 DEF SendData
      <4> QED BY <2>1, <4>1, <4>2 DEF TypeOK
    <3> QED BY <3>1, <3>2
  <2>4. DataType'
    BY <1>1, <2>2, <2>3 DEF SendData, DataType, TypeOK
  <2>5. BagType' /\ RestType' /\ ShakeType'
    BY <1>1, <2>3 DEF SendData, BagType, RestType, ShakeType, TypeOK
  <2> QED BY <1>1, <2>4, <2>5, StayType, TypePartsNext DEF SendData
<1>2. CASE CloseSocket(p)
  <2> DEFINE new == {NewSend(Control("fin"))}
  <2>1. new \in SUBSET SendAction
    BY NewSendType, ControlType DEF RequestType
  <2>2. BagsOf(sending', SendAction)
    BY <1>2, <2>1, StartSendsType DEF CloseSocket
  <2>3. HookType' /\ ShakeType' /\ DataType' /\ RestType'
          /\ BagsOf(timers', AckTimeoutAction) /\ BagsOf(network', Body)
    BY <1>2 DEF CloseSocket, TypeOK, HookType, ShakeType, DataType, RestType,
               PromiseState, dataVars, historyVars
  <2> QED BY <2>2, <2>3, TypePartsNext DEF BagType
<1> QED BY <1>1, <1>2 DEF Application

LEMMA TypeStep == TypeOK /\ [Next]_vars => TypeOK'
<1> SUFFICES ASSUME TypeOK, [Next]_vars PROVE TypeOK'
  OBVIOUS
<1>1. CASE UNCHANGED vars
  BY <1>1 DEF vars, dataVars, promiseVars, historyVars, TypeOK, BagsOf
<1>2. CASE Next
  BY <1>2, OpeningType, ApplicationType, ReceiveStepType, SendSuccessType,
     SendFailureType, AckTimeoutStepType DEF Next
<1> QED BY <1>1, <1>2

(* Every variable of the two sockets and of the network between them keeps  *)
(* its type, whatever is retransmitted, lost or closed.                     *)
THEOREM TypeCorrect == Spec => []TypeOK
<1>1. Init => TypeOK
  BY TypeInit
<1>2. TypeOK /\ [Next]_vars => TypeOK'
  BY TypeStep
<1> QED BY <1>1, <1>2, PTL DEF Spec

-----------------------------------------------------------------------------
(* What the building blocks of the actions do, told in sets.                *)

SendingSet(p) == BagToSet(sending[p])
TimerSet(p) == BagToSet(timers[p])
NetworkSet(p) == BagToSet(network[p])

LEMMA StartSendsEffect ==
  ASSUME TypeOK, NEW p \in Peer, NEW actions, StartSends(p, actions)
  PROVE  /\ SendingSet(p)' = SendingSet(p) \cup actions
         /\ SendingSet(Other(p))' = SendingSet(Other(p))
  BY PlusBag, OtherType DEF TypeOK, BagsOf, StartSends, SendingSet

LEMMA ReceiveEffect ==
  ASSUME TypeOK, NEW p \in Peer, NEW body, Receive(p, body)
  PROVE  /\ body \in NetworkSet(p)
         /\ NetworkSet(p)' \subseteq NetworkSet(p)
         /\ NetworkSet(Other(p))' = NetworkSet(Other(p))
  BY MinusBag, OtherType DEF TypeOK, BagsOf, Receive, NetworkSet, BagIn

LEMMA TransmitEffect ==
  ASSUME TypeOK, NEW p \in Peer, NEW action, Transmit(p, action)
  PROVE  /\ action \in SendingSet(p)
         /\ SendingSet(p)' \subseteq SendingSet(p)
         /\ SendingSet(Other(p))' = SendingSet(Other(p))
         /\ NetworkSet(p)' = NetworkSet(p)
         /\ NetworkSet(Other(p))' \subseteq
              NetworkSet(Other(p)) \cup {Wire(action.body)}
<1>1. /\ action \in SendingSet(p)
      /\ SendingSet(p)' \subseteq SendingSet(p)
      /\ SendingSet(Other(p))' = SendingSet(Other(p))
  BY MinusBag, OtherType DEF TypeOK, BagsOf, Transmit, SendingSet, BagIn
<1>2. CASE UNCHANGED network
  BY <1>1, <1>2 DEF NetworkSet
<1>3. CASE network' = [network EXCEPT ![Other(p)] =
                         Plus(@, {Wire(action.body)})]
  <2> DEFINE new == {Wire(action.body)}
  <2>1. network' = [network EXCEPT ![Other(p)] = Plus(@, new)]
    BY <1>3
  <2> HIDE DEF new
  <2>2. /\ NetworkSet(p)' = NetworkSet(p)
        /\ NetworkSet(Other(p))' = NetworkSet(Other(p)) \cup new
    BY <2>1, PlusBag, OtherType DEF TypeOK, BagsOf, NetworkSet
  <2> QED BY <1>1, <2>2 DEF new
<1> QED BY <1>2, <1>3 DEF Transmit

LEMMA FailEffect ==
  ASSUME TypeOK, NEW p \in Peer, NEW action, NEW retries, Fail(p, action, retries)
  PROVE  /\ action \in SendingSet(p)
         /\ SendingSet(p)' \subseteq SendingSet(p) \cup retries
         /\ SendingSet(Other(p))' = SendingSet(Other(p))
         /\ UNCHANGED <<timers, network>>
  BY PlusBag, MinusBag, OtherType DEF TypeOK, BagsOf, Fail, SendingSet, BagIn

LEMMA ExpireEffect ==
  ASSUME TypeOK, NEW p \in Peer, NEW timeout, NEW retries,
         Expire(p, timeout, retries)
  PROVE  /\ timeout \in TimerSet(p)
         /\ TimerSet(p)' \subseteq TimerSet(p)
         /\ TimerSet(Other(p))' = TimerSet(Other(p))
         /\ SendingSet(p)' = SendingSet(p) \cup retries
         /\ SendingSet(Other(p))' = SendingSet(Other(p))
         /\ UNCHANGED network
<1>1. StartSends(p, retries)
  BY DEF Expire
<1>2. /\ timeout \in TimerSet(p)
      /\ TimerSet(p)' \subseteq TimerSet(p)
      /\ TimerSet(Other(p))' = TimerSet(Other(p))
      /\ UNCHANGED network
  BY MinusBag, OtherType DEF TypeOK, BagsOf, Expire, TimerSet, BagIn
<1> QED BY <1>1, <1>2, StartSendsEffect

LEMMA StartTimerEffect ==
  ASSUME TypeOK, NEW p \in Peer, NEW action, StartTimer(p, action)
  PROVE  /\ TimerSet(p)' = TimerSet(p) \cup {AckTimeout(action)}
         /\ TimerSet(Other(p))' = TimerSet(Other(p))
<1> DEFINE new == {AckTimeout(action)}
<1>1. timers' = [timers EXCEPT ![p] = Plus(@, new)]
  BY DEF StartTimer
<1> HIDE DEF new
<1>2. /\ TimerSet(p)' = TimerSet(p) \cup new
      /\ TimerSet(Other(p))' = TimerSet(Other(p))
  BY <1>1, PlusBag, OtherType DEF TypeOK, BagsOf, TimerSet
<1> QED BY <1>2 DEF new

LEMMA WireOfControl ==
  ASSUME NEW body \in Body
  PROVE  /\ Wire(body).type = body.type
         /\ \A type \in RequestType \cup ControlAckType :
              body.type = type <=> body = Control(type)
         /\ \A type \in RequestType \cup ControlAckType :
              Wire(body) = Control(type) <=> body.type = type
<1>1. CASE body \in ControlBody
  <2>1. body = Control(body.type) /\ body.type \in RequestType \cup ControlAckType
    BY <1>1 DEF ControlBody, Control
  <2>2. Wire(body) = body
    BY <2>1 DEF Wire, RequestType, ControlAckType
  <2>3. \A type : Control(type).type = type
    BY DEF Control
  <2> QED BY <2>1, <2>2, <2>3
<1>2. CASE body \in DataBody \cup DataAckBody
  <2>1. body.type \in {"data", "data ack"}
    BY <1>2 DEF DataBody, DataAckBody
  <2>2. Wire(body).type = body.type
    BY <2>1 DEF Wire, Data, DataAck
  <2>3. \A type : Control(type).type = type
    BY DEF Control
  <2> QED BY <2>1, <2>2, <2>3 DEF RequestType, ControlAckType
<1> QED BY <1>1, <1>2 DEF Body

LEMMA ControlOfType == \A type : Control(type).type = type
  BY DEF Control

LEMMA OtherThanControl ==
  ASSUME NEW body, NEW type, body.type # type
  PROVE  body # Control(type)
<1> SUFFICES ASSUME body = Control(type) PROVE FALSE
  OBVIOUS
<1>1. body.type = type
  BY ControlOfType
<1> QED BY <1>1

LEMMA NoHandshakeYet == NoHandshake.incoming = "yet" /\ NoHandshake.outgoing = "yet"
  BY DEF NoHandshake

LEMMA SendingBody ==
  ASSUME TypeOK, NEW p \in Peer
  PROVE  /\ \A action \in SendingSet(p) : action \in SendAction /\ action.body \in Body
         /\ \A timeout \in TimerSet(p) : timeout \in AckTimeoutAction /\ timeout.body \in Body
         /\ \A body \in NetworkSet(p) : body \in Body
  BY DEF TypeOK, BagsOf, SendingSet, TimerSet, NetworkSet, SendAction, AckTimeoutAction

LEMMA StayEffect ==
  ASSUME NEW p, Stay(p)
  PROVE  UNCHANGED <<isOpen, everClosed, failed, closing>>
  BY DEF Stay

LEMMA OpenIfDoneEffect ==
  ASSUME TypeOK, NEW p \in Peer, OpenIfDone(p)
  PROVE  /\ UNCHANGED everClosed
         /\ isOpen'[Other(p)] = isOpen[Other(p)]
         /\ isOpen'[p] => isOpen[p] \/ SynDone(syn'[p])
  BY OtherType DEF TypeOK, OpenIfDone, Open, Stay

LEMMA CloseEffect ==
  ASSUME TypeOK, NEW p \in Peer, NEW error, NEW timedOut, Close(p, error, timedOut)
  PROVE  /\ everClosed'[p] /\ everClosed'[Other(p)] = everClosed[Other(p)]
         /\ ~isOpen'[p] /\ isOpen'[Other(p)] = isOpen[Other(p)]
         /\ syn'[p] = NoHandshake /\ syn'[Other(p)] = syn[Other(p)]
  BY OtherType DEF TypeOK, Close

LEMMA RetryBody ==
  \A action :
    /\ RetryAfterFailure(action).body = action.body
    /\ RetryAfterAckTimeout(action).body = action.body
    /\ AckTimeout(action).body = action.body
    /\ NewSend(action).body = action
    /\ NewAckSend(action).body = action
  BY DEF RetryAfterFailure, RetryAfterAckTimeout, AckTimeout, NewSend, NewAckSend

LEMMA CloseIfDoneEffect ==
  ASSUME NEW p, NEW f, CloseIfDone(p, f)
  PROVE  \/ UNCHANGED <<syn, isOpen, everClosed>>
         \/ \E error, timedOut : Close(p, error, timedOut)
  BY StayEffect DEF CloseIfDone

LEMMA SynRepliesBody ==
  \A s : \A action \in SynReplies(s) :
    action.body = Control("syn ack") \/ action.body = Control("syn")
  BY RetryBody DEF SynReplies

LEMMA FinRepliesBody ==
  \A f : \A action \in FinReplies(f) :
    action.body = Control("fin ack") \/ action.body = Control("fin")
  BY RetryBody DEF FinReplies

LEMMA DataAckOfType == \A n : NewAckSend(DataAck(n)).body.type = "data ack"
  BY DEF NewAckSend, DataAck

-----------------------------------------------------------------------------
(* The handshake invariant.  HandshakeStep(a) says what a step of end a may *)
(* do to what HandshakeInv speaks of; every action is such a step.          *)

HandshakeStep(a) ==
  LET b == Other(a) IN
  /\ everClosed'[b] = everClosed[b]
  /\ everClosed[a] => everClosed'[a]
  /\ syn'[b] = syn[b] /\ isOpen'[b] = isOpen[b]
  /\ NetworkSet(a)' \subseteq NetworkSet(a)
  /\ SendingSet(b)' = SendingSet(b)
  /\ ~everClosed'[a] => (Heard(a) => Heard(a)') /\ (Spoken(a) => Spoken(a)')
  /\ Heard(a)' => Heard(a) \/ Control("syn") \in NetworkSet(a)
  /\ syn'[a].outgoing = "syn ack received" =>
       \/ syn[a].outgoing = "syn ack received"
       \/ Control("syn ack") \in NetworkSet(a)
  /\ isOpen'[a] => isOpen[a] \/ SynDone(syn'[a])
  /\ \A body \in NetworkSet(b)' :
       \/ body \in NetworkSet(b)
       \/ /\ body = Control("syn") /\ ~everClosed'[a] => Spoken(a)'
          /\ body = Control("syn ack") =>
               \E action \in SendingSet(a) : action.body = Control("syn ack")
  /\ \A action \in SendingSet(a)' :
       action.body = Control("syn ack") =>
         \/ Heard(a)'
         \/ \E old \in SendingSet(a) : old.body = Control("syn ack")

LEMMA HandshakeStepInv ==
  ASSUME HandshakeInv, NEW a \in Peer, HandshakeStep(a)
  PROVE  HandshakeInv'
<1> DEFINE b == Other(a)
<1>1. b \in Peer /\ b # a /\ Other(b) = a
  BY OtherType
<1>2. \A p \in Peer : p = a \/ p = b
  BY DEF Peer, Other
<1>3. ASSUME ~everClosed'[b] PROVE HandshakeInvOf(a, b)'
  <2>1. HandshakeInvOf(a, b)
    BY <1>3 DEF HandshakeInv, HandshakeStep
  <2>2. Heard(a)' => Spoken(b)'
    BY <2>1 DEF HandshakeInvOf, HandshakeStep, Spoken, NetworkSet
  <2>3. syn'[a].outgoing = "syn ack received" => Heard(b)'
    BY <2>1 DEF HandshakeInvOf, HandshakeStep, Heard, NetworkSet
  <2>4. isOpen'[a] => Heard(b)' /\ Spoken(b)'
    BY <2>1, <2>2, <2>3
       DEF HandshakeInvOf, HandshakeStep, SynDone, Heard, Spoken
  <2>5. \A body \in NetworkSet(a)' :
          /\ body = Control("syn") => Spoken(b)'
          /\ body = Control("syn ack") => Heard(b)'
    BY <2>1 DEF HandshakeInvOf, HandshakeStep, Heard, Spoken, NetworkSet
  <2>6. \A action \in SendingSet(b)' :
          action.body = Control("syn ack") => Heard(b)'
    BY <2>1 DEF HandshakeInvOf, HandshakeStep, Heard, SendingSet
  <2> QED BY <2>2, <2>3, <2>4, <2>5, <2>6
         DEF HandshakeInvOf, NetworkSet, SendingSet
<1>4. ASSUME ~everClosed'[a] PROVE HandshakeInvOf(b, a)'
  <2>1. HandshakeInvOf(b, a) /\ (Heard(a) => Heard(a)') /\ (Spoken(a) => Spoken(a)')
    BY <1>1, <1>4 DEF HandshakeInv, HandshakeStep
  <2>2. /\ Heard(b)' => Spoken(a)'
        /\ syn'[b].outgoing = "syn ack received" => Heard(a)'
        /\ isOpen'[b] => Heard(a)' /\ Spoken(a)'
    <3>1. Heard(b)' <=> Heard(b)
      BY DEF HandshakeStep, Heard
    <3> QED BY <2>1, <3>1 DEF HandshakeInvOf, HandshakeStep
  <2>3. \A body \in NetworkSet(b)' :
          /\ body = Control("syn") => Spoken(a)'
          /\ body = Control("syn ack") => Heard(a)'
    BY <1>4, <2>1 DEF HandshakeInvOf, HandshakeStep, NetworkSet, SendingSet
  <2>4. \A action \in SendingSet(a)' :
          action.body = Control("syn ack") => Heard(a)'
    BY <2>1 DEF HandshakeInvOf, HandshakeStep, SendingSet
  <2> QED BY <2>2, <2>3, <2>4 DEF HandshakeInvOf, NetworkSet, SendingSet
<1> QED BY <1>1, <1>2, <1>3, <1>4 DEF HandshakeInv

(* Steps that leave the handshake alone, or close the end. *)
LEMMA HandshakeAside ==
  ASSUME TypeOK, NEW a \in Peer,
         NetworkSet(a)' \subseteq NetworkSet(a),
         SendingSet(Other(a))' = SendingSet(Other(a)),
         \A body \in NetworkSet(Other(a))' :
           \/ body \in NetworkSet(Other(a))
           \/ body # Control("syn") /\ body # Control("syn ack"),
         \A action \in SendingSet(a)' :
           \/ action \in SendingSet(a)
           \/ action.body # Control("syn ack"),
         \/ UNCHANGED <<syn, isOpen, everClosed>>
         \/ \E error, timedOut : Close(a, error, timedOut)
  PROVE  HandshakeStep(a)
<1>1. CASE UNCHANGED <<syn, isOpen, everClosed>>
  BY <1>1 DEF HandshakeStep, Heard, Spoken
<1>2. CASE \E error, timedOut : Close(a, error, timedOut)
  <2>1. PICK error, timedOut : Close(a, error, timedOut)
    BY <1>2
  <2>2. /\ everClosed'[a] /\ everClosed'[Other(a)] = everClosed[Other(a)]
        /\ ~isOpen'[a] /\ isOpen'[Other(a)] = isOpen[Other(a)]
        /\ syn'[a] = NoHandshake /\ syn'[Other(a)] = syn[Other(a)]
    BY <2>1, CloseEffect
  <2>3. syn'[a].incoming = "yet" /\ syn'[a].outgoing = "yet"
    BY <2>2, NoHandshakeYet
  <2>4. ~Heard(a)' /\ ~Spoken(a)'
    BY <2>3 DEF Heard, Spoken
  <2> QED BY <2>2, <2>3, <2>4 DEF HandshakeStep
<1> QED BY <1>1, <1>2

(* A failed transmission starts again what it was, or nothing. *)
LEMMA FailureHandshake ==
  ASSUME TypeOK, NEW p \in Peer, NEW action \in BagToSet(sending[p]),
         OnSendFailure(p, action)
  PROVE  HandshakeStep(p)
<1>1. action \in SendAction
  BY DEF TypeOK, BagsOf
<1>2. ~AckSendRetryable(action)
  BY <1>1 DEF SendAction, AckSendRetryable
<1>3. PICK retries : /\ Fail(p, action, retries)
                     /\ retries \subseteq {RetryAfterFailure(action)}
                     /\ action.body.type = "syn ack" => retries = {}
  <2>1. CASE OnSynSendFailure(p, action)
    BY <2>1 DEF OnSynSendFailure
  <2>2. CASE OnSynAckSendFailure(p, action)
    BY <1>2, <2>2 DEF OnSynAckSendFailure
  <2>3. CASE OnSendDataFailure(p, action)
    BY <2>3 DEF OnSendDataFailure
  <2>4. CASE OnSendDataAckFailure(p, action)
    BY <1>2, <2>4 DEF OnSendDataAckFailure
  <2>5. CASE OnFinSendFailure(p, action)
    BY <2>5 DEF OnFinSendFailure
  <2>6. CASE OnFinAckSendFailure(p, action)
    BY <1>2, <2>6 DEF OnFinAckSendFailure
  <2> QED BY <2>1, <2>2, <2>3, <2>4, <2>5, <2>6 DEF OnSendFailure
<1>4. \/ UNCHANGED <<syn, isOpen, everClosed>>
      \/ \E error, timedOut : Close(p, error, timedOut)
  BY StayEffect
     DEF OnSendFailure, OnSynSendFailure, OnSynAckSendFailure, OnSendDataFailure,
         OnSendDataAckFailure, OnFinSendFailure, OnFinAckSendFailure
<1>5. /\ SendingSet(p)' \subseteq SendingSet(p) \cup retries
      /\ SendingSet(Other(p))' = SendingSet(Other(p))
      /\ NetworkSet(p)' = NetworkSet(p)
      /\ NetworkSet(Other(p))' = NetworkSet(Other(p))
  BY <1>3, FailEffect DEF NetworkSet
<1>6. \A retry \in retries : retry.body # Control("syn ack")
  <2>1. \A retry \in retries :
          retry.body = action.body /\ action.body.type # "syn ack"
    BY <1>3, RetryBody
  <2> QED BY <2>1, OtherThanControl
<1> QED BY <1>4, <1>5, <1>6, HandshakeAside

LEMMA TimeoutHandshake ==
  ASSUME TypeOK, NEW p \in Peer, NEW timeout \in BagToSet(timers[p]),
         OnReceiveAckTimeout(p, timeout)
  PROVE  HandshakeStep(p)
<1>1. timeout.body.type \in {"syn", "data", "fin"}
  BY DEF OnReceiveAckTimeout, OnSynAckReceiveTimeout, OnReceiveDataAckTimeout,
         OnFinAckReceiveTimeout
<1>2. timeout.body # Control("syn ack")
  <2>1. timeout.body.type # "syn ack"
    BY <1>1
  <2> QED BY <2>1, OtherThanControl
<1>3. PICK retries : /\ Expire(p, timeout, retries)
                     /\ retries \subseteq {RetryAfterAckTimeout(timeout)}
  <2>1. CASE OnSynAckReceiveTimeout(p, timeout)
    BY <2>1 DEF OnSynAckReceiveTimeout
  <2>2. CASE OnReceiveDataAckTimeout(p, timeout)
    BY <2>2 DEF OnReceiveDataAckTimeout
  <2>3. CASE OnFinAckReceiveTimeout(p, timeout)
    BY <2>3 DEF OnFinAckReceiveTimeout
  <2> QED BY <2>1, <2>2, <2>3 DEF OnReceiveAckTimeout
<1>4. \/ UNCHANGED <<syn, isOpen, everClosed>>
      \/ \E error, timedOut : Close(p, error, timedOut)
  BY StayEffect DEF OnReceiveAckTimeout, OnSynAckReceiveTimeout,
                    OnReceiveDataAckTimeout, OnFinAckReceiveTimeout
<1>5. /\ SendingSet(p)' = SendingSet(p) \cup retries
      /\ SendingSet(Other(p))' = SendingSet(Other(p))
      /\ NetworkSet(p)' = NetworkSet(p)
      /\ NetworkSet(Other(p))' = NetworkSet(Other(p))
  BY <1>3, ExpireEffect DEF NetworkSet
<1>6. \A retry \in retries : retry.body # Control("syn ack")
  BY <1>2, <1>3, RetryBody
<1> QED BY <1>4, <1>5, <1>6, HandshakeAside

(* The types of the frames that a step of the handshake is not about. *)
LEMMA AsideBody ==
  ASSUME NEW body \in Body, body.type \notin {"syn", "syn ack"}
  PROVE  /\ body # Control("syn") /\ body # Control("syn ack")
         /\ Wire(body) # Control("syn") /\ Wire(body) # Control("syn ack")
<1>1. Wire(body).type = body.type
  BY WireOfControl
<1> QED BY <1>1, OtherThanControl

LEMMA SuccessHandshake ==
  ASSUME TypeOK, NEW p \in Peer, NEW action \in BagToSet(sending[p]),
         OnSendSuccess(p, action)
  PROVE  HandshakeStep(p)
<1>1. action.body \in Body
  BY SendingBody DEF SendingSet
<1>2. Transmit(p, action)
  BY DEF OnSendSuccess, OnSynSendSuccess, OnSynAckSendSuccess, OnSendDataSuccess,
         OnSendDataAckSuccess, OnFinSendSuccess, OnFinAckSendSuccess
<1>3. /\ action \in SendingSet(p)
      /\ SendingSet(p)' \subseteq SendingSet(p)
      /\ SendingSet(Other(p))' = SendingSet(Other(p))
      /\ NetworkSet(p)' = NetworkSet(p)
      /\ NetworkSet(Other(p))' \subseteq NetworkSet(Other(p)) \cup {Wire(action.body)}
  BY <1>2, TransmitEffect
<1>4. syn[p] \in SynState /\ syn \in [Peer -> SynState]
  BY DEF TypeOK
<1>5. CASE OnSynSendSuccess(p, action)
  <2>1. /\ syn' = [syn EXCEPT ![p].outgoing = "syn sent"]
        /\ UNCHANGED <<isOpen, everClosed>>
    BY <1>5, StayEffect DEF OnSynSendSuccess
  <2>2. /\ syn'[p].outgoing = "syn sent" /\ syn'[p].incoming = syn[p].incoming
        /\ syn'[Other(p)] = syn[Other(p)]
    BY <1>4, <2>1, OtherType DEF SynState
  <2>3. Wire(action.body) # Control("syn ack")
    <3>1. action.body.type = "syn"
      BY <1>5 DEF OnSynSendSuccess
    <3>2. Wire(action.body).type = "syn"
      BY <1>1, <3>1, WireOfControl
    <3> QED BY <3>2, OtherThanControl
  <2> QED BY <1>3, <2>1, <2>2, <2>3 DEF HandshakeStep, Heard, Spoken
<1>6. CASE OnSynAckSendSuccess(p, action)
  <2>1. action.body.type = "syn ack"
    BY <1>6 DEF OnSynAckSendSuccess
  <2>2. action.body = Control("syn ack") /\ Wire(action.body) # Control("syn")
    <3>1. Wire(action.body).type = "syn ack"
      BY <1>1, <2>1, WireOfControl
    <3> QED BY <1>1, <2>1, <3>1, WireOfControl, OtherThanControl DEF ControlAckType
  <2>3. CASE syn[p].incoming # "syn received"
    <3>1. UNCHANGED <<syn, isOpen, everClosed>>
      BY <1>6, <2>3, StayEffect DEF OnSynAckSendSuccess
    <3> QED BY <1>3, <2>2, <3>1 DEF HandshakeStep, Heard, Spoken
  <2>4. CASE syn[p].incoming = "syn received"
    <3>1. syn' = [syn EXCEPT ![p].incoming = "syn ack sent"] /\ OpenIfDone(p)
      BY <1>6, <2>4 DEF OnSynAckSendSuccess
    <3>2. /\ UNCHANGED everClosed
          /\ isOpen'[Other(p)] = isOpen[Other(p)]
          /\ isOpen'[p] => isOpen[p] \/ SynDone(syn'[p])
      BY <3>1, OpenIfDoneEffect
    <3>3. /\ syn'[p].incoming = "syn ack sent" /\ syn'[p].outgoing = syn[p].outgoing
          /\ syn'[Other(p)] = syn[Other(p)]
      BY <1>4, <3>1, OtherType DEF SynState
    <3> QED BY <1>3, <2>2, <2>4, <3>2, <3>3 DEF HandshakeStep, Heard, Spoken
  <2> QED BY <2>3, <2>4
<1>7. CASE \/ OnSendDataSuccess(p, action) \/ OnSendDataAckSuccess(p, action)
           \/ OnFinSendSuccess(p, action) \/ OnFinAckSendSuccess(p, action)
  <2>1. action.body.type \notin {"syn", "syn ack"}
    BY <1>7 DEF OnSendDataSuccess, OnSendDataAckSuccess, OnFinSendSuccess,
                OnFinAckSendSuccess
  <2>2. Wire(action.body) # Control("syn") /\ Wire(action.body) # Control("syn ack")
    BY <1>1, <2>1, AsideBody
  <2>3. \/ UNCHANGED <<syn, isOpen, everClosed>>
        \/ \E error, timedOut : Close(p, error, timedOut)
    BY <1>7, StayEffect, CloseIfDoneEffect
       DEF OnSendDataSuccess, OnSendDataAckSuccess, OnFinSendSuccess,
           OnFinAckSendSuccess
  <2> QED BY <1>3, <2>2, <2>3, HandshakeAside
<1> QED BY <1>5, <1>6, <1>7 DEF OnSendSuccess

(* What an acknowledgement number sets going is data. *)
LEMMA AcknowledgeSends ==
  ASSUME TypeOK, NEW p \in Peer, NEW ack, NEW actions,
         HandleAcknowledgeNumber(p, ack, actions)
  PROVE  /\ \A action \in SendingSet(p)' :
              \/ action \in SendingSet(p) \cup actions
              \/ action.body.type = "data"
         /\ SendingSet(Other(p))' = SendingSet(Other(p))
<1>1. CASE StartSends(p, actions)
  BY <1>1, StartSendsEffect
<1>2. ASSUME NEW queue, NEW seq, SendNextFrame(p, queue, seq, actions)
      PROVE  \/ StartSends(p, actions)
             \/ \E a, b, c : StartSends(p, actions \cup {NewSend(Data(a, b, c))})
  BY <1>2 DEF SendNextFrame
<1>3. ASSUME NEW a, NEW b, NEW c,
             StartSends(p, actions \cup {NewSend(Data(a, b, c))})
      PROVE  /\ \A action \in SendingSet(p)' :
                  \/ action \in SendingSet(p) \cup actions
                  \/ action.body.type = "data"
             /\ SendingSet(Other(p))' = SendingSet(Other(p))
  <2>1. NewSend(Data(a, b, c)).body.type = "data"
    BY DEF NewSend, Data
  <2>2. /\ SendingSet(p)' = SendingSet(p) \cup (actions \cup {NewSend(Data(a, b, c))})
        /\ SendingSet(Other(p))' = SendingSet(Other(p))
    BY <1>3, StartSendsEffect
  <2> QED BY <2>1, <2>2
<1> QED BY <1>1, <1>2, <1>3 DEF HandleAcknowledgeNumber

LEMMA ReceiveHandshake ==
  ASSUME TypeOK, NEW p \in Peer, OnReceive(p)
  PROVE  HandshakeStep(p)
<1>1. syn[p] \in SynState /\ syn \in [Peer -> SynState]
  BY DEF TypeOK
<1>2. CASE OnSynReceived(p)
  <2>1. /\ Control("syn") \in NetworkSet(p)
        /\ NetworkSet(p)' \subseteq NetworkSet(p)
        /\ NetworkSet(Other(p))' = NetworkSet(Other(p))
    BY <1>2, ReceiveEffect DEF OnSynReceived
  <2>2. SendingSet(Other(p))' = SendingSet(Other(p))
    BY <1>2, StartSendsEffect DEF OnSynReceived
  <2>3. /\ syn' = [syn EXCEPT ![p].incoming = "syn received"]
        /\ UNCHANGED <<isOpen, everClosed>>
    BY <1>2, StayEffect DEF OnSynReceived
  <2>4. /\ syn'[p].incoming = "syn received" /\ syn'[p].outgoing = syn[p].outgoing
        /\ syn'[Other(p)] = syn[Other(p)]
    BY <1>1, <2>3, OtherType DEF SynState
  <2> QED BY <2>1, <2>2, <2>3, <2>4 DEF HandshakeStep, Heard, Spoken
<1>3. CASE OnSynAckReceived(p)
  <2>1. /\ Control("syn ack") \in NetworkSet(p)
        /\ NetworkSet(p)' \subseteq NetworkSet(p)
        /\ NetworkSet(Other(p))' = NetworkSet(Other(p))
    BY <1>3, ReceiveEffect DEF OnSynAckReceived
  <2>2. \A o \in Peer : SendingSet(o)' = SendingSet(o)
    BY <1>3 DEF OnSynAckReceived, SendingSet
  <2>3. CASE syn[p].outgoing = "yet"
    <3>1. UNCHANGED <<syn, isOpen, everClosed>>
      BY <1>3, <2>3, StayEffect DEF OnSynAckReceived
    <3> QED BY <2>1, <2>2, <3>1, OtherType DEF HandshakeStep, Heard, Spoken
  <2>4. CASE syn[p].outgoing # "yet"
    <3>1. syn' = [syn EXCEPT ![p].outgoing = "syn ack received"] /\ OpenIfDone(p)
      BY <1>3, <2>4 DEF OnSynAckReceived
    <3>2. /\ UNCHANGED everClosed
          /\ isOpen'[Other(p)] = isOpen[Other(p)]
          /\ isOpen'[p] => isOpen[p] \/ SynDone(syn'[p])
      BY <3>1, OpenIfDoneEffect
    <3>3. /\ syn'[p].outgoing = "syn ack received"
          /\ syn'[p].incoming = syn[p].incoming
          /\ syn'[Other(p)] = syn[Other(p)]
      BY <1>1, <3>1, OtherType DEF SynState
    <3> QED BY <2>1, <2>2, <3>2, <3>3, OtherType DEF HandshakeStep, Heard, Spoken
  <2> QED BY <2>3, <2>4
<1>4. CASE OnFinReceived(p)
  <2>1. /\ NetworkSet(p)' \subseteq NetworkSet(p)
        /\ NetworkSet(Other(p))' = NetworkSet(Other(p))
    BY <1>4, ReceiveEffect DEF OnFinReceived
  <2>2. /\ SendingSet(p)' = SendingSet(p) \cup FinReplies(fin[p])
        /\ SendingSet(Other(p))' = SendingSet(Other(p))
    BY <1>4, StartSendsEffect DEF OnFinReceived
  <2>3. \A action \in FinReplies(fin[p]) : action.body # Control("syn ack")
    BY FinRepliesBody, ControlOfType, OtherThanControl
  <2>4. UNCHANGED <<syn, isOpen, everClosed>>
    BY <1>4, StayEffect DEF OnFinReceived
  <2> QED BY <2>1, <2>2, <2>3, <2>4, HandshakeAside
<1>5. CASE OnFinAckReceived(p)
  <2>1. /\ NetworkSet(p)' \subseteq NetworkSet(p)
        /\ NetworkSet(Other(p))' = NetworkSet(Other(p))
    BY <1>5, ReceiveEffect DEF OnFinAckReceived
  <2>2. \A o \in Peer : SendingSet(o)' = SendingSet(o)
    BY <1>5 DEF OnFinAckReceived, SendingSet
  <2>3. \/ UNCHANGED <<syn, isOpen, everClosed>>
        \/ \E error, timedOut : Close(p, error, timedOut)
    BY <1>5, StayEffect, CloseIfDoneEffect DEF OnFinAckReceived
  <2> QED BY <2>1, <2>2, <2>3, OtherType, HandshakeAside
<1>6. ASSUME NEW body, OnDataWhenNotOpen(p, body)
      PROVE  HandshakeStep(p)
  <2>1. /\ NetworkSet(p)' \subseteq NetworkSet(p)
        /\ NetworkSet(Other(p))' = NetworkSet(Other(p))
    BY <1>6, ReceiveEffect DEF OnDataWhenNotOpen
  <2>2. \A o \in Peer : SendingSet(o)' = SendingSet(o)
    BY <1>6 DEF OnDataWhenNotOpen, SendingSet
  <2>3. UNCHANGED <<syn, isOpen, everClosed>>
    BY <1>6, StayEffect DEF OnDataWhenNotOpen
  <2> QED BY <2>1, <2>2, <2>3, OtherType, HandshakeAside
<1>7. ASSUME NEW body, OnDataReceived(p, body) \/ OnDataAckReceived(p, body)
      PROVE  HandshakeStep(p)
  <2>1. Receive(p, body) /\ UNCHANGED <<syn, isOpen, everClosed>>
    BY <1>7, StayEffect DEF OnDataReceived, OnDataAckReceived
  <2>2. /\ NetworkSet(p)' \subseteq NetworkSet(p)
        /\ NetworkSet(Other(p))' = NetworkSet(Other(p))
    BY <2>1, ReceiveEffect
  <2>4. /\ \A action \in SendingSet(p)' :
             \/ action \in SendingSet(p)
             \/ action.body.type \in {"data", "data ack"}
        /\ SendingSet(Other(p))' = SendingSet(Other(p))
    <3>1. CASE OnDataReceived(p, body)
      <4> DEFINE replies == IF body.seq > nextReceive[p] THEN {}
                            ELSE {NewAckSend(DataAck(nextReceive'[p]))}
      <4>1. HandleAcknowledgeNumber(p, body.ack, replies)
        BY <3>1 DEF OnDataReceived
      <4>2. \A action \in replies : action.body.type = "data ack"
        BY DataAckOfType
      <4> HIDE DEF replies
      <4> QED BY <4>1, <4>2, AcknowledgeSends
    <3>2. CASE OnDataAckReceived(p, body)
      <4>1. HandleAcknowledgeNumber(p, body.ack, {})
        BY <3>2 DEF OnDataAckReceived
      <4>2. /\ \A action \in SendingSet(p)' :
                 \/ action \in SendingSet(p) \cup {}
                 \/ action.body.type = "data"
            /\ SendingSet(Other(p))' = SendingSet(Other(p))
        BY <4>1, AcknowledgeSends
      <4> QED BY <4>2
    <3> QED BY <1>7, <3>1, <3>2
  <2>5. \A action \in SendingSet(p)' :
          action \in SendingSet(p) \/ action.body # Control("syn ack")
    BY <2>4, OtherThanControl
  <2> QED BY <2>1, <2>2, <2>4, <2>5, HandshakeAside
<1> QED BY <1>2, <1>3, <1>4, <1>5, <1>6, <1>7 DEF OnReceive

(* The application's calls start data frames and fins. *)
LEMMA ApplicationSends ==
  ASSUME TypeOK, NEW p \in Peer, Application(p)
  PROVE  /\ \A action \in SendingSet(p)' :
              action \in SendingSet(p) \/ action.body.type \in {"data", "fin"}
         /\ SendingSet(Other(p))' = SendingSet(Other(p))
         /\ UNCHANGED network
<1>1. PICK actions :
        /\ StartSends(p, actions) \/ (actions = {} /\ UNCHANGED sending)
        /\ \A action \in actions : action.body.type \in {"data", "fin"}
  <2>1. CASE SendData(p)
    <3>1. \A a, b, c : NewSend(Data(a, b, c)).body.type = "data"
      BY DEF NewSend, Data
    <3>2. CASE sendingFrame[p] # NoFrame
      <4>1. UNCHANGED sending
        BY <2>1, <3>2 DEF SendData
      <4>2. \A action \in {} : action.body.type \in {"data", "fin"}
        OBVIOUS
      <4> WITNESS {}
      <4> QED BY <4>1
    <3>3. CASE sendingFrame[p] = NoFrame
      <4>1. PICK queue, seq : SendNextFrame(p, queue, seq, {})
        BY <2>1, <3>3 DEF SendData
      <4>2. CASE queue = <<>>
        BY <4>1, <4>2 DEF SendNextFrame
      <4>3. CASE queue # <<>>
        <5> DEFINE new == {NewSend(Data(seq, nextReceive[p], Head(queue)))}
        <5>1. StartSends(p, new)
          BY <4>1, <4>3 DEF SendNextFrame
        <5>2. \A action \in new : action.body.type = "data"
          BY <3>1
        <5> HIDE DEF new
        <5> QED BY <5>1, <5>2
      <4> QED BY <4>2, <4>3
    <3> QED BY <3>2, <3>3
  <2>2. CASE CloseSocket(p)
    <3>1. NewSend(Control("fin")).body.type = "fin"
      BY RetryBody, ControlOfType
    <3> QED BY <2>2, <3>1 DEF CloseSocket
  <2> QED BY <2>1, <2>2 DEF Application
<1>2. /\ SendingSet(p)' = SendingSet(p) \cup actions
      /\ SendingSet(Other(p))' = SendingSet(Other(p))
  BY <1>1, StartSendsEffect DEF SendingSet
<1>3. UNCHANGED network
  BY DEF Application, SendData, CloseSocket
<1> QED BY <1>1, <1>2, <1>3

LEMMA ApplicationHandshake ==
  ASSUME TypeOK, NEW p \in Peer, Application(p)
  PROVE  HandshakeStep(p)
<1>1. UNCHANGED <<syn, isOpen, everClosed>>
  BY StayEffect DEF Application, SendData, CloseSocket, historyVars
<1>2. /\ SendingSet(Other(p))' = SendingSet(Other(p))
      /\ \A action \in SendingSet(p)' :
           action \in SendingSet(p) \/ action.body # Control("syn ack")
  BY ApplicationSends, OtherThanControl
<1>3. \A o \in Peer : NetworkSet(o)' = NetworkSet(o)
  BY ApplicationSends DEF NetworkSet
<1> QED BY <1>1, <1>2, <1>3, OtherType, HandshakeAside

LEMMA OpeningHandshake ==
  ASSUME TypeOK, Connect \/ Accept \/ Reject
  PROVE  HandshakeStep(Client) \/ HandshakeStep(Server)
<1>1. /\ Client \in Peer /\ Server \in Peer
      /\ Other(Client) = Server /\ Other(Server) = Client
  BY PeerAssumption DEF Peer, Other
<1>2. CASE Connect
  <2>1. /\ SendingSet(Client)' = SendingSet(Client) \cup {NewSend(Control("syn"))}
        /\ SendingSet(Server)' = SendingSet(Server)
    BY <1>1, <1>2, StartSendsEffect DEF Connect
  <2>2. NewSend(Control("syn")).body # Control("syn ack")
    BY RetryBody, ControlOfType, OtherThanControl
  <2>3. UNCHANGED <<syn, isOpen, everClosed, network>>
    BY <1>2 DEF Connect, historyVars
  <2>4. \A o \in Peer : NetworkSet(o)' = NetworkSet(o)
    BY <2>3 DEF NetworkSet
  <2> QED BY <1>1, <2>1, <2>2, <2>3, <2>4, HandshakeAside
<1>3. CASE Accept
  <2>1. /\ SendingSet(Client)' = SendingSet(Client)
        /\ NetworkSet(Client)' = NetworkSet(Client)
        /\ NetworkSet(Server)' \subseteq NetworkSet(Server)
        /\ Control("syn") \in NetworkSet(Server)
    <3>1. /\ network' = [network EXCEPT ![Server] = Minus(@, Control("syn"))]
          /\ Control("syn") \in NetworkSet(Server)
          /\ StartSends(Server, SynReplies(syn[Server]))
      BY <1>3 DEF Accept, NetworkSet, BagIn
    <3>2. SendingSet(Client)' = SendingSet(Client)
      BY <1>1, <3>1, StartSendsEffect
    <3>3. /\ NetworkSet(Client)' = NetworkSet(Client)
          /\ NetworkSet(Server)' \subseteq NetworkSet(Server)
      BY <1>1, <3>1, MinusBag, PeerAssumption DEF TypeOK, BagsOf, NetworkSet
    <3> QED BY <3>1, <3>2, <3>3
  <2>2. /\ syn' = [syn EXCEPT ![Server].incoming = "syn received"]
        /\ UNCHANGED <<isOpen, everClosed>>
    BY <1>3 DEF Accept, historyVars
  <2>3. /\ syn'[Server].incoming = "syn received"
        /\ syn'[Server].outgoing = syn[Server].outgoing
        /\ syn'[Client] = syn[Client]
    <3>1. syn[Server] \in SynState /\ syn \in [Peer -> SynState] /\ Client # Server
      BY <1>1, PeerAssumption DEF TypeOK
    <3> QED BY <1>1, <2>2, <3>1 DEF SynState
  <2> QED BY <1>1, <2>1, <2>2, <2>3 DEF HandshakeStep, Heard, Spoken
<1>4. CASE Reject
  <2>1. /\ NetworkSet(Client)' = NetworkSet(Client)
        /\ NetworkSet(Server)' \subseteq NetworkSet(Server)
    <3>1. PICK body : network' = [network EXCEPT ![Server] = Minus(@, body)]
      BY <1>4 DEF Reject
    <3> QED BY <1>1, <3>1, MinusBag, PeerAssumption DEF TypeOK, BagsOf, NetworkSet
  <2>2. UNCHANGED <<syn, isOpen, everClosed, sending>>
    BY <1>4 DEF Reject, historyVars
  <2>3. \A o \in Peer : SendingSet(o)' = SendingSet(o)
    BY <2>2 DEF SendingSet
  <2> QED BY <1>1, <2>1, <2>2, <2>3, HandshakeAside
<1> QED BY <1>2, <1>3, <1>4

LEMMA HandshakeInit == Init => HandshakeInv
<1> SUFFICES ASSUME Init, NEW p \in Peer PROVE HandshakeInvOf(p, Other(p))
  BY DEF HandshakeInv
<1>1. \A o \in Peer : /\ syn[o] = NoHandshake /\ ~isOpen[o]
                      /\ BagToSet(sending[o]) = {} /\ BagToSet(network[o]) = {}
  BY EmptyBagIsABag DEF Init
<1> QED BY <1>1, OtherType, NoHandshakeYet DEF HandshakeInvOf, Heard, Spoken

LEMMA HandshakeNext == TypeOK /\ HandshakeInv /\ [Next]_vars => HandshakeInv'
<1> SUFFICES ASSUME TypeOK, HandshakeInv, [Next]_vars PROVE HandshakeInv'
  OBVIOUS
<1>1. CASE UNCHANGED vars
  BY <1>1 DEF vars, historyVars, HandshakeInv, HandshakeInvOf, Heard, Spoken
<1>2. CASE Next
  <2>1. \E a \in Peer : HandshakeStep(a)
    <3>1. CASE Connect \/ Accept \/ Reject
      BY <3>1, OpeningHandshake DEF Peer
    <3>2. CASE ~(Connect \/ Accept \/ Reject)
      BY <1>2, <3>2, ApplicationHandshake, ReceiveHandshake, SuccessHandshake,
         FailureHandshake, TimeoutHandshake DEF Next
    <3> QED BY <3>1, <3>2
  <2> QED BY <2>1, HandshakeStepInv
<1> QED BY <1>1, <1>2

(* What an end knows of the other's half of the handshake is true: whatever *)
(* it has heard, sent or been answered, the other end has done its part.    *)
THEOREM HandshakeCorrect == Spec => []HandshakeInv
<1>1. Init => HandshakeInv
  BY HandshakeInit
<1>2. TypeOK /\ HandshakeInv /\ [Next]_vars => HandshakeInv'
  BY HandshakeNext
<1> QED BY <1>1, <1>2, TypeCorrect, PTL DEF Spec

(* A socket is open only when the other end has heard of it and has spoken  *)
(* itself, whatever was lost, retransmitted, or closed and opened again.    *)
THEOREM OpenIsAnswered == Spec => []OpenMeansAnswered
<1>1. HandshakeInv => OpenMeansAnswered
  BY DEF HandshakeInv, HandshakeInvOf, OpenMeansAnswered, Heard, Spoken
<1> QED BY <1>1, HandshakeCorrect, PTL

-----------------------------------------------------------------------------
(* The reported state.  Reports(p) is what StateAgrees says of one end.     *)

Reports(p) ==
  state[p] = IF IsClosing(fin[p]) THEN "closing"
             ELSE IF IsOpening(syn[p]) THEN "opening"
             ELSE IF isOpen[p] THEN "open"
             ELSE "closed"

(* A socket that has not come to be has nothing under way, so that its      *)
(* handshake is fresh when a syn brings it about.                           *)
Untouched(p) ==
  /\ syn[p].outgoing = "yet" /\ connecting[p] = "none"
  /\ SendingSet(p) = {} /\ TimerSet(p) = {}

ReportInv == \A p \in Peer : Reports(p) /\ (phase[p] = "none" => Untouched(p))

(* What a step of end a leaves of the other end. *)
SocketOfOther(a) ==
  LET b == Other(a) IN
  /\ state'[b] = state[b] /\ syn'[b] = syn[b] /\ fin'[b] = fin[b]
  /\ isOpen'[b] = isOpen[b] /\ connecting'[b] = connecting[b]

QueuesOfOther(a) ==
  LET b == Other(a) IN
  SendingSet(b)' = SendingSet(b) /\ TimerSet(b)' = TimerSet(b)

ReportStep(a) ==
  /\ SocketOfOther(a) /\ QueuesOfOther(a) /\ phase'[Other(a)] = phase[Other(a)]
  /\ Reports(a)'
  /\ phase'[a] # "none"

LEMMA ReportStepInv ==
  ASSUME ReportInv, NEW a \in Peer, ReportStep(a)
  PROVE  ReportInv'
<1> DEFINE b == Other(a)
<1>1. b \in Peer /\ \A p \in Peer : p = a \/ p = b
  BY OtherType DEF Peer, Other
<1>2. Reports(b) /\ (phase[b] = "none" => Untouched(b))
  BY <1>1 DEF ReportInv
<1>3. Reports(b)'
  BY <1>2 DEF Reports, ReportStep, SocketOfOther, IsOpening, IsClosing, SynDone, FinDone
<1>4. phase'[b] = "none" => Untouched(b)'
  BY <1>2 DEF Untouched, ReportStep, SocketOfOther, QueuesOfOther
<1>5. \A p \in Peer : Reports(p)' /\ (phase'[p] = "none" => Untouched(p)')
  BY <1>1, <1>3, <1>4 DEF ReportStep
<1> QED BY <1>5 DEF ReportInv

(* The kinds of step of a handler. *)
LEMMA HookReports ==
  ASSUME TypeOK, NEW p \in Peer, NEW base, SocketActionHook(p, base)
  PROVE  /\ state'[p] = IF IsClosing(fin'[p]) THEN "closing"
                        ELSE IF IsOpening(syn'[p]) THEN "opening" ELSE base
         /\ state'[Other(p)] = state[Other(p)]
         /\ connecting'[Other(p)] = connecting[Other(p)]
  BY OtherType DEF SocketActionHook, TypeOK

LEMMA StayReports ==
  ASSUME TypeOK, NEW p \in Peer, Stay(p), Reports(p),
         IsOpening(syn[p]) => IsOpening(syn'[p]),
         IsClosing(fin[p]) => IsClosing(fin'[p]),
         syn'[Other(p)] = syn[Other(p)], fin'[Other(p)] = fin[Other(p)]
  PROVE  Reports(p)' /\ SocketOfOther(p)
<1>1. isOpen' = isOpen /\ SocketActionHook(p, state[p])
  BY DEF Stay
<1>2. Reports(p)'
  BY <1>1, HookReports DEF Reports, IsOpening, IsClosing, SynDone, FinDone
<1> QED BY <1>1, <1>2, HookReports DEF SocketOfOther

LEMMA OpenReports ==
  ASSUME TypeOK, NEW p \in Peer, Open(p),
         syn'[Other(p)] = syn[Other(p)], fin'[Other(p)] = fin[Other(p)]
  PROVE  Reports(p)' /\ SocketOfOther(p)
<1>1. /\ isOpen'[p] /\ isOpen'[Other(p)] = isOpen[Other(p)]
      /\ SocketActionHook(p, "open")
  BY OtherType DEF Open, TypeOK
<1>2. Reports(p)'
  BY <1>1, HookReports DEF Reports, IsOpening, IsClosing, SynDone, FinDone
<1> QED BY <1>1, <1>2, HookReports DEF SocketOfOther

LEMMA CloseReports ==
  ASSUME TypeOK, NEW p \in Peer, NEW error, NEW timedOut, Close(p, error, timedOut)
  PROVE  Reports(p)' /\ SocketOfOther(p)
<1>1. /\ state'[p] = "closed" /\ syn'[p] = NoHandshake /\ fin'[p] = NoHandshake
      /\ isOpen'[p] = FALSE
  BY DEF Close, TypeOK
<1>2. Reports(p)'
  BY <1>1, NoHandshakeYet DEF Reports, IsOpening, IsClosing
<1>3. SocketOfOther(p)
  BY OtherType DEF SocketOfOther, Close, TypeOK
<1> QED BY <1>2, <1>3

(* Most handlers leave both handshakes as they are, or close the socket. *)
LEMMA AsideReports ==
  ASSUME TypeOK, NEW p \in Peer, Reports(p),
         \/ UNCHANGED <<syn, fin>> /\ Stay(p)
         \/ \E error, timedOut : Close(p, error, timedOut)
  PROVE  Reports(p)' /\ SocketOfOther(p)
  BY StayReports, CloseReports

LEMMA CloseIfDoneReports ==
  ASSUME TypeOK, NEW p \in Peer, Reports(p), NEW f, f # NoHandshake, CloseIfDone(p, f)
  PROVE  Reports(p)' /\ SocketOfOther(p)
<1>1. CASE FinDone(f)
  BY <1>1, CloseReports DEF CloseIfDone
<1>2. CASE ~FinDone(f)
  <2>1. fin' = [fin EXCEPT ![p] = f] /\ syn' = syn /\ Stay(p)
    BY <1>2 DEF CloseIfDone
  <2>2. fin'[p] = f /\ fin'[Other(p)] = fin[Other(p)]
    BY <2>1, OtherType DEF TypeOK
  <2>3. IsClosing(fin'[p])
    BY <1>2, <2>2 DEF IsClosing
  <2> QED BY <2>1, <2>2, <2>3, StayReports
<1> QED BY <1>1, <1>2

LEMMA FailureReports ==
  ASSUME TypeOK, ReportInv, NEW p \in Peer, NEW action \in BagToSet(sending[p]),
         OnSendFailure(p, action)
  PROVE  ReportStep(p)
<1>1. \/ UNCHANGED <<syn, fin>> /\ Stay(p)
      \/ \E error, timedOut : Close(p, error, timedOut)
  BY DEF OnSendFailure, OnSynSendFailure, OnSynAckSendFailure, OnSendDataFailure,
         OnSendDataAckFailure, OnFinSendFailure, OnFinAckSendFailure
<1>2. PICK retries : Fail(p, action, retries)
  BY DEF OnSendFailure, OnSynSendFailure, OnSynAckSendFailure, OnSendDataFailure,
         OnSendDataAckFailure, OnFinSendFailure, OnFinAckSendFailure
<1>3. QueuesOfOther(p)
  BY <1>2, FailEffect DEF QueuesOfOther, TimerSet
<1>4. phase' = phase /\ phase[p] # "none" /\ Reports(p)
  BY <1>2 DEF Fail, ReportInv, Untouched, SendingSet
<1> QED BY <1>1, <1>3, <1>4, AsideReports DEF ReportStep

LEMMA TimeoutReports ==
  ASSUME TypeOK, ReportInv, NEW p \in Peer, NEW timeout \in BagToSet(timers[p]),
         OnReceiveAckTimeout(p, timeout)
  PROVE  ReportStep(p)
<1>1. \/ UNCHANGED <<syn, fin>> /\ Stay(p)
      \/ \E error, timedOut : Close(p, error, timedOut)
  BY DEF OnReceiveAckTimeout, OnSynAckReceiveTimeout, OnReceiveDataAckTimeout,
         OnFinAckReceiveTimeout
<1>2. PICK retries : Expire(p, timeout, retries)
  BY DEF OnReceiveAckTimeout, OnSynAckReceiveTimeout, OnReceiveDataAckTimeout,
         OnFinAckReceiveTimeout
<1>3. QueuesOfOther(p)
  BY <1>2, ExpireEffect DEF QueuesOfOther
<1>4. phase' = phase /\ phase[p] # "none" /\ Reports(p)
  BY <1>2 DEF Expire, ReportInv, Untouched, TimerSet
<1> QED BY <1>1, <1>3, <1>4, AsideReports DEF ReportStep

LEMMA OpenIfDoneReports ==
  ASSUME TypeOK, NEW p \in Peer, Reports(p), OpenIfDone(p), fin' = fin,
         IsOpening(syn[p]) => SynDone(syn'[p]) \/ IsOpening(syn'[p]),
         syn'[Other(p)] = syn[Other(p)]
  PROVE  Reports(p)' /\ SocketOfOther(p)
<1>1. CASE SynDone(syn'[p])
  BY <1>1, OpenReports DEF OpenIfDone
<1>2. CASE ~SynDone(syn'[p])
  BY <1>2, StayReports DEF OpenIfDone
<1> QED BY <1>1, <1>2

LEMMA SuccessReports ==
  ASSUME TypeOK, ReportInv, NEW p \in Peer, NEW action \in BagToSet(sending[p]),
         OnSendSuccess(p, action)
  PROVE  ReportStep(p)
<1>1. /\ Transmit(p, action)
      /\ UNCHANGED timers \/ StartTimer(p, action)
  BY DEF OnSendSuccess, OnSynSendSuccess, OnSynAckSendSuccess, OnSendDataSuccess,
         OnSendDataAckSuccess, OnFinSendSuccess, OnFinAckSendSuccess
<1>2. QueuesOfOther(p)
  BY <1>1, TransmitEffect, StartTimerEffect DEF QueuesOfOther, TimerSet
<1>3. phase' = phase /\ phase[p] # "none" /\ Reports(p)
  BY <1>1 DEF Transmit, ReportInv, Untouched, SendingSet
<1>4. /\ syn[p] \in SynState /\ syn \in [Peer -> SynState]
      /\ fin[p] \in FinState /\ fin \in [Peer -> FinState]
  BY DEF TypeOK
<1>5. Reports(p)' /\ SocketOfOther(p)
  <2>1. CASE OnSynSendSuccess(p, action)
    <3>1. syn' = [syn EXCEPT ![p].outgoing = "syn sent"] /\ fin' = fin /\ Stay(p)
      BY <2>1 DEF OnSynSendSuccess
    <3>2. /\ syn'[p].outgoing = "syn sent" /\ syn'[p].incoming = syn[p].incoming
          /\ syn'[Other(p)] = syn[Other(p)]
      BY <1>4, <3>1, OtherType DEF SynState
    <3>3. IsOpening(syn[p]) => IsOpening(syn'[p])
      BY <3>2 DEF IsOpening, SynDone
    <3> QED BY <1>3, <3>1, <3>2, <3>3, StayReports
  <2>2. CASE OnSynAckSendSuccess(p, action)
    <3>1. CASE syn[p].incoming # "syn received"
      <4>1. UNCHANGED <<syn, fin>> /\ Stay(p)
        BY <2>2, <3>1 DEF OnSynAckSendSuccess
      <4> QED BY <1>3, <4>1, AsideReports
    <3>2. CASE syn[p].incoming = "syn received"
      <4>1. /\ syn' = [syn EXCEPT ![p].incoming = "syn ack sent"]
            /\ fin' = fin /\ OpenIfDone(p)
        BY <2>2, <3>2 DEF OnSynAckSendSuccess
      <4>2. /\ syn'[p].incoming = "syn ack sent" /\ syn'[p].outgoing = syn[p].outgoing
            /\ syn'[Other(p)] = syn[Other(p)]
        BY <1>4, <4>1, OtherType DEF SynState
      <4>3. IsOpening(syn[p]) => SynDone(syn'[p]) \/ IsOpening(syn'[p])
        BY <4>2 DEF IsOpening, SynDone
      <4> QED BY <1>3, <4>1, <4>2, <4>3, OpenIfDoneReports
    <3> QED BY <3>1, <3>2
  <2>3. CASE OnSendDataSuccess(p, action) \/ OnSendDataAckSuccess(p, action)
    <3>1. UNCHANGED <<syn, fin>> /\ Stay(p)
      BY <2>3 DEF OnSendDataSuccess, OnSendDataAckSuccess
    <3> QED BY <1>3, <3>1, AsideReports
  <2>4. CASE OnFinSendSuccess(p, action)
    <3>1. fin' = [fin EXCEPT ![p].outgoing = "fin sent"] /\ syn' = syn /\ Stay(p)
      BY <2>4 DEF OnFinSendSuccess
    <3>2. fin'[p].outgoing = "fin sent" /\ fin'[Other(p)] = fin[Other(p)]
      BY <1>4, <3>1, OtherType DEF FinState
    <3>3. IsClosing(fin'[p])
      BY <3>2, NoHandshakeYet DEF IsClosing, FinDone
    <3> QED BY <1>3, <3>1, <3>2, <3>3, StayReports
  <2>5. CASE OnFinAckSendSuccess(p, action)
    <3>1. CASE fin[p].incoming # "fin received"
      <4>1. UNCHANGED <<syn, fin>> /\ Stay(p)
        BY <2>5, <3>1 DEF OnFinAckSendSuccess
      <4> QED BY <1>3, <4>1, AsideReports
    <3>2. CASE fin[p].incoming = "fin received"
      <4> DEFINE f == [fin[p] EXCEPT !.incoming = "fin ack sent"]
      <4>1. CloseIfDone(p, f)
        BY <2>5, <3>2 DEF OnFinAckSendSuccess
      <4>2. f.incoming = "fin ack sent"
        BY <1>4 DEF FinState
      <4>3. f # NoHandshake
        BY <4>2, NoHandshakeYet
      <4> HIDE DEF f
      <4> QED BY <1>3, <4>1, <4>3, CloseIfDoneReports
    <3> QED BY <3>1, <3>2
  <2> QED BY <2>1, <2>2, <2>3, <2>4, <2>5 DEF OnSendSuccess
<1> QED BY <1>2, <1>3, <1>5 DEF ReportStep

LEMMA ReceiveReports ==
  ASSUME TypeOK, ReportInv, NEW p \in Peer, OnReceive(p)
  PROVE  ReportStep(p)
<1>1. /\ \E body : Receive(p, body)
      /\ UNCHANGED sending \/ \E actions : StartSends(p, actions)
  BY DEF OnReceive, OnSynReceived, OnSynAckReceived, OnFinReceived, OnFinAckReceived,
         OnDataWhenNotOpen, OnDataReceived, OnDataAckReceived,
         HandleAcknowledgeNumber, SendNextFrame
<1>2. phase' = phase /\ phase[p] # "none" /\ Reports(p) /\ timers' = timers
  BY <1>1 DEF Receive, ReportInv
<1>3. QueuesOfOther(p)
  BY <1>1, <1>2, StartSendsEffect DEF QueuesOfOther, TimerSet, SendingSet
<1>4. /\ syn[p] \in SynState /\ syn \in [Peer -> SynState]
      /\ fin[p] \in FinState /\ fin \in [Peer -> FinState]
  BY DEF TypeOK
<1>5. Reports(p)' /\ SocketOfOther(p)
  <2>1. CASE OnSynReceived(p)
    <3>1. syn' = [syn EXCEPT ![p].incoming = "syn received"] /\ fin' = fin /\ Stay(p)
      BY <2>1 DEF OnSynReceived
    <3>2. /\ syn'[p].incoming = "syn received" /\ syn'[p].outgoing = syn[p].outgoing
          /\ syn'[Other(p)] = syn[Other(p)]
      BY <1>4, <3>1, OtherType DEF SynState
    <3>3. IsOpening(syn[p]) => IsOpening(syn'[p])
      BY <3>2 DEF IsOpening, SynDone
    <3> QED BY <1>2, <3>1, <3>2, <3>3, StayReports
  <2>2. CASE OnSynAckReceived(p)
    <3>1. CASE syn[p].outgoing = "yet"
      <4>1. UNCHANGED <<syn, fin>> /\ Stay(p)
        BY <2>2, <3>1 DEF OnSynAckReceived
      <4> QED BY <1>2, <4>1, AsideReports
    <3>2. CASE syn[p].outgoing # "yet"
      <4>1. /\ syn' = [syn EXCEPT ![p].outgoing = "syn ack received"]
            /\ fin' = fin /\ OpenIfDone(p)
        BY <2>2, <3>2 DEF OnSynAckReceived
      <4>2. /\ syn'[p].outgoing = "syn ack received"
            /\ syn'[p].incoming = syn[p].incoming
            /\ syn'[Other(p)] = syn[Other(p)]
        BY <1>4, <4>1, OtherType DEF SynState
      <4>3. IsOpening(syn[p]) => SynDone(syn'[p]) \/ IsOpening(syn'[p])
        BY <4>2 DEF IsOpening, SynDone
      <4> QED BY <1>2, <4>1, <4>2, <4>3, OpenIfDoneReports
    <3> QED BY <3>1, <3>2
  <2>3. CASE OnFinReceived(p)
    <3>1. fin' = [fin EXCEPT ![p].incoming = "fin received"] /\ syn' = syn /\ Stay(p)
      BY <2>3 DEF OnFinReceived
    <3>2. fin'[p].incoming = "fin received" /\ fin'[Other(p)] = fin[Other(p)]
      BY <1>4, <3>1, OtherType DEF FinState
    <3>3. IsClosing(fin'[p])
      BY <3>2, NoHandshakeYet DEF IsClosing, FinDone
    <3> QED BY <1>2, <3>1, <3>2, <3>3, StayReports
  <2>4. CASE OnFinAckReceived(p)
    <3>1. CASE fin[p].outgoing = "yet"
      <4>1. UNCHANGED <<syn, fin>> /\ Stay(p)
        BY <2>4, <3>1 DEF OnFinAckReceived
      <4> QED BY <1>2, <4>1, AsideReports
    <3>2. CASE fin[p].outgoing # "yet"
      <4> DEFINE f == [fin[p] EXCEPT !.outgoing = "fin ack received"]
      <4>1. CloseIfDone(p, f)
        BY <2>4, <3>2 DEF OnFinAckReceived
      <4>2. f.outgoing = "fin ack received"
        BY <1>4 DEF FinState
      <4>3. f # NoHandshake
        BY <4>2, NoHandshakeYet
      <4> HIDE DEF f
      <4> QED BY <1>2, <4>1, <4>3, CloseIfDoneReports
    <3> QED BY <3>1, <3>2
  <2>5. CASE \E body \in BagToSet(network[p]) :
               \/ OnDataWhenNotOpen(p, body) \/ OnDataReceived(p, body)
               \/ OnDataAckReceived(p, body)
    <3>1. UNCHANGED <<syn, fin>> /\ Stay(p)
      BY <2>5 DEF OnDataWhenNotOpen, OnDataReceived, OnDataAckReceived
    <3> QED BY <1>2, <3>1, AsideReports
  <2> QED BY <2>1, <2>2, <2>3, <2>4, <2>5 DEF OnReceive
<1> QED BY <1>2, <1>3, <1>5 DEF ReportStep

LEMMA ApplicationReports ==
  ASSUME TypeOK, ReportInv, NEW p \in Peer, Application(p)
  PROVE  ReportStep(p)
<1>1. /\ UNCHANGED <<phase, timers, syn, fin>>
      /\ UNCHANGED sending \/ \E actions : StartSends(p, actions)
  BY DEF Application, SendData, CloseSocket, SendNextFrame
<1>2. QueuesOfOther(p)
  BY <1>1, StartSendsEffect DEF QueuesOfOther, TimerSet, SendingSet
<1>3. connecting[p] = "ok" /\ phase[p] # "none" /\ Reports(p)
  BY DEF Application, SendData, CloseSocket, ReportInv, Untouched
<1>4. CASE SendData(p)
  <2>1. Stay(p)
    BY <1>4 DEF SendData
  <2> QED BY <1>1, <1>2, <1>3, <2>1, AsideReports DEF ReportStep
<1>5. CASE CloseSocket(p)
  <2>1. UNCHANGED <<state, isOpen, connecting>>
    BY <1>5 DEF CloseSocket
  <2>2. Reports(p)' /\ SocketOfOther(p)
    BY <1>1, <1>3, <2>1
       DEF Reports, SocketOfOther, IsOpening, IsClosing, SynDone, FinDone
  <2> QED BY <1>1, <1>2, <1>3, <2>2 DEF ReportStep
<1> QED BY <1>4, <1>5 DEF Application

LEMMA OpeningReports ==
  ASSUME TypeOK, ReportInv, Connect \/ Accept \/ Reject
  PROVE  ReportStep(Client) \/ ReportStep(Server)
<1>1. /\ Client \in Peer /\ Server \in Peer /\ Client # Server
      /\ Other(Client) = Server /\ Other(Server) = Client
  BY PeerAssumption DEF Peer, Other
<1>2. phase \in [Peer -> {"none", "live", "rejected"}]
      /\ connecting \in [Peer -> PromiseState]
      /\ syn \in [Peer -> SynState] /\ syn[Server] \in SynState
  BY <1>1 DEF TypeOK
<1>3. CASE Connect
  <2>1. /\ UNCHANGED <<state, syn, fin, isOpen, timers>>
        /\ StartSends(Client, {NewSend(Control("syn"))})
        /\ phase'[Client] = "live" /\ phase'[Server] = phase[Server]
        /\ connecting'[Server] = connecting[Server]
    BY <1>1, <1>2, <1>3 DEF Connect
  <2>2. QueuesOfOther(Client)
    BY <1>1, <2>1, StartSendsEffect DEF QueuesOfOther, TimerSet
  <2>3. Reports(Client)' /\ SocketOfOther(Client)
    BY <1>1, <2>1 DEF ReportInv, Reports, SocketOfOther, IsOpening, IsClosing,
                      SynDone, FinDone
  <2> QED BY <1>1, <2>1, <2>2, <2>3 DEF ReportStep
<1>4. CASE Accept
  <2>1. /\ UNCHANGED <<state, fin, isOpen, timers>>
        /\ StartSends(Server, SynReplies(syn[Server]))
        /\ phase[Server] = "none"
        /\ phase'[Server] = "live" /\ phase'[Client] = phase[Client]
        /\ connecting'[Client] = connecting[Client]
        /\ syn' = [syn EXCEPT ![Server].incoming = "syn received"]
    BY <1>1, <1>2, <1>4 DEF Accept
  <2>2. QueuesOfOther(Server)
    BY <1>1, <2>1, StartSendsEffect DEF QueuesOfOther, TimerSet
  <2>3. syn[Server].outgoing = "yet" /\ Reports(Server)
    BY <1>1, <2>1 DEF ReportInv, Untouched
  <2>4. syn'[Server].outgoing = "yet" /\ syn'[Client] = syn[Client]
    BY <1>1, <1>2, <2>1, <2>3 DEF SynState
  <2>5. ~IsOpening(syn[Server]) /\ ~IsOpening(syn'[Server])
    BY <2>3, <2>4 DEF IsOpening
  <2>6. Reports(Server)'
    BY <2>1, <2>3, <2>5 DEF Reports, IsOpening, IsClosing, SynDone, FinDone
  <2>7. SocketOfOther(Server)
    BY <1>1, <2>1, <2>4 DEF SocketOfOther
  <2> QED BY <1>1, <2>1, <2>2, <2>6, <2>7 DEF ReportStep
<1>5. CASE Reject
  <2>1. /\ UNCHANGED <<state, syn, fin, isOpen, connecting, sending, timers>>
        /\ phase'[Server] = "rejected" /\ phase'[Client] = phase[Client]
    BY <1>1, <1>2, <1>5 DEF Reject, promiseVars
  <2>2. Reports(Server)' /\ SocketOfOther(Server) /\ QueuesOfOther(Server)
    BY <1>1, <2>1 DEF ReportInv, Reports, SocketOfOther, QueuesOfOther, SendingSet,
                      TimerSet, IsOpening, IsClosing, SynDone, FinDone
  <2> QED BY <1>1, <2>1, <2>2 DEF ReportStep
<1> QED BY <1>3, <1>4, <1>5

LEMMA ReportInit == Init => ReportInv
<1> SUFFICES ASSUME Init, NEW p \in Peer PROVE Reports(p) /\ Untouched(p)
  BY DEF ReportInv
<1>1. /\ state[p] = "closed" /\ syn[p] = NoHandshake /\ fin[p] = NoHandshake
      /\ isOpen[p] = FALSE /\ connecting[p] = "none"
      /\ SendingSet(p) = {} /\ TimerSet(p) = {}
  BY EmptyBagIsABag DEF Init, SendingSet, TimerSet
<1> QED BY <1>1, NoHandshakeYet DEF Reports, Untouched, IsOpening, IsClosing

LEMMA ReportNext == TypeOK /\ ReportInv /\ [Next]_vars => ReportInv'
<1> SUFFICES ASSUME TypeOK, ReportInv, [Next]_vars PROVE ReportInv'
  OBVIOUS
<1>1. CASE UNCHANGED vars
  BY <1>1 DEF vars, promiseVars, ReportInv, Reports, Untouched, SendingSet, TimerSet,
              IsOpening, IsClosing, SynDone, FinDone
<1>2. CASE Next
  <2>1. \E a \in Peer : ReportStep(a)
    <3>1. CASE Connect \/ Accept \/ Reject
      BY <3>1, OpeningReports DEF Peer
    <3>2. CASE ~(Connect \/ Accept \/ Reject)
      BY <1>2, <3>2, ApplicationReports, ReceiveReports, SuccessReports,
         FailureReports, TimeoutReports DEF Next
    <3> QED BY <3>1, <3>2
  <2> QED BY <2>1, ReportStepInv
<1> QED BY <1>1, <1>2

(* The state a socket reports always tells what its parts say: "open" and    *)
(* "close" actions and the overriding hook never leave it behind, in any     *)
(* order of frames, failures and timeouts, after any number of connections.  *)
THEOREM StateIsReported == Spec => []StateAgrees
<1>1. Init => ReportInv
  BY ReportInit
<1>2. TypeOK /\ ReportInv /\ [Next]_vars => ReportInv'
  BY ReportNext
<1>3. ReportInv => StateAgrees
  BY DEF ReportInv, Reports, StateAgrees
<1> QED BY <1>1, <1>2, <1>3, TypeCorrect, PTL DEF Spec

-----------------------------------------------------------------------------
(* The orderly close.  An end learns that the other one is closing from its *)
(* fin acks only; an end that closes without an error has had one.          *)

Ending(p) == fin[p].incoming # "yet"
ClosedOrderly(p) == everClosed[p] /\ ~failed[p]

CloseInvOf(p, q) ==
  /\ fin[p].outgoing = "fin ack received" => Ending(q)
  /\ ClosedOrderly(p) => Ending(q)
  /\ \A body \in NetworkSet(p) : body = Control("fin ack") => Ending(q)
  /\ \A action \in SendingSet(q) : action.body = Control("fin ack") => Ending(q)

CloseInv ==
  \A p \in Peer : /\ ~FinDone(fin[p])
                  /\ ~everClosed[Other(p)] => CloseInvOf(p, Other(p))

(* What a step of end a may do to what CloseInv speaks of.  told: it has    *)
(* had a fin ack; clause by clause this is HandshakeStep for fins.          *)
CloseStep(a) ==
  LET b == Other(a)
      told == \/ fin[a].outgoing = "fin ack received"
              \/ Control("fin ack") \in NetworkSet(a)
  IN
  /\ everClosed'[b] = everClosed[b] /\ failed'[b] = failed[b] /\ fin'[b] = fin[b]
  /\ everClosed[a] => everClosed'[a]
  /\ NetworkSet(a)' \subseteq NetworkSet(a)
  /\ SendingSet(b)' = SendingSet(b)
  /\ ~everClosed'[a] => (Ending(a) => Ending(a)')
  /\ fin'[a].outgoing = "fin ack received" => told
  /\ ClosedOrderly(a)' => ClosedOrderly(a) \/ told
  /\ ~FinDone(fin'[a])
  /\ \A body \in NetworkSet(b)' :
       \/ body \in NetworkSet(b)
       \/ body = Control("fin ack") =>
            \E action \in SendingSet(a) : action.body = Control("fin ack")
  /\ \A action \in SendingSet(a)' :
       action.body = Control("fin ack") =>
         \/ Ending(a)'
         \/ \E old \in SendingSet(a) : old.body = Control("fin ack")

LEMMA CloseStepInv ==
  ASSUME CloseInv, NEW a \in Peer, CloseStep(a)
  PROVE  CloseInv'
<1> DEFINE b == Other(a)
<1>1. b \in Peer /\ b # a /\ Other(b) = a /\ \A p \in Peer : p = a \/ p = b
  BY OtherType DEF Peer, Other
<1>2. ~FinDone(fin'[a]) /\ ~FinDone(fin'[b])
  BY <1>1 DEF CloseStep, CloseInv
<1>3. ASSUME ~everClosed'[b] PROVE CloseInvOf(a, b)'
  <2>1. CloseInvOf(a, b) /\ (Ending(b)' <=> Ending(b))
    BY <1>3 DEF CloseInv, CloseStep, Ending
  <2>2. \/ fin'[a].outgoing = "fin ack received" \/ ClosedOrderly(a)'
        \/ Control("fin ack") \in NetworkSet(a)'
        => Ending(b)'
    BY <2>1 DEF CloseInvOf, CloseStep
  <2>3. \A action \in SendingSet(b)' : action.body = Control("fin ack") => Ending(b)'
    BY <2>1 DEF CloseInvOf, CloseStep
  <2> QED BY <2>2, <2>3 DEF CloseInvOf
<1>4. ASSUME ~everClosed'[a] PROVE CloseInvOf(b, a)'
  <2>1. CloseInvOf(b, a) /\ (Ending(a) => Ending(a)')
    BY <1>1, <1>4 DEF CloseInv, CloseStep
  <2>2. /\ fin'[b].outgoing = "fin ack received" => Ending(a)'
        /\ ClosedOrderly(b)' => Ending(a)'
    BY <2>1 DEF CloseInvOf, CloseStep, ClosedOrderly
  <2>3. \A body \in NetworkSet(b)' : body = Control("fin ack") => Ending(a)'
    BY <2>1 DEF CloseInvOf, CloseStep
  <2>4. \A action \in SendingSet(a)' : action.body = Control("fin ack") => Ending(a)'
    BY <2>1 DEF CloseInvOf, CloseStep
  <2> QED BY <2>2, <2>3, <2>4 DEF CloseInvOf
<1>5. \A p \in Peer : (~FinDone(fin[p]))'
  BY <1>1, <1>2 DEF FinDone
<1> QED BY <1>1, <1>3, <1>4, <1>5 DEF CloseInv

(* What an error close, and a step that is not about fins, are to it. *)
LEMMA CloseAside ==
  ASSUME TypeOK, CloseInv, NEW a \in Peer,
         NetworkSet(a)' \subseteq NetworkSet(a),
         SendingSet(Other(a))' = SendingSet(Other(a)),
         \A body \in NetworkSet(Other(a))' :
           body \in NetworkSet(Other(a)) \/ body # Control("fin ack"),
         \A action \in SendingSet(a)' :
           action \in SendingSet(a) \/ action.body # Control("fin ack"),
         \/ UNCHANGED <<fin, everClosed, failed>>
         \/ \E timedOut : Close(a, TRUE, timedOut)
  PROVE  CloseStep(a)
<1>1. CASE UNCHANGED <<fin, everClosed, failed>>
  BY <1>1 DEF CloseStep, CloseInv, Ending, ClosedOrderly
<1>2. CASE \E timedOut : Close(a, TRUE, timedOut)
  <2>1. /\ everClosed'[a] /\ everClosed'[Other(a)] = everClosed[Other(a)]
        /\ failed'[a] /\ failed'[Other(a)] = failed[Other(a)]
        /\ fin'[a] = NoHandshake /\ fin'[Other(a)] = fin[Other(a)]
    <3>1. PICK timedOut : Close(a, TRUE, timedOut)
      BY <1>2
    <3>2. /\ everClosed' = [everClosed EXCEPT ![a] = TRUE]
          /\ failed' = [failed EXCEPT ![a] = @ \/ TRUE]
          /\ fin' = [fin EXCEPT ![a] = NoHandshake]
      BY <3>1 DEF Close
    <3>3. failed' = [failed EXCEPT ![a] = TRUE]
      BY <3>2
    <3>4. a \in Peer /\ Other(a) \in Peer /\ Other(a) # a
      BY OtherType
    <3>5. everClosed'[a] /\ everClosed'[Other(a)] = everClosed[Other(a)]
      BY <3>2, <3>4 DEF TypeOK
    <3>6. failed'[a] /\ failed'[Other(a)] = failed[Other(a)]
      BY <3>3, <3>4 DEF TypeOK
    <3>7. fin'[a] = NoHandshake /\ fin'[Other(a)] = fin[Other(a)]
      BY <3>2, <3>4 DEF TypeOK
    <3> QED BY <3>5, <3>6, <3>7
  <2>2. fin'[a].outgoing = "yet" /\ ~FinDone(fin'[a])
    BY <2>1, NoHandshakeYet DEF FinDone
  <2> QED BY <2>1, <2>2 DEF CloseStep, ClosedOrderly
<1> QED BY <1>1, <1>2

LEMMA FailureClose ==
  ASSUME TypeOK, CloseInv, NEW p \in Peer, NEW action \in BagToSet(sending[p]),
         OnSendFailure(p, action)
  PROVE  CloseStep(p)
<1>1. ~AckSendRetryable(action)
  BY DEF TypeOK, BagsOf, SendAction, AckSendRetryable
<1>2. PICK retries : /\ Fail(p, action, retries)
                     /\ retries \subseteq {RetryAfterFailure(action)}
                     /\ action.body.type = "fin ack" => retries = {}
  <2>1. CASE OnSynSendFailure(p, action)
    BY <2>1 DEF OnSynSendFailure
  <2>2. CASE OnSynAckSendFailure(p, action)
    BY <1>1, <2>2 DEF OnSynAckSendFailure
  <2>3. CASE OnSendDataFailure(p, action)
    BY <2>3 DEF OnSendDataFailure
  <2>4. CASE OnSendDataAckFailure(p, action)
    BY <1>1, <2>4 DEF OnSendDataAckFailure
  <2>5. CASE OnFinSendFailure(p, action)
    BY <2>5 DEF OnFinSendFailure
  <2>6. CASE OnFinAckSendFailure(p, action)
    BY <1>1, <2>6 DEF OnFinAckSendFailure
  <2> QED BY <2>1, <2>2, <2>3, <2>4, <2>5, <2>6 DEF OnSendFailure
<1>3. \/ UNCHANGED <<fin, everClosed, failed>>
      \/ \E timedOut : Close(p, TRUE, timedOut)
  BY StayEffect
     DEF OnSendFailure, OnSynSendFailure, OnSynAckSendFailure, OnSendDataFailure,
         OnSendDataAckFailure, OnFinSendFailure, OnFinAckSendFailure
<1>4. /\ SendingSet(p)' \subseteq SendingSet(p) \cup retries
      /\ SendingSet(Other(p))' = SendingSet(Other(p))
      /\ NetworkSet(p)' = NetworkSet(p)
      /\ NetworkSet(Other(p))' = NetworkSet(Other(p))
  BY <1>2, FailEffect DEF NetworkSet
<1>5. \A retry \in retries : retry.body # Control("fin ack")
  <2>1. \A retry \in retries :
          retry.body = action.body /\ action.body.type # "fin ack"
    BY <1>2, RetryBody
  <2> QED BY <2>1, OtherThanControl
<1> QED BY <1>3, <1>4, <1>5, CloseAside

LEMMA TimeoutClose ==
  ASSUME TypeOK, CloseInv, NEW p \in Peer, NEW timeout \in BagToSet(timers[p]),
         OnReceiveAckTimeout(p, timeout)
  PROVE  CloseStep(p)
<1>1. timeout.body.type # "fin ack"
  BY DEF OnReceiveAckTimeout, OnSynAckReceiveTimeout, OnReceiveDataAckTimeout,
         OnFinAckReceiveTimeout
<1>2. PICK retries : /\ Expire(p, timeout, retries)
                     /\ retries \subseteq {RetryAfterAckTimeout(timeout)}
  <2>1. CASE OnSynAckReceiveTimeout(p, timeout)
    BY <2>1 DEF OnSynAckReceiveTimeout
  <2>2. CASE OnReceiveDataAckTimeout(p, timeout)
    BY <2>2 DEF OnReceiveDataAckTimeout
  <2>3. CASE OnFinAckReceiveTimeout(p, timeout)
    BY <2>3 DEF OnFinAckReceiveTimeout
  <2> QED BY <2>1, <2>2, <2>3 DEF OnReceiveAckTimeout
<1>3. \/ UNCHANGED <<fin, everClosed, failed>>
      \/ \E timedOut : Close(p, TRUE, timedOut)
  BY StayEffect DEF OnReceiveAckTimeout, OnSynAckReceiveTimeout,
                    OnReceiveDataAckTimeout, OnFinAckReceiveTimeout
<1>4. /\ SendingSet(p)' = SendingSet(p) \cup retries
      /\ SendingSet(Other(p))' = SendingSet(Other(p))
      /\ NetworkSet(p)' = NetworkSet(p)
      /\ NetworkSet(Other(p))' = NetworkSet(Other(p))
  BY <1>2, ExpireEffect DEF NetworkSet
<1>5. \A retry \in retries : retry.body # Control("fin ack")
  <2>1. \A retry \in retries :
          retry.body = timeout.body /\ timeout.body.type # "fin ack"
    BY <1>1, <1>2, RetryBody
  <2> QED BY <2>1, OtherThanControl
<1> QED BY <1>3, <1>4, <1>5, CloseAside

(* The end of a handshake of fins: it goes on, or it is the close. *)
LEMMA CloseIfDoneFin ==
  ASSUME TypeOK, NEW p \in Peer, NEW f, f # NoHandshake, CloseIfDone(p, f)
  PROVE  /\ everClosed'[Other(p)] = everClosed[Other(p)]
         /\ failed'[Other(p)] = failed[Other(p)]
         /\ fin'[Other(p)] = fin[Other(p)]
         /\ everClosed[p] => everClosed'[p]
         /\ ~FinDone(fin'[p])
         /\ fin'[p].outgoing = "fin ack received" => f.outgoing = "fin ack received"
         /\ ~everClosed'[p] => fin'[p] = f
         /\ ClosedOrderly(p)' => ClosedOrderly(p) \/ f.outgoing = "fin ack received"
<1>1. CASE FinDone(f)
  <2>1. Close(p, FALSE, {}) /\ f.outgoing = "fin ack received"
    BY <1>1 DEF CloseIfDone, FinDone
  <2>2. /\ everClosed'[p] /\ everClosed'[Other(p)] = everClosed[Other(p)]
        /\ failed'[Other(p)] = failed[Other(p)]
        /\ fin'[p] = NoHandshake /\ fin'[Other(p)] = fin[Other(p)]
    BY <2>1, OtherType DEF TypeOK, Close
  <2>3. fin'[p].outgoing = "yet"
    BY <2>2, NoHandshakeYet
  <2> QED BY <2>1, <2>2, <2>3 DEF FinDone
<1>2. CASE ~FinDone(f)
  <2>1. fin' = [fin EXCEPT ![p] = f] /\ UNCHANGED <<everClosed, failed>>
    BY <1>2, StayEffect DEF CloseIfDone
  <2>2. fin'[p] = f /\ fin'[Other(p)] = fin[Other(p)]
    BY <2>1, OtherType DEF TypeOK
  <2> QED BY <1>2, <2>1, <2>2 DEF ClosedOrderly
<1> QED BY <1>1, <1>2

LEMMA SuccessClose ==
  ASSUME TypeOK, CloseInv, NEW p \in Peer, NEW action \in BagToSet(sending[p]),
         OnSendSuccess(p, action)
  PROVE  CloseStep(p)
<1>1. action.body \in Body
  BY SendingBody DEF SendingSet
<1>2. Transmit(p, action)
  BY DEF OnSendSuccess, OnSynSendSuccess, OnSynAckSendSuccess, OnSendDataSuccess,
         OnSendDataAckSuccess, OnFinSendSuccess, OnFinAckSendSuccess
<1>3. /\ action \in SendingSet(p)
      /\ SendingSet(p)' \subseteq SendingSet(p)
      /\ SendingSet(Other(p))' = SendingSet(Other(p))
      /\ NetworkSet(p)' = NetworkSet(p)
      /\ NetworkSet(Other(p))' \subseteq NetworkSet(Other(p)) \cup {Wire(action.body)}
  BY <1>2, TransmitEffect
<1>4. fin[p] \in FinState /\ fin \in [Peer -> FinState]
  BY DEF TypeOK
<1>5. CASE \/ OnSynSendSuccess(p, action) \/ OnSynAckSendSuccess(p, action)
           \/ OnSendDataSuccess(p, action) \/ OnSendDataAckSuccess(p, action)
  <2>1. /\ action.body.type # "fin ack"
        /\ UNCHANGED <<fin, everClosed, failed>>
    BY <1>5, StayEffect DEF OnSynSendSuccess, OnSynAckSendSuccess, OnSendDataSuccess,
                            OnSendDataAckSuccess, OpenIfDone, Open
  <2>2. Wire(action.body) # Control("fin ack")
    <3>1. Wire(action.body).type = action.body.type
      BY <1>1, WireOfControl
    <3> QED BY <2>1, <3>1, OtherThanControl
  <2> QED BY <1>3, <2>1, <2>2, CloseAside
<1>6. CASE OnFinSendSuccess(p, action)
  <2>1. /\ fin' = [fin EXCEPT ![p].outgoing = "fin sent"]
        /\ UNCHANGED <<everClosed, failed>> /\ action.body.type = "fin"
    BY <1>6, StayEffect DEF OnFinSendSuccess
  <2>2. /\ fin'[p].outgoing = "fin sent" /\ fin'[p].incoming = fin[p].incoming
        /\ fin'[Other(p)] = fin[Other(p)]
    BY <1>4, <2>1, OtherType DEF FinState
  <2>3. Wire(action.body) # Control("fin ack")
    <3>1. Wire(action.body).type = "fin"
      BY <1>1, <2>1, WireOfControl
    <3> QED BY <3>1, OtherThanControl
  <2> QED BY <1>3, <2>1, <2>2, <2>3 DEF CloseStep, Ending, ClosedOrderly, FinDone
<1>7. CASE OnFinAckSendSuccess(p, action)
  <2>1. action.body = Control("fin ack")
    <3>1. action.body.type = "fin ack"
      BY <1>7 DEF OnFinAckSendSuccess
    <3> QED BY <1>1, <3>1, WireOfControl DEF ControlAckType
  <2>2. CASE fin[p].incoming # "fin received"
    <3>1. UNCHANGED <<fin, everClosed, failed>>
      BY <1>7, <2>2, StayEffect DEF OnFinAckSendSuccess
    <3> QED BY <1>3, <2>1, <3>1 DEF CloseStep, CloseInv, Ending, ClosedOrderly
  <2>3. CASE fin[p].incoming = "fin received"
    <3> DEFINE f == [fin[p] EXCEPT !.incoming = "fin ack sent"]
    <3>1. CloseIfDone(p, f)
      BY <1>7, <2>3 DEF OnFinAckSendSuccess
    <3>2. f.incoming = "fin ack sent" /\ f.outgoing = fin[p].outgoing
      BY <1>4 DEF FinState
    <3>3. f # NoHandshake
      BY <3>2, NoHandshakeYet
    <3> HIDE DEF f
    <3>4. ~everClosed'[p] => Ending(p)'
      BY <3>1, <3>2, <3>3, CloseIfDoneFin DEF Ending
    <3> QED BY <1>3, <2>1, <3>1, <3>2, <3>3, <3>4, CloseIfDoneFin DEF CloseStep
  <2> QED BY <2>2, <2>3
<1> QED BY <1>5, <1>6, <1>7 DEF OnSendSuccess

LEMMA ReceiveClose ==
  ASSUME TypeOK, CloseInv, NEW p \in Peer, OnReceive(p)
  PROVE  CloseStep(p)
<1>1. fin[p] \in FinState /\ fin \in [Peer -> FinState]
  BY DEF TypeOK
<1>2. CASE OnSynReceived(p) \/ OnSynAckReceived(p)
  <2>1. /\ NetworkSet(p)' \subseteq NetworkSet(p)
        /\ NetworkSet(Other(p))' = NetworkSet(Other(p))
    BY <1>2, ReceiveEffect DEF OnSynReceived, OnSynAckReceived
  <2>2. /\ SendingSet(p)' \subseteq SendingSet(p) \cup SynReplies(syn[p])
        /\ SendingSet(Other(p))' = SendingSet(Other(p))
    BY <1>2, StartSendsEffect DEF OnSynReceived, OnSynAckReceived, SendingSet
  <2>3. \A action \in SynReplies(syn[p]) : action.body # Control("fin ack")
    BY SynRepliesBody, ControlOfType, OtherThanControl
  <2>4. UNCHANGED <<fin, everClosed, failed>>
    BY <1>2, StayEffect DEF OnSynReceived, OnSynAckReceived, OpenIfDone, Open
  <2> QED BY <2>1, <2>2, <2>3, <2>4, CloseAside
<1>3. CASE OnFinReceived(p)
  <2>1. /\ NetworkSet(p)' \subseteq NetworkSet(p)
        /\ NetworkSet(Other(p))' = NetworkSet(Other(p))
    BY <1>3, ReceiveEffect DEF OnFinReceived
  <2>2. SendingSet(Other(p))' = SendingSet(Other(p))
    BY <1>3, StartSendsEffect DEF OnFinReceived
  <2>3. /\ fin' = [fin EXCEPT ![p].incoming = "fin received"]
        /\ UNCHANGED <<everClosed, failed>>
    BY <1>3, StayEffect DEF OnFinReceived
  <2>4. /\ fin'[p].incoming = "fin received" /\ fin'[p].outgoing = fin[p].outgoing
        /\ fin'[Other(p)] = fin[Other(p)]
    BY <1>1, <2>3, OtherType DEF FinState
  <2> QED BY <2>1, <2>2, <2>3, <2>4 DEF CloseStep, Ending, ClosedOrderly, FinDone
<1>4. CASE OnFinAckReceived(p)
  <2>1. /\ Control("fin ack") \in NetworkSet(p)
        /\ NetworkSet(p)' \subseteq NetworkSet(p)
        /\ NetworkSet(Other(p))' = NetworkSet(Other(p))
    BY <1>4, ReceiveEffect DEF OnFinAckReceived
  <2>2. \A o \in Peer : SendingSet(o)' = SendingSet(o)
    BY <1>4 DEF OnFinAckReceived, SendingSet
  <2>3. CASE fin[p].outgoing = "yet"
    <3>1. UNCHANGED <<fin, everClosed, failed>>
      BY <1>4, <2>3, StayEffect DEF OnFinAckReceived
    <3> QED BY <2>1, <2>2, <3>1, OtherType, CloseAside
  <2>4. CASE fin[p].outgoing # "yet"
    <3> DEFINE f == [fin[p] EXCEPT !.outgoing = "fin ack received"]
    <3>1. CloseIfDone(p, f)
      BY <1>4, <2>4 DEF OnFinAckReceived
    <3>2. f.outgoing = "fin ack received" /\ f.incoming = fin[p].incoming
      BY <1>1 DEF FinState
    <3>3. f # NoHandshake
      BY <3>2, NoHandshakeYet
    <3> HIDE DEF f
    <3>4. ~everClosed'[p] => (Ending(p) => Ending(p)')
      BY <3>1, <3>2, <3>3, CloseIfDoneFin DEF Ending
    <3>5. /\ everClosed'[Other(p)] = everClosed[Other(p)]
          /\ failed'[Other(p)] = failed[Other(p)]
          /\ fin'[Other(p)] = fin[Other(p)]
          /\ everClosed[p] => everClosed'[p]
          /\ ~FinDone(fin'[p])
      BY <3>1, <3>3, CloseIfDoneFin
    <3> QED BY <2>1, <2>2, <3>4, <3>5, OtherType DEF CloseStep
  <2> QED BY <2>3, <2>4
<1>5. ASSUME NEW body, \/ OnDataWhenNotOpen(p, body) \/ OnDataReceived(p, body)
                       \/ OnDataAckReceived(p, body)
      PROVE  CloseStep(p)
  <2>1. Receive(p, body) /\ UNCHANGED <<fin, everClosed, failed>>
    BY <1>5, StayEffect DEF OnDataWhenNotOpen, OnDataReceived, OnDataAckReceived
  <2>2. /\ NetworkSet(p)' \subseteq NetworkSet(p)
        /\ NetworkSet(Other(p))' = NetworkSet(Other(p))
    BY <2>1, ReceiveEffect
  <2>3. /\ \A action \in SendingSet(p)' :
             action \in SendingSet(p) \/ action.body.type \in {"data", "data ack"}
        /\ SendingSet(Other(p))' = SendingSet(Other(p))
    <3>1. CASE OnDataWhenNotOpen(p, body)
      BY <3>1 DEF OnDataWhenNotOpen, SendingSet
    <3>2. CASE OnDataReceived(p, body)
      <4> DEFINE replies == IF body.seq > nextReceive[p] THEN {}
                            ELSE {NewAckSend(DataAck(nextReceive'[p]))}
      <4>1. HandleAcknowledgeNumber(p, body.ack, replies)
        BY <3>2 DEF OnDataReceived
      <4>2. \A action \in replies : action.body.type = "data ack"
        BY DataAckOfType
      <4> HIDE DEF replies
      <4> QED BY <4>1, <4>2, AcknowledgeSends
    <3>3. CASE OnDataAckReceived(p, body)
      <4>1. HandleAcknowledgeNumber(p, body.ack, {})
        BY <3>3 DEF OnDataAckReceived
      <4>2. /\ \A action \in SendingSet(p)' :
                 \/ action \in SendingSet(p) \cup {}
                 \/ action.body.type = "data"
            /\ SendingSet(Other(p))' = SendingSet(Other(p))
        BY <4>1, AcknowledgeSends
      <4> QED BY <4>2
    <3> QED BY <1>5, <3>1, <3>2, <3>3
  <2>4. \A action \in SendingSet(p)' :
          action \in SendingSet(p) \/ action.body # Control("fin ack")
    BY <2>3, OtherThanControl
  <2> QED BY <2>1, <2>2, <2>3, <2>4, CloseAside
<1> QED BY <1>2, <1>3, <1>4, <1>5 DEF OnReceive

(* The application's calls and the opening of a socket start a fin, a syn or *)
(* a syn ack, and leave the fins exchanged so far alone.                    *)
LEMMA ApplicationClose ==
  ASSUME TypeOK, CloseInv, NEW p \in Peer, Application(p)
  PROVE  CloseStep(p)
<1>1. UNCHANGED <<fin, everClosed, failed>>
  BY StayEffect DEF Application, SendData, CloseSocket, historyVars
<1>2. /\ SendingSet(Other(p))' = SendingSet(Other(p))
      /\ \A action \in SendingSet(p)' :
           action \in SendingSet(p) \/ action.body # Control("fin ack")
  BY ApplicationSends, OtherThanControl
<1>3. \A o \in Peer : NetworkSet(o)' = NetworkSet(o)
  BY ApplicationSends DEF NetworkSet
<1> QED BY <1>1, <1>2, <1>3, OtherType, CloseAside

LEMMA OpeningClose ==
  ASSUME TypeOK, CloseInv, NEW p \in Peer,
         \/ p = Client /\ Connect
         \/ p = Server /\ (Accept \/ Reject)
  PROVE  CloseStep(p)
<1>1. UNCHANGED <<fin, everClosed, failed>>
  BY DEF Connect, Accept, Reject, historyVars
<1>2. /\ NetworkSet(p)' \subseteq NetworkSet(p)
      /\ NetworkSet(Other(p))' = NetworkSet(Other(p))
  <2>1. CASE Connect
    BY <2>1 DEF Connect, NetworkSet
  <2>2. CASE p = Server /\ (Accept \/ Reject)
    <3>1. PICK body : network' = [network EXCEPT ![p] = Minus(@, body)]
      BY <2>2 DEF Accept, Reject
    <3> QED BY <3>1, MinusBag, OtherType DEF TypeOK, BagsOf, NetworkSet
  <2> QED BY <2>1, <2>2
<1>3. /\ SendingSet(Other(p))' = SendingSet(Other(p))
      /\ \A action \in SendingSet(p)' :
           action \in SendingSet(p) \/ action.body # Control("fin ack")
  <2>1. CASE p = Client /\ Connect
    <3>1. /\ SendingSet(p)' = SendingSet(p) \cup {NewSend(Control("syn"))}
          /\ SendingSet(Other(p))' = SendingSet(Other(p))
      BY <2>1, StartSendsEffect DEF Connect
    <3>2. NewSend(Control("syn")).body # Control("fin ack")
      BY RetryBody, ControlOfType, OtherThanControl
    <3> QED BY <3>1, <3>2
  <2>2. CASE p = Server /\ Accept
    <3>1. /\ SendingSet(p)' = SendingSet(p) \cup SynReplies(syn[p])
          /\ SendingSet(Other(p))' = SendingSet(Other(p))
      BY <2>2, StartSendsEffect DEF Accept
    <3>2. \A action \in SynReplies(syn[p]) : action.body # Control("fin ack")
      BY SynRepliesBody, ControlOfType, OtherThanControl
    <3> QED BY <3>1, <3>2
  <2>3. CASE Reject
    BY <2>3 DEF Reject, SendingSet
  <2> QED BY <2>1, <2>2, <2>3
<1> QED BY <1>1, <1>2, <1>3, CloseAside

LEMMA CloseInit == Init => CloseInv
<1> SUFFICES ASSUME Init, NEW p \in Peer
             PROVE  ~FinDone(fin[p]) /\ CloseInvOf(p, Other(p))
  BY DEF CloseInv
<1>1. \A o \in Peer : /\ fin[o] = NoHandshake /\ ~everClosed[o]
                      /\ BagToSet(sending[o]) = {} /\ BagToSet(network[o]) = {}
  BY EmptyBagIsABag DEF Init
<1> QED BY <1>1, OtherType, NoHandshakeYet
        DEF CloseInvOf, Ending, ClosedOrderly, FinDone, SendingSet, NetworkSet

LEMMA CloseNext == TypeOK /\ CloseInv /\ [Next]_vars => CloseInv'
<1> SUFFICES ASSUME TypeOK, CloseInv, [Next]_vars PROVE CloseInv'
  OBVIOUS
<1>1. CASE UNCHANGED vars
  BY <1>1 DEF vars, historyVars, CloseInv, CloseInvOf, Ending, ClosedOrderly, FinDone,
              NetworkSet, SendingSet
<1>2. CASE Next
  <2>1. Client \in Peer /\ Server \in Peer
    BY DEF Peer
  <2>2. \E a \in Peer : CloseStep(a)
    <3>1. CASE Connect \/ Accept \/ Reject
      <4>1. Connect => CloseStep(Client)
        BY <2>1, OpeningClose
      <4>2. Accept \/ Reject => CloseStep(Server)
        BY <2>1, OpeningClose
      <4> QED BY <2>1, <3>1, <4>1, <4>2
    <3>2. CASE ~(Connect \/ Accept \/ Reject)
      BY <1>2, <3>2, ApplicationClose, ReceiveClose, SuccessClose, FailureClose,
         TimeoutClose DEF Next
    <3> QED BY <3>1, <3>2
  <2> QED BY <2>2, CloseStepInv
<1> QED BY <1>1, <1>2

(* An end that closed without an error has seen its fin acknowledged, so     *)
(* that the other end is closing or has closed, whatever frames were lost,   *)
(* sent again or overtaken.                                                 *)
THEOREM CloseIsOrderly == Spec => []OrderlyClose
<1>1. Init => CloseInv
  BY CloseInit
<1>2. TypeOK /\ CloseInv /\ [Next]_vars => CloseInv'
  BY CloseNext
<1>3. CloseInv /\ StateAgrees => OrderlyClose
  <2> SUFFICES ASSUME CloseInv, StateAgrees, NEW p \in Peer,
                      ClosedOrderly(p), ~everClosed[Other(p)]
               PROVE  state[Other(p)] = "closing"
    BY DEF OrderlyClose, ClosedOrderly
  <2>1. Ending(Other(p)) /\ ~FinDone(fin[Other(p)])
    BY OtherType DEF CloseInv, CloseInvOf
  <2>2. IsClosing(fin[Other(p)])
    BY <2>1, NoHandshakeYet DEF Ending, IsClosing
  <2> QED BY <2>2, OtherType DEF StateAgrees
<1> QED BY <1>1, <1>2, <1>3, TypeCorrect, StateIsReported, PTL DEF Spec

-----------------------------------------------------------------------------
(* What is sent and what is delivered.                                      *)

(* What a step of end a may do to what DeliveryInv speaks of.  A body that  *)
(* it starts to send is an old one or keeps the invariant by itself.        *)
DataTypes == {"data", "data ack"}

OtherEndKept(a) ==
  LET b == Other(a) IN
  /\ nextSend'[b] = nextSend[b] /\ nextReceive'[b] = nextReceive[b]
  /\ sendingFrame'[b] = sendingFrame[b]
  /\ sendPendingFrames'[b] = sendPendingFrames[b]
  /\ result'[b] = result[b] /\ received'[b] = received[b]
  /\ everClosed'[b] = everClosed[b]
  /\ SendingSet(b)' = SendingSet(b) /\ TimerSet(b)' = TimerSet(b)
  /\ NetworkSet(a)' \subseteq NetworkSet(a)

NewBody(a, body) ==
  /\ ~everClosed'[a] => Carries(a, body)'
  /\ ~everClosed[Other(a)] => AcksDelivered(a, body)'

BodiesFollow(a) ==
  /\ \A action \in SendingSet(a)' :
       action.body \in Outgoing(a) \/ NewBody(a, action.body)
  /\ \A timeout \in TimerSet(a)' : timeout.body \in Outgoing(a)
  /\ \A body \in NetworkSet(Other(a))' :
       \/ body \in NetworkSet(Other(a))
       \/ \E old \in Outgoing(a) : body = Wire(old)

DeliveryStep(a) ==
  LET b == Other(a) IN
  /\ OtherEndKept(a)
  /\ everClosed[a] => everClosed'[a]
  /\ BodiesFollow(a)
  /\ ~everClosed'[a] =>
       QueueInv(a)' /\ Numbered(a) <= Numbered(a)' /\ OkInv(a, b)'
  /\ \A k \in Nat : Delivered(a, k) => Delivered(a, k)'
  /\ ~everClosed[b] =>
       /\ \A i \in 1..Len(received'[a]) : received'[a][i] \in 1..Numbered(b)
       /\ \A k \in 1..nextReceive'[a] : Delivered(a, k)'
  /\ ~everClosed[b] /\ ~everClosed'[a] => OrderInv(a)'

-----------------------------------------------------------------------------
LEMMA OutgoingParts ==
  ASSUME NEW p
  PROVE  /\ \A body : body \in Outgoing(p) <=>
              \/ \E action \in SendingSet(p) : body = action.body
              \/ \E timeout \in TimerSet(p) : body = timeout.body
              \/ body \in NetworkSet(Other(p))
         /\ \A body : body \in Outgoing(p)' <=>
              \/ \E action \in SendingSet(p)' : body = action.body
              \/ \E timeout \in TimerSet(p)' : body = timeout.body
              \/ body \in NetworkSet(Other(p))'
  BY DEF Outgoing, SendingSet, TimerSet, NetworkSet

LEMMA OutgoingType ==
  ASSUME TypeOK, NEW p \in Peer
  PROVE  Outgoing(p) \subseteq Body
  BY SendingBody, OutgoingParts, OtherType

LEMMA NumberedType ==
  ASSUME TypeOK, NEW p \in Peer
  PROVE  Numbered(p) \in Nat /\ Numbered(p) <= nextSend[p] + 1
  BY DEF TypeOK, Numbered

LEMMA DataOfType ==
  ASSUME NEW body \in Body
  PROVE  /\ body.type = "data" => body \in DataBody
         /\ body.type = "data ack" => body \in DataAckBody
  BY DEF Body, ControlBody, DataBody, DataAckBody, RequestType, ControlAckType

(* The wire does not change the meaning of a frame: its number is below the *)
(* modulus, and an acknowledgement only shrinks.                            *)
LEMMA WireCarries ==
  ASSUME TypeOK, NEW p \in Peer, QueueInv(p),
         NEW body \in Body, Carries(p, body)
  PROVE  Carries(p, Wire(body))
<1>1. Wire(body).type = body.type
  BY WireOfControl
<1>2. CASE body.type # "data"
  BY <1>1, <1>2 DEF Carries
<1>3. CASE body.type = "data"
  <2>1. body.seq \in Nat /\ body.payload \in Nat /\ body.ack \in Nat
    BY <1>3, DataOfType DEF DataBody
  <2>2. body.seq < SeqModulus
    <3>1. body.payload = body.seq + 1 /\ body.payload <= Numbered(p)
      BY <1>3 DEF Carries
    <3>2. Numbered(p) \in Nat /\ Numbered(p) <= nextSend[p] + 1
      BY NumberedType
    <3>3. nextSend[p] \in Nat /\ nextSend[p] < SeqModulus
      BY DEF QueueInv, TypeOK
    <3> QED BY <2>1, <3>1, <3>2, <3>3, SeqModulusAssumption
  <2>3. body.seq % SeqModulus = body.seq
    BY <2>1, <2>2, SeqModulusAssumption
  <2>4. Wire(body).seq = body.seq /\ Wire(body).payload = body.payload
    BY <1>3, <2>3 DEF Wire, Data
  <2> QED BY <1>3, <2>4 DEF Carries
<1> QED BY <1>2, <1>3

LEMMA WireAcks ==
  ASSUME NEW q, NEW body \in Body, AcksDelivered(q, body)
  PROVE  AcksDelivered(q, Wire(body))
<1>1. Wire(body).type = body.type
  BY WireOfControl
<1>2. CASE body.type \notin DataTypes
  BY <1>1, <1>2 DEF AcksDelivered, DataTypes
<1>3. CASE body.type \in DataTypes
  <2>1. body.ack \in Nat
    BY <1>3, DataOfType DEF DataBody, DataAckBody, DataTypes
  <2>2. Wire(body).ack = body.ack % SeqModulus
    BY <1>3 DEF Wire, Data, DataAck, DataTypes
  <2>3. Wire(body).ack \in Nat /\ Wire(body).ack <= body.ack
    BY <2>1, <2>2, ModuloNat
  <2>4. \A k \in 1..Wire(body).ack : k \in 1..body.ack
    BY <2>1, <2>3
  <2>5. \A k \in 1..body.ack : Delivered(q, k)
    BY <1>3, Zenon DEF AcksDelivered, DataTypes
  <2> QED BY <2>4, <2>5, Zenon DEF AcksDelivered
<1> QED BY <1>2, <1>3

LEMMA WireAckBounded ==
  ASSUME NEW body \in Body, body.type \in DataTypes
  PROVE  Wire(body).ack < SeqModulus
<1>1. body.ack \in Nat
  BY DataOfType DEF DataBody, DataAckBody, DataTypes
<1>2. Wire(body).ack = body.ack % SeqModulus
  BY DEF Wire, Data, DataAck, DataTypes
<1> QED BY <1>1, <1>2, ModuloNat

-----------------------------------------------------------------------------
LEMMA DeliveryStepInv ==
  ASSUME TypeOK, TypeOK', DeliveryInv, NEW a \in Peer, DeliveryStep(a)
  PROVE  DeliveryInv'
<1> DEFINE b == Other(a)
<1>1. b \in Peer /\ b # a /\ Other(b) = a
  BY OtherType
<1>2. \A p \in Peer : p = a \/ p = b
  BY DEF Peer, Other
<1>3. Outgoing(a) \subseteq Body /\ Outgoing(b) \subseteq Body
  BY <1>1, OutgoingType
<1>4. Outgoing(b)' \subseteq Outgoing(b)
  BY <1>1, OutgoingParts DEF DeliveryStep, OtherEndKept
<1>5. \A body \in Outgoing(a)' :
        \/ body \in Outgoing(a) \/ NewBody(a, body)
        \/ \E old \in Outgoing(a) : body = Wire(old)
  BY <1>1, OutgoingParts DEF DeliveryStep, BodiesFollow
<1>6. OnTheWireInv'
  <2>1. SUFFICES ASSUME NEW p \in Peer, NEW body \in NetworkSet(p)',
                        body.type \in DataTypes
                 PROVE  body.ack < SeqModulus
    BY DEF OnTheWireInv, NetworkSet, DataTypes
  <2>2. CASE body \in NetworkSet(p)
    BY <2>1, <2>2 DEF DeliveryInv, OnTheWireInv, NetworkSet, DataTypes
  <2>3. CASE body \notin NetworkSet(p)
    <3>1. PICK old \in Outgoing(a) : body = Wire(old)
      BY <1>1, <1>2, <2>1, <2>3 DEF DeliveryStep, OtherEndKept, BodiesFollow
    <3>2. old \in Body /\ old.type \in DataTypes
      BY <1>3, <2>1, <3>1, WireOfControl
    <3> QED BY <3>1, <3>2, WireAckBounded
  <2> QED BY <2>2, <2>3
<1>7. ASSUME ~everClosed'[a]
      PROVE  /\ QueueInv(a)' /\ FramesInv(a)' /\ AcksInv(a, b)' /\ OkInv(a, b)'
             /\ ~everClosed'[b] => OrderInv(b)'
  <2>1. /\ QueueInv(a) /\ FramesInv(a) /\ AcksInv(a, b)
        /\ ~everClosed[b] => OrderInv(b)
    BY <1>1, <1>7 DEF DeliveryInv, DeliveryStep
  <2>2. QueueInv(a)' /\ Numbered(a) <= Numbered(a)' /\ OkInv(a, b)'
    BY <1>7 DEF DeliveryStep
  <2>3. Numbered(a) \in Nat /\ Numbered(a)' \in Nat
    BY NumberedType DEF Numbered, TypeOK
  <2>4. FramesInv(a)'
    <3>1. SUFFICES ASSUME NEW body \in Outgoing(a)' PROVE Carries(a, body)'
      BY DEF FramesInv
    <3>2. \A old \in Body : Carries(a, old) => Carries(a, old)'
      <4>1. SUFFICES ASSUME NEW old \in Body, Carries(a, old), old.type = "data"
                     PROVE  Carries(a, old)'
        BY DEF Carries
      <4>2. old.payload \in Nat
        BY <4>1, DataOfType DEF DataBody
      <4> QED BY <2>2, <2>3, <4>1, <4>2 DEF Carries
    <3>3. CASE body \in Outgoing(a)
      BY <1>3, <2>1, <3>2, <3>3 DEF FramesInv
    <3>4. CASE NewBody(a, body)
      BY <1>7, <3>4 DEF NewBody
    <3>5. ASSUME NEW old \in Outgoing(a), body = Wire(old)
          PROVE  Carries(a, body)'
      <4>1. old \in Body /\ Carries(a, old)
        BY <1>3, <2>1 DEF FramesInv
      <4>2. Wire(old) \in Body /\ Carries(a, Wire(old))
        BY <2>1, <4>1, WireCarries, WireType
      <4> QED BY <3>2, <3>5, <4>2
    <3> QED BY <1>5, <3>1, <3>3, <3>4, <3>5
  <2>5. AcksInv(a, b)'
    <3>1. \A k : Delivered(b, k)' <=> Delivered(b, k)
      BY DEF Delivered, DeliveryStep, OtherEndKept
    <3>2. \A body \in Outgoing(b)' : AcksDelivered(b, body)'
      BY <1>4, <2>1, <3>1 DEF AcksInv, AcksDelivered
    <3>3. \A k \in 1..nextReceive'[b] : Delivered(b, k)'
      BY <2>1, <3>1 DEF AcksInv, DeliveryStep, OtherEndKept
    <3>4. \A i \in 1..Len(received'[b]) : received'[b][i] \in 1..Numbered(a)'
      BY <2>1, <2>2, <2>3 DEF AcksInv, DeliveryStep, OtherEndKept
    <3> QED BY <3>2, <3>3, <3>4 DEF AcksInv
  <2>6. ~everClosed'[b] => OrderInv(b)'
    BY <2>1 DEF OrderInv, DeliveryStep, OtherEndKept
  <2> QED BY <2>2, <2>4, <2>5, <2>6
<1>8. ASSUME ~everClosed'[b]
      PROVE  /\ QueueInv(b)' /\ FramesInv(b)' /\ AcksInv(b, a)' /\ OkInv(b, a)'
             /\ ~everClosed'[a] => OrderInv(a)'
  <2>1. ~everClosed[b]
    BY <1>8 DEF DeliveryStep, OtherEndKept
  <2>2. QueueInv(b) /\ FramesInv(b) /\ AcksInv(b, a) /\ OkInv(b, a)
    BY <1>1, <2>1 DEF DeliveryInv
  <2>3. Numbered(b)' = Numbered(b)
    BY DEF Numbered, DeliveryStep, OtherEndKept
  <2>4. QueueInv(b)'
    BY <2>2, <2>3 DEF QueueInv, DeliveryStep, OtherEndKept
  <2>5. FramesInv(b)'
    BY <1>4, <2>2, <2>3 DEF FramesInv, Carries
  <2>6. OkInv(b, a)'
    <3>1. SUFFICES ASSUME NEW k \in 1..Len(result[b]), result[b][k] = "ok"
                   PROVE  Delivered(a, k)'
      BY DEF OkInv, DeliveryStep, OtherEndKept
    <3>2. k \in Nat /\ Delivered(a, k)
      BY <2>2, <3>1 DEF OkInv
    <3> QED BY <3>2 DEF DeliveryStep
  <2>7. AcksInv(b, a)'
    <3>1. /\ \A i \in 1..Len(received'[a]) : received'[a][i] \in 1..Numbered(b)'
          /\ \A k \in 1..nextReceive'[a] : Delivered(a, k)'
      BY <2>1, <2>3 DEF DeliveryStep
    <3>2. SUFFICES ASSUME NEW body \in Outgoing(a)' PROVE AcksDelivered(a, body)'
      BY <3>1 DEF AcksInv
    <3>3. \A old \in Body : AcksDelivered(a, old) => AcksDelivered(a, old)'
      <4>1. SUFFICES ASSUME NEW old \in Body, AcksDelivered(a, old),
                            old.type \in DataTypes, NEW k \in 1..old.ack
                     PROVE  Delivered(a, k)'
        BY DEF AcksDelivered, DataTypes
      <4>2. old.ack \in Nat
        BY <4>1, DataOfType DEF DataBody, DataAckBody, DataTypes
      <4>3. k \in Nat
        BY <4>2
      <4>4. Delivered(a, k)
        BY <4>1, Zenon DEF AcksDelivered, DataTypes
      <4> QED BY <4>3, <4>4 DEF DeliveryStep
    <3>4. CASE body \in Outgoing(a)
      BY <1>3, <2>2, <3>3, <3>4 DEF AcksInv
    <3>5. CASE NewBody(a, body)
      BY <2>1, <3>5 DEF NewBody
    <3>6. ASSUME NEW old \in Outgoing(a), body = Wire(old)
          PROVE  AcksDelivered(a, body)'
      <4>1. old \in Body /\ AcksDelivered(a, old)
        BY <1>3, <2>2 DEF AcksInv
      <4>2. Wire(old) \in Body /\ AcksDelivered(a, Wire(old))
        BY <4>1, WireAcks, WireType
      <4> QED BY <3>3, <3>6, <4>2
    <3> QED BY <1>5, <3>2, <3>4, <3>5, <3>6
  <2>8. ~everClosed'[a] => OrderInv(a)'
    BY <2>1 DEF DeliveryStep
  <2> QED BY <2>4, <2>5, <2>6, <2>7, <2>8
<1> QED BY <1>1, <1>2, <1>6, <1>7, <1>8 DEF DeliveryInv

-----------------------------------------------------------------------------
(* Steps that hand nothing over: they keep the data, or close the end, and  *)
(* what they start to send is old, or not data.                             *)

BodiesKept(a) ==
  LET b == Other(a) IN
  /\ SendingSet(b)' = SendingSet(b) /\ TimerSet(b)' = TimerSet(b)
  /\ NetworkSet(a)' \subseteq NetworkSet(a)
  /\ \A action \in SendingSet(a)' :
       action.body \in Outgoing(a) \/ action.body.type \notin DataTypes
  /\ \A timeout \in TimerSet(a)' : timeout.body \in Outgoing(a)
  /\ \A body \in NetworkSet(b)' :
       \/ body \in NetworkSet(b)
       \/ \E old \in Outgoing(a) : body = Wire(old)

DataKept(a) ==
  \/ UNCHANGED <<dataVars, everClosed>>
  \/ \E error, timedOut : Close(a, error, timedOut)

LEMMA OpenEndFacts ==
  ASSUME DeliveryInv, NEW a \in Peer
  PROVE  /\ ~everClosed[a] => /\ QueueInv(a) /\ FramesInv(a)
                              /\ AcksInv(a, Other(a)) /\ OkInv(a, Other(a))
         /\ ~everClosed[Other(a)] => /\ QueueInv(Other(a)) /\ AcksInv(Other(a), a)
                                     /\ ~everClosed[a] => OrderInv(a)
<1>1. Other(a) \in Peer /\ Other(Other(a)) = a
  BY OtherType
<1> QED BY <1>1 DEF DeliveryInv

LEMMA CloseDataEffect ==
  ASSUME TypeOK, NEW p \in Peer, NEW error, NEW timedOut, Close(p, error, timedOut)
  PROVE  LET b == Other(p) IN
         /\ nextSend'[b] = nextSend[b] /\ nextReceive'[b] = nextReceive[b]
         /\ sendingFrame'[b] = sendingFrame[b]
         /\ sendPendingFrames'[b] = sendPendingFrames[b]
         /\ result'[b] = result[b] /\ received' = received
         /\ everClosed'[b] = everClosed[b]
         /\ everClosed'[p] /\ nextReceive'[p] = 0
  BY OtherType DEF TypeOK, Close

LEMMA KeptDeliveryStep ==
  ASSUME TypeOK, DeliveryInv, NEW a \in Peer, BodiesKept(a), DataKept(a)
  PROVE  DeliveryStep(a)
<1>1. BodiesFollow(a)
  <2>1. \A body : body.type \notin DataTypes => NewBody(a, body)
    BY DEF NewBody, Carries, AcksDelivered, DataTypes
  <2> QED BY <2>1 DEF BodiesKept, BodiesFollow
<1>2. CASE UNCHANGED <<dataVars, everClosed>>
  <2>1. UNCHANGED <<nextReceive, nextSend, sendingFrame, sendPendingFrames,
                    result, received, everClosed>>
    BY <1>2 DEF dataVars
  <2>2. OtherEndKept(a)
    BY <2>1 DEF OtherEndKept, BodiesKept
  <2>3. Numbered(a)' = Numbered(a) /\ \A k : Delivered(a, k)' <=> Delivered(a, k)
    BY <2>1 DEF Numbered, Delivered
  <2>4. ~everClosed'[a] =>
          QueueInv(a)' /\ Numbered(a) <= Numbered(a)' /\ OkInv(a, Other(a))'
    <3>1. SUFFICES ASSUME ~everClosed[a]
                   PROVE  QueueInv(a)' /\ Numbered(a) <= Numbered(a)' /\ OkInv(a, Other(a))'
      BY <2>1
    <3>2. QueueInv(a)' /\ OkInv(a, Other(a))'
      BY <2>1, <2>3, <3>1, OpenEndFacts DEF QueueInv, OkInv, Delivered
    <3> QED BY <2>3, <3>2, NumberedType
  <2>5. ~everClosed[Other(a)] =>
       /\ \A i \in 1..Len(received'[a]) : received'[a][i] \in 1..Numbered(Other(a))
       /\ \A k \in 1..nextReceive'[a] : Delivered(a, k)'
    BY <2>1, <2>3, OpenEndFacts DEF AcksInv
  <2>6. ~everClosed[Other(a)] /\ ~everClosed'[a] => OrderInv(a)'
    BY <2>1, OpenEndFacts DEF OrderInv
  <2> QED BY <1>1, <2>1, <2>2, <2>3, <2>4, <2>5, <2>6 DEF DeliveryStep
<1>3. ASSUME NEW error, NEW timedOut, Close(a, error, timedOut)
      PROVE  DeliveryStep(a)
  <2>1. /\ OtherEndKept(a)
        /\ received' = received /\ everClosed'[a] /\ nextReceive'[a] = 0
    BY <1>3, CloseDataEffect DEF OtherEndKept, BodiesKept
  <2>2. \A k : Delivered(a, k)' <=> Delivered(a, k)
    BY <2>1 DEF Delivered
  <2>3. ~everClosed[Other(a)] =>
       /\ \A i \in 1..Len(received'[a]) : received'[a][i] \in 1..Numbered(Other(a))
       /\ \A k \in 1..nextReceive'[a] : Delivered(a, k)'
    BY <2>1, OpenEndFacts DEF AcksInv
  <2> QED BY <1>1, <2>1, <2>2, <2>3 DEF DeliveryStep
<1> QED BY <1>2, <1>3 DEF DataKept

LEMMA StayKeeps ==
  ASSUME NEW p, Stay(p), UNCHANGED dataVars
  PROVE  DataKept(p)
  BY StayEffect DEF DataKept

LEMMA CloseIfDoneKeeps ==
  ASSUME NEW p, NEW f, CloseIfDone(p, f)
  PROVE  DataKept(p)
  BY StayEffect DEF DataKept, CloseIfDone

LEMMA TransmitBodies ==
  ASSUME TypeOK, NEW p \in Peer, NEW action, Transmit(p, action),
         StartTimer(p, action) \/ UNCHANGED timers
  PROVE  BodiesKept(p)
<1>1. /\ action \in SendingSet(p)
      /\ SendingSet(p)' \subseteq SendingSet(p)
      /\ SendingSet(Other(p))' = SendingSet(Other(p))
      /\ NetworkSet(p)' = NetworkSet(p)
      /\ NetworkSet(Other(p))' \subseteq NetworkSet(Other(p)) \cup {Wire(action.body)}
  BY TransmitEffect
<1>2. /\ TimerSet(p)' \subseteq TimerSet(p) \cup {AckTimeout(action)}
      /\ TimerSet(Other(p))' = TimerSet(Other(p))
  BY StartTimerEffect DEF TimerSet
<1>3. AckTimeout(action).body = action.body
  BY RetryBody
<1>4. action.body \in Outgoing(p)
  BY <1>1, OutgoingParts
<1> QED BY <1>1, <1>2, <1>3, <1>4, OutgoingParts DEF BodiesKept

LEMMA FailBodies ==
  ASSUME TypeOK, NEW p \in Peer, NEW action, NEW retries, Fail(p, action, retries),
         \A retry \in retries : retry.body = action.body
  PROVE  BodiesKept(p)
<1>1. /\ action \in SendingSet(p)
      /\ SendingSet(p)' \subseteq SendingSet(p) \cup retries
      /\ SendingSet(Other(p))' = SendingSet(Other(p))
      /\ UNCHANGED <<timers, network>>
  BY FailEffect
<1>2. \A o : TimerSet(o)' = TimerSet(o) /\ NetworkSet(o)' = NetworkSet(o)
  BY <1>1 DEF TimerSet, NetworkSet
<1> QED BY <1>1, <1>2, OutgoingParts DEF BodiesKept

LEMMA ExpireBodies ==
  ASSUME TypeOK, NEW p \in Peer, NEW timeout, NEW retries,
         Expire(p, timeout, retries),
         \A retry \in retries : retry.body = timeout.body
  PROVE  BodiesKept(p)
<1>1. /\ timeout \in TimerSet(p)
      /\ TimerSet(p)' \subseteq TimerSet(p)
      /\ TimerSet(Other(p))' = TimerSet(Other(p))
      /\ SendingSet(p)' = SendingSet(p) \cup retries
      /\ SendingSet(Other(p))' = SendingSet(Other(p))
      /\ UNCHANGED network
  BY ExpireEffect
<1>2. \A o : NetworkSet(o)' = NetworkSet(o)
  BY <1>1 DEF NetworkSet
<1> QED BY <1>1, <1>2, OutgoingParts DEF BodiesKept

LEMMA ReceiveBodies ==
  ASSUME TypeOK, NEW p \in Peer, NEW body, Receive(p, body),
         SendingSet(Other(p))' = SendingSet(Other(p)),
         \A action \in SendingSet(p)' :
           action \in SendingSet(p) \/ action.body.type \notin DataTypes
  PROVE  BodiesKept(p)
<1>1. /\ NetworkSet(p)' \subseteq NetworkSet(p)
      /\ NetworkSet(Other(p))' = NetworkSet(Other(p))
  BY ReceiveEffect
<1>2. \A o : TimerSet(o)' = TimerSet(o)
  BY DEF Receive, TimerSet
<1> QED BY <1>1, <1>2, OutgoingParts DEF BodiesKept

-----------------------------------------------------------------------------
LEMMA SuccessDelivery ==
  ASSUME TypeOK, NEW p \in Peer, NEW action \in BagToSet(sending[p]),
         OnSendSuccess(p, action)
  PROVE  BodiesKept(p) /\ DataKept(p)
<1>1. Transmit(p, action) /\ (StartTimer(p, action) \/ UNCHANGED timers)
  BY DEF OnSendSuccess, OnSynSendSuccess, OnSynAckSendSuccess, OnSendDataSuccess,
         OnSendDataAckSuccess, OnFinSendSuccess, OnFinAckSendSuccess
<1>2. CASE OnSynAckSendSuccess(p, action)
  <2>1. UNCHANGED dataVars /\ (Stay(p) \/ OpenIfDone(p))
    BY <1>2 DEF OnSynAckSendSuccess
  <2>2. DataKept(p)
    BY <2>1, StayEffect, OpenIfDoneEffect DEF DataKept
  <2> QED BY <1>1, <2>2, TransmitBodies
<1>3. CASE ~OnSynAckSendSuccess(p, action)
  <2>1. DataKept(p)
    BY <1>3, StayKeeps, CloseIfDoneKeeps
       DEF OnSendSuccess, OnSynSendSuccess, OnSendDataSuccess,
           OnSendDataAckSuccess, OnFinSendSuccess, OnFinAckSendSuccess
  <2> QED BY <1>1, <2>1, TransmitBodies
<1> QED BY <1>2, <1>3

LEMMA FailureDelivery ==
  ASSUME TypeOK, NEW p \in Peer, NEW action \in BagToSet(sending[p]),
         OnSendFailure(p, action)
  PROVE  BodiesKept(p) /\ DataKept(p)
<1>1. action \in SendAction
  BY DEF TypeOK, BagsOf
<1>2. ~AckSendRetryable(action)
  BY <1>1 DEF SendAction, AckSendRetryable
<1>3. PICK retries : /\ Fail(p, action, retries)
                     /\ retries \subseteq {RetryAfterFailure(action)}
  <2>1. CASE OnSynSendFailure(p, action)
    BY <2>1 DEF OnSynSendFailure
  <2>2. CASE OnSynAckSendFailure(p, action)
    BY <1>2, <2>2 DEF OnSynAckSendFailure
  <2>3. CASE OnSendDataFailure(p, action)
    BY <2>3 DEF OnSendDataFailure
  <2>4. CASE OnSendDataAckFailure(p, action)
    BY <1>2, <2>4 DEF OnSendDataAckFailure
  <2>5. CASE OnFinSendFailure(p, action)
    BY <2>5 DEF OnFinSendFailure
  <2>6. CASE OnFinAckSendFailure(p, action)
    BY <1>2, <2>6 DEF OnFinAckSendFailure
  <2> QED BY <2>1, <2>2, <2>3, <2>4, <2>5, <2>6 DEF OnSendFailure
<1>4. \A retry \in retries : retry.body = action.body
  BY <1>3, RetryBody
<1>5. DataKept(p)
  BY StayEffect
     DEF DataKept, OnSendFailure, OnSynSendFailure, OnSynAckSendFailure,
         OnSendDataFailure, OnSendDataAckFailure, OnFinSendFailure, OnFinAckSendFailure
<1> QED BY <1>3, <1>4, <1>5, FailBodies

LEMMA TimeoutDelivery ==
  ASSUME TypeOK, NEW p \in Peer, NEW timeout \in BagToSet(timers[p]),
         OnReceiveAckTimeout(p, timeout)
  PROVE  BodiesKept(p) /\ DataKept(p)
<1>1. PICK retries : /\ Expire(p, timeout, retries)
                     /\ retries \subseteq {RetryAfterAckTimeout(timeout)}
  <2>1. CASE OnSynAckReceiveTimeout(p, timeout)
    BY <2>1 DEF OnSynAckReceiveTimeout
  <2>2. CASE OnReceiveDataAckTimeout(p, timeout)
    BY <2>2 DEF OnReceiveDataAckTimeout
  <2>3. CASE OnFinAckReceiveTimeout(p, timeout)
    BY <2>3 DEF OnFinAckReceiveTimeout
  <2> QED BY <2>1, <2>2, <2>3 DEF OnReceiveAckTimeout
<1>2. \A retry \in retries : retry.body = timeout.body
  BY <1>1, RetryBody
<1>3. DataKept(p)
  BY StayEffect DEF DataKept, OnReceiveAckTimeout, OnSynAckReceiveTimeout,
                    OnReceiveDataAckTimeout, OnFinAckReceiveTimeout
<1> QED BY <1>1, <1>2, <1>3, ExpireBodies

(* Everything that arrives but data and acknowledgements of data. *)
LEMMA ControlDelivery ==
  ASSUME TypeOK, NEW p \in Peer,
         \/ OnSynReceived(p) \/ OnSynAckReceived(p)
         \/ OnFinReceived(p) \/ OnFinAckReceived(p)
         \/ \E body : OnDataWhenNotOpen(p, body)
  PROVE  BodiesKept(p) /\ DataKept(p)
<1>1. CASE OnSynReceived(p)
  <2>1. \A action \in SynReplies(syn[p]) : action.body.type \notin DataTypes
    <3>1. \A action \in SynReplies(syn[p]) :
            action.body.type = "syn ack" \/ action.body.type = "syn"
      BY SynRepliesBody, ControlOfType, Zenon
    <3> QED BY <3>1 DEF DataTypes
  <2>2. BodiesKept(p)
    <3>1. Receive(p, Control("syn")) /\ StartSends(p, SynReplies(syn[p]))
      BY <1>1 DEF OnSynReceived
    <3>2. /\ SendingSet(p)' = SendingSet(p) \cup SynReplies(syn[p])
          /\ SendingSet(Other(p))' = SendingSet(Other(p))
      BY <3>1, StartSendsEffect
    <3>3. \A action \in SendingSet(p)' :
            action \in SendingSet(p) \/ action.body.type \notin DataTypes
      BY <2>1, <3>2
    <3> QED BY <3>1, <3>2, <3>3, ReceiveBodies
  <2> QED BY <1>1, <2>2, StayKeeps DEF OnSynReceived
<1>2. CASE OnFinReceived(p)
  <2>1. \A action \in FinReplies(fin[p]) : action.body.type \notin DataTypes
    <3>1. \A action \in FinReplies(fin[p]) :
            action.body.type = "fin ack" \/ action.body.type = "fin"
      BY FinRepliesBody, ControlOfType, Zenon
    <3> QED BY <3>1 DEF DataTypes
  <2>2. BodiesKept(p)
    <3>1. Receive(p, Control("fin")) /\ StartSends(p, FinReplies(fin[p]))
      BY <1>2 DEF OnFinReceived
    <3>2. /\ SendingSet(p)' = SendingSet(p) \cup FinReplies(fin[p])
          /\ SendingSet(Other(p))' = SendingSet(Other(p))
      BY <3>1, StartSendsEffect
    <3>3. \A action \in SendingSet(p)' :
            action \in SendingSet(p) \/ action.body.type \notin DataTypes
      BY <2>1, <3>2
    <3> QED BY <3>1, <3>2, <3>3, ReceiveBodies
  <2> QED BY <1>2, <2>2, StayKeeps DEF OnFinReceived
<1>3. CASE \/ OnSynAckReceived(p) \/ OnFinAckReceived(p)
           \/ \E body : OnDataWhenNotOpen(p, body)
  <2>1. UNCHANGED sending /\ \E body : Receive(p, body)
    BY <1>3 DEF OnSynAckReceived, OnFinAckReceived, OnDataWhenNotOpen
  <2>2. \A o : SendingSet(o)' = SendingSet(o)
    BY <2>1 DEF SendingSet
  <2>3. BodiesKept(p)
    BY <2>1, <2>2, ReceiveBodies
  <2>4. DataKept(p)
    <3>1. CASE OnSynAckReceived(p)
      <4>1. UNCHANGED dataVars /\ (Stay(p) \/ OpenIfDone(p))
        BY <3>1 DEF OnSynAckReceived
      <4> QED BY <4>1, StayEffect, OpenIfDoneEffect DEF DataKept
    <3>2. CASE OnFinAckReceived(p) \/ \E body : OnDataWhenNotOpen(p, body)
      BY <3>2, StayKeeps, CloseIfDoneKeeps DEF OnFinAckReceived, OnDataWhenNotOpen
    <3> QED BY <1>3, <3>1, <3>2
  <2> QED BY <2>3, <2>4
<1> QED BY <1>1, <1>2, <1>3

-----------------------------------------------------------------------------
(* The next frame of a queue in order takes the number that follows. *)
LEMMA NextFrameEffect ==
  ASSUME TypeOK, NEW p \in Peer, NEW queue \in Seq(Nat), NEW seq \in Nat,
         NEW actions, SendNextFrame(p, queue, seq, actions)
  PROVE  LET frame == Data(seq, nextReceive[p], Head(queue)) IN
         /\ SendingSet(Other(p))' = SendingSet(Other(p))
         /\ sendingFrame'[Other(p)] = sendingFrame[Other(p)]
         /\ sendPendingFrames'[Other(p)] = sendPendingFrames[Other(p)]
         /\ queue = <<>> => /\ sendingFrame'[p] = NoFrame
                            /\ sendPendingFrames'[p] = <<>>
                            /\ SendingSet(p)' = SendingSet(p) \cup actions
         /\ queue # <<>> => /\ sendingFrame'[p] = frame
                            /\ sendPendingFrames'[p] = Tail(queue)
                            /\ SendingSet(p)' = SendingSet(p) \cup actions \cup {NewSend(frame)}
<1> DEFINE frame == Data(seq, nextReceive[p], Head(queue))
<1>1. CASE queue = <<>>
  <2>1. /\ StartSends(p, actions)
        /\ sendingFrame' = [sendingFrame EXCEPT ![p] = NoFrame]
        /\ sendPendingFrames' = [sendPendingFrames EXCEPT ![p] = <<>>]
    BY <1>1 DEF SendNextFrame
  <2>2. /\ SendingSet(p)' = SendingSet(p) \cup actions
        /\ SendingSet(Other(p))' = SendingSet(Other(p))
    BY <2>1, StartSendsEffect
  <2> QED BY <1>1, <2>1, <2>2, OtherType DEF TypeOK
<1>2. CASE queue # <<>>
  <2> DEFINE new == actions \cup {NewSend(frame)}
  <2>1. /\ StartSends(p, new)
        /\ sendingFrame' = [sendingFrame EXCEPT ![p] = frame]
        /\ sendPendingFrames' = [sendPendingFrames EXCEPT ![p] = Tail(queue)]
    BY <1>2 DEF SendNextFrame
  <2> HIDE DEF new, frame
  <2>2. /\ SendingSet(p)' = SendingSet(p) \cup new
        /\ SendingSet(Other(p))' = SendingSet(Other(p))
    BY <2>1, StartSendsEffect
  <2>3. /\ sendingFrame'[p] = frame /\ sendPendingFrames'[p] = Tail(queue)
        /\ sendingFrame'[Other(p)] = sendingFrame[Other(p)]
        /\ sendPendingFrames'[Other(p)] = sendPendingFrames[Other(p)]
    BY <2>1, OtherType DEF TypeOK
  <2> QED BY <1>2, <2>2, <2>3 DEF new, frame
<1> QED BY <1>1, <1>2

LEMMA NextFrameQueue ==
  ASSUME TypeOK, NEW p \in Peer, NEW queue \in Seq(Nat), NEW seq \in Nat,
         NEW actions, SendNextFrame(p, queue, seq, actions),
         seq < SeqModulus, nextSend'[p] = seq,
         Len(result'[p]) = seq + Len(queue),
         \A i \in 1..Len(queue) : queue[i] = seq + i
  PROVE  /\ QueueInv(p)' /\ seq <= Numbered(p)'
         /\ \A action \in SendingSet(p)' :
              \/ action \in SendingSet(p) \cup actions
              \/ Carries(p, action.body)'
<1>1. CASE queue = <<>>
  <2>1. /\ sendingFrame'[p] = NoFrame /\ sendPendingFrames'[p] = <<>>
        /\ SendingSet(p)' = SendingSet(p) \cup actions
    BY <1>1, NextFrameEffect
  <2>2. Numbered(p)' = seq
    BY <2>1 DEF Numbered
  <2>3. Len(queue) = 0
    BY <1>1
  <2> QED BY <2>1, <2>2, <2>3 DEF QueueInv
<1>2. CASE queue # <<>>
  <2>1. Head(queue) = seq + 1 /\ Len(queue) > 0
    BY <1>2
  <2>2. PICK frame : /\ sendingFrame'[p] = frame
                     /\ sendPendingFrames'[p] = Tail(queue)
                     /\ SendingSet(p)' = SendingSet(p) \cup actions \cup {NewSend(frame)}
                     /\ frame = Data(seq, nextReceive[p], seq + 1)
    BY <1>2, <2>1, NextFrameEffect
  <2>3. frame # NoFrame /\ frame.seq = seq /\ frame.payload = seq + 1
    <3>1. frame.type = "data" /\ frame.seq = seq /\ frame.payload = seq + 1
      BY <2>2 DEF Data
    <3>2. NoFrame.type = "none"
      BY DEF NoFrame
    <3> QED BY <3>1, <3>2
  <2>4. Numbered(p)' = seq + 1
    BY <2>2, <2>3 DEF Numbered
  <2>5. /\ Len(Tail(queue)) = Len(queue) - 1
        /\ \A i \in 1..Len(Tail(queue)) : Tail(queue)[i] = seq + 1 + i
    BY <1>2
  <2>6. QueueInv(p)'
    <3>1. (sendingFrame[p] # NoFrame =>
              /\ sendingFrame[p].seq = nextSend[p]
              /\ sendingFrame[p].payload = nextSend[p] + 1)'
      BY <2>2, <2>3
    <3>2. (Len(result[p]) = Numbered(p) + Len(sendPendingFrames[p]))'
      <4>1. Len(sendPendingFrames[p])' = Len(queue) - 1
        BY <2>2, <2>5
      <4>2. Len(queue) \in Nat /\ Len(result[p])' = seq + Len(queue)
        OBVIOUS
      <4>3. seq + Len(queue) = (seq + 1) + (Len(queue) - 1)
        BY <4>2
      <4> QED BY <2>4, <4>1, <4>2, <4>3
    <3>3. (\A i \in 1..Len(sendPendingFrames[p]) :
             sendPendingFrames[p][i] = Numbered(p) + i)'
      BY <2>2, <2>4, <2>5
    <3> QED BY <3>1, <3>2, <3>3 DEF QueueInv
  <2>7. NewSend(frame).body = frame
    BY DEF NewSend
  <2>8. Carries(p, NewSend(frame).body)'
    BY <2>3, <2>4, <2>7 DEF Carries
  <2>9. \A action \in SendingSet(p)' :
          action \in SendingSet(p) \cup actions \/ Carries(p, action.body)'
    BY <2>2, <2>8
  <2> QED BY <2>4, <2>6, <2>9
<1> QED BY <1>1, <1>2

-----------------------------------------------------------------------------
(* What handling an acknowledgement may do, to a queue in order. *)

LEMMA AcknowledgeEffect ==
  ASSUME TypeOK, NEW p \in Peer, NEW ack \in Nat, NEW actions,
         HandleAcknowledgeNumber(p, ack, actions)
  PROVE  /\ nextSend'[Other(p)] = nextSend[Other(p)]
         /\ sendingFrame'[Other(p)] = sendingFrame[Other(p)]
         /\ sendPendingFrames'[Other(p)] = sendPendingFrames[Other(p)]
         /\ result'[Other(p)] = result[Other(p)]
         /\ SendingSet(Other(p))' = SendingSet(Other(p))
         /\ \A action \in SendingSet(p)' :
              \/ action \in SendingSet(p) \cup actions
              \/ action.body.type = "data" /\ action.body.ack = nextReceive[p]
<1>1. CASE Acknowledges(p, ack)
  <2> DEFINE queue == sendPendingFrames[p]
  <2>1. queue \in Seq(Nat)
    BY DEF TypeOK
  <2>2. SendNextFrame(p, queue, ack, actions)
    BY <1>1 DEF HandleAcknowledgeNumber
  <2> HIDE DEF queue
  <2>3. /\ SendingSet(Other(p))' = SendingSet(Other(p))
        /\ sendingFrame'[Other(p)] = sendingFrame[Other(p)]
        /\ sendPendingFrames'[Other(p)] = sendPendingFrames[Other(p)]
    BY <2>1, <2>2, NextFrameEffect
  <2>4. \A action \in SendingSet(p)' :
          \/ action \in SendingSet(p) \cup actions
          \/ action = NewSend(Data(ack, nextReceive[p], Head(queue)))
    BY <2>1, <2>2, NextFrameEffect
  <2>5. \A n, m, k : /\ NewSend(Data(n, m, k)).body.type = "data"
                     /\ NewSend(Data(n, m, k)).body.ack = m
    BY DEF NewSend, Data
  <2>6. /\ nextSend'[Other(p)] = nextSend[Other(p)]
        /\ result'[Other(p)] = result[Other(p)]
    BY <1>1, OtherType DEF HandleAcknowledgeNumber, TypeOK
  <2> QED BY <2>3, <2>4, <2>5, <2>6
<1>2. CASE ~Acknowledges(p, ack)
  <2>1. /\ StartSends(p, actions)
        /\ UNCHANGED <<result, nextSend, sendingFrame, sendPendingFrames>>
    BY <1>2 DEF HandleAcknowledgeNumber
  <2> QED BY <2>1, StartSendsEffect
<1> QED BY <1>1, <1>2

LEMMA AcknowledgeQueue ==
  ASSUME TypeOK, NEW p \in Peer, NEW ack \in Nat, NEW actions,
         HandleAcknowledgeNumber(p, ack, actions),
         QueueInv(p), ack < SeqModulus, ack <= Numbered(p)
  PROVE  /\ QueueInv(p)' /\ Numbered(p) <= Numbered(p)'
         /\ Len(result'[p]) = Len(result[p])
         /\ \A k \in 1..Len(result[p]) :
              result'[p][k] = "ok" => result[p][k] = "ok" \/ k \in 1..ack
         /\ \A action \in SendingSet(p)' :
              \/ action \in SendingSet(p) \cup actions
              \/ Carries(p, action.body)'
<1>0. Numbered(p) \in Nat /\ nextSend[p] \in Nat /\ result[p] \in Seq(SendResult)
  BY NumberedType DEF TypeOK
<1>1. CASE Acknowledges(p, ack)
  <2>1. sendingFrame[p] # NoFrame /\ ack > nextSend[p]
    BY <1>1 DEF Acknowledges, QueueInv
  <2>2. Numbered(p) = nextSend[p] + 1
    BY <2>1 DEF Numbered
  <2>3. ack = Numbered(p) /\ sendingFrame[p].payload = ack
    BY <1>0, <2>1, <2>2 DEF QueueInv
  <2> DEFINE queue == sendPendingFrames[p]
             results == Resolve(result[p], {sendingFrame[p].payload}, "ok")
  <2>4. /\ SendNextFrame(p, queue, ack, actions)
        /\ result' = [result EXCEPT ![p] = results]
        /\ nextSend' = [nextSend EXCEPT ![p] = ack]
    BY <1>1 DEF HandleAcknowledgeNumber
  <2>5. result'[p] = results /\ nextSend'[p] = ack
    <3> HIDE DEF results
    <3> QED BY <2>4 DEF TypeOK
  <2>6. Len(results) = Len(result[p])
    <3>1. "ok" \in SendResult
      BY DEF SendResult
    <3>2. results \in Seq(SendResult)
      BY <1>0, <3>1, ResolveType
    <3>3. DOMAIN results = DOMAIN result[p]
      BY DEF Resolve
    <3> HIDE DEF results
    <3> QED BY <1>0, <3>2, <3>3
  <2>7. \A k \in 1..Len(result[p]) :
          results[k] = "ok" => result[p][k] = "ok" \/ k \in 1..ack
    <3>1. DOMAIN result[p] = 1..Len(result[p])
      BY <1>0
    <3>2. ack \in 1..ack
      BY <2>1, <1>0
    <3> QED BY <2>3, <3>1, <3>2 DEF Resolve
  <2>8. /\ queue \in Seq(Nat) /\ Len(result'[p]) = ack + Len(queue)
        /\ \A i \in 1..Len(queue) : queue[i] = ack + i
    <3> HIDE DEF results
    <3> QED BY <2>3, <2>5, <2>6 DEF QueueInv, TypeOK
  <2> HIDE DEF queue, results
  <2>9. /\ QueueInv(p)' /\ ack <= Numbered(p)'
        /\ \A action \in SendingSet(p)' :
             \/ action \in SendingSet(p) \cup actions
             \/ Carries(p, action.body)'
    BY <2>4, <2>5, <2>8, NextFrameQueue
  <2> QED BY <2>3, <2>5, <2>6, <2>7, <2>9
<1>2. CASE ~Acknowledges(p, ack)
  <2>1. /\ StartSends(p, actions)
        /\ UNCHANGED <<result, nextSend, sendingFrame, sendPendingFrames>>
    BY <1>2 DEF HandleAcknowledgeNumber
  <2>2. SendingSet(p)' = SendingSet(p) \cup actions
    BY <2>1, StartSendsEffect
  <2>3. Numbered(p)' = Numbered(p)
    BY <2>1 DEF Numbered
  <2>4. QueueInv(p)'
    BY <2>1, <2>3 DEF QueueInv
  <2> QED BY <1>0, <2>1, <2>2, <2>3, <2>4
<1> QED BY <1>1, <1>2

(* What an acknowledgement puts up for sending beside what it is given: data *)
(* that acknowledges what the end expects next.                              *)
LEMMA AcknowledgeAnswers ==
  ASSUME TypeOK, NEW p \in Peer, NEW ack \in Nat, NEW actions,
         HandleAcknowledgeNumber(p, ack, actions),
         NEW action \in SendingSet(p)', action \notin SendingSet(p) \cup actions
  PROVE  action.body.type = "data" /\ action.body.ack = nextReceive[p]
BY AcknowledgeEffect

-----------------------------------------------------------------------------
(* A frame of data, or an acknowledgement of data, arrives. *)

LEMMA HandOver ==
  ASSUME TypeOK, DeliveryInv, NEW p \in Peer, NEW body \in NetworkSet(p),
         body.type = "data", body.seq = nextReceive[p],
         nextReceive' = [nextReceive EXCEPT ![p] = body.seq + 1],
         received' = [received EXCEPT ![p] = Append(@, body.payload)]
  PROVE  /\ nextReceive'[Other(p)] = nextReceive[Other(p)]
         /\ received'[Other(p)] = received[Other(p)]
         /\ \A k \in Nat : Delivered(p, k) => Delivered(p, k)'
         /\ ~everClosed[Other(p)] =>
              /\ \A i \in 1..Len(received'[p]) : received'[p][i] \in 1..Numbered(Other(p))
              /\ \A k \in 1..nextReceive'[p] : Delivered(p, k)'
              /\ ~everClosed[p] => OrderInv(p)'
<1>1. Other(p) \in Peer /\ Other(p) # p /\ Other(Other(p)) = p
  BY OtherType
<1>2. body.payload \in Nat /\ nextReceive[p] \in Nat /\ received[p] \in Seq(Nat)
  BY DataOfType, SendingBody DEF DataBody, TypeOK
<1>3. /\ nextReceive'[p] = nextReceive[p] + 1
      /\ received'[p] = Append(received[p], body.payload)
      /\ nextReceive'[Other(p)] = nextReceive[Other(p)]
      /\ received'[Other(p)] = received[Other(p)]
  BY <1>1 DEF TypeOK
<1>4. /\ Len(received'[p]) = Len(received[p]) + 1
      /\ received'[p][Len(received[p]) + 1] = body.payload
      /\ \A i \in 1..Len(received[p]) : received'[p][i] = received[p][i]
  BY <1>2, <1>3
<1>5. Len(received[p]) \in Nat
  BY <1>2
<1>6. ASSUME NEW k, Delivered(p, k) PROVE Delivered(p, k)'
  <2>1. PICK i \in 1..Len(received[p]) : received[p][i] = k
    BY <1>6 DEF Delivered
  <2>2. i \in 1..Len(received'[p]) /\ received'[p][i] = k
    BY <1>4, <1>5, <2>1
  <2> QED BY <2>2 DEF Delivered
<1>7. Delivered(p, body.payload)'
  <2>1. Len(received[p]) + 1 \in 1..Len(received'[p])
    BY <1>4, <1>5
  <2> QED BY <1>4, <2>1 DEF Delivered
<1>8. ASSUME ~everClosed[Other(p)]
      PROVE  /\ \A i \in 1..Len(received'[p]) : received'[p][i] \in 1..Numbered(Other(p))
             /\ \A k \in 1..nextReceive'[p] : Delivered(p, k)'
             /\ ~everClosed[p] => OrderInv(p)'
  <2>1. /\ FramesInv(Other(p)) /\ AcksInv(Other(p), p)
        /\ ~everClosed[p] => OrderInv(p)
    BY <1>1, <1>8, OpenEndFacts
  <2>2. body \in Outgoing(Other(p))
    BY <1>1, OutgoingParts
  <2>3. body.payload = nextReceive[p] + 1 /\ body.payload <= Numbered(Other(p))
    BY <2>1, <2>2 DEF FramesInv, Carries
  <2>4. body.payload \in 1..Numbered(Other(p))
    BY <1>1, <1>2, <2>3, NumberedType
  <2>5. \A i \in 1..Len(received'[p]) : received'[p][i] \in 1..Numbered(Other(p))
    <3>1. \A i \in 1..Len(received[p]) : received[p][i] \in 1..Numbered(Other(p))
      BY <2>1 DEF AcksInv
    <3>2. \A i \in 1..Len(received'[p]) :
            i \in 1..Len(received[p]) \/ i = Len(received[p]) + 1
      BY <1>4, <1>5
    <3> QED BY <1>4, <2>4, <3>1, <3>2
  <2>6. \A k \in 1..nextReceive'[p] : Delivered(p, k)'
    <3>1. \A k \in 1..nextReceive[p] : Delivered(p, k)
      BY <2>1 DEF AcksInv
    <3>2. \A k \in 1..nextReceive'[p] :
            k \in 1..nextReceive[p] \/ k = body.payload
      BY <1>2, <1>3, <2>3
    <3> QED BY <1>6, <1>7, <3>1, <3>2
  <2>7. ASSUME ~everClosed[p] PROVE OrderInv(p)'
    <3>1. /\ Len(received[p]) = nextReceive[p]
          /\ \A i \in 1..Len(received[p]) : received[p][i] = i
      BY <2>1, <2>7 DEF OrderInv
    <3>2. \A i \in 1..Len(received'[p]) :
            i \in 1..Len(received[p]) \/ i = Len(received[p]) + 1
      BY <1>4, <1>5
    <3>3. \A i \in 1..Len(received'[p]) : received'[p][i] = i
      BY <1>4, <2>3, <3>1, <3>2
    <3> QED BY <1>3, <1>4, <3>1, <3>3 DEF OrderInv
  <2> QED BY <2>5, <2>6, <2>7
<1> QED BY <1>3, <1>6, <1>8

LEMMA UpTo ==
  \A n \in Nat : /\ 0 <= n /\ (n = 0 \/ n \in 1..n)
               /\ \A k \in 1..n : k \in Nat /\ k <= n
  OBVIOUS

LEMMA DataStep ==
  ASSUME TypeOK, DeliveryInv, NEW p \in Peer, NEW body \in NetworkSet(p),
         body.type \in DataTypes, Receive(p, body), UNCHANGED everClosed,
         NEW actions, HandleAcknowledgeNumber(p, body.ack, actions),
         \A action \in actions : /\ action.body.type = "data ack"
                                 /\ action.body.ack = nextReceive'[p],
         \/ UNCHANGED <<nextReceive, received>>
         \/ /\ body.type = "data" /\ body.seq = nextReceive[p]
            /\ nextReceive' = [nextReceive EXCEPT ![p] = body.seq + 1]
            /\ received' = [received EXCEPT ![p] = Append(@, body.payload)]
  PROVE  DeliveryStep(p)
<1> DEFINE b == Other(p)
<1>1. b \in Peer /\ b # p /\ Other(b) = p
  BY OtherType
<1>2. body \in Body /\ body.ack \in Nat
  BY SendingBody, DataOfType DEF DataBody, DataAckBody, DataTypes
<1>3. /\ NetworkSet(p)' \subseteq NetworkSet(p) /\ NetworkSet(b)' = NetworkSet(b)
      /\ \A o : TimerSet(o)' = TimerSet(o)
  BY ReceiveEffect DEF Receive, TimerSet
<1>4. /\ nextReceive'[b] = nextReceive[b] /\ received'[b] = received[b]
      /\ \A k \in Nat : Delivered(p, k) => Delivered(p, k)'
      /\ ~everClosed[b] =>
           /\ \A i \in 1..Len(received'[p]) : received'[p][i] \in 1..Numbered(b)
           /\ \A k \in 1..nextReceive'[p] : Delivered(p, k)'
           /\ ~everClosed[p] => OrderInv(p)'
  <2>1. CASE UNCHANGED <<nextReceive, received>>
    <3>1. \A k : Delivered(p, k)' <=> Delivered(p, k)
      BY <2>1 DEF Delivered
    <3> QED BY <1>1, <2>1, <3>1, OpenEndFacts DEF AcksInv, OrderInv
  <2>2. CASE ~UNCHANGED <<nextReceive, received>>
    BY <2>2, HandOver
  <2> QED BY <2>1, <2>2
<1>5. OtherEndKept(p)
  BY <1>2, <1>3, <1>4, AcknowledgeEffect DEF OtherEndKept
<1>6. ASSUME ~everClosed[p]
      PROVE  /\ QueueInv(p)' /\ Numbered(p) <= Numbered(p)' /\ OkInv(p, b)'
             /\ \A action \in SendingSet(p)' :
                  \/ action \in SendingSet(p) \cup actions
                  \/ Carries(p, action.body)'
  <2>1. QueueInv(p) /\ AcksInv(p, b) /\ OkInv(p, b)
    BY <1>6, OpenEndFacts
  <2>2. body \in Outgoing(b)
    BY <1>1, OutgoingParts
  <2>3. \A k \in 1..body.ack : Delivered(b, k)
    BY <2>1, <2>2 DEF AcksInv, AcksDelivered, DataTypes
  <2>4. body.ack <= Numbered(p)
    <3>1. Numbered(p) \in Nat
      BY NumberedType
    <3>2. CASE body.ack = 0
      BY <3>1, <3>2, UpTo, Zenon
    <3>3. CASE body.ack \in 1..body.ack
      <4>1. PICK i \in 1..Len(received[b]) : received[b][i] = body.ack
        BY <2>3, <3>3, Zenon DEF Delivered
      <4>2. body.ack \in 1..Numbered(p)
        BY <2>1, <4>1 DEF AcksInv
      <4> QED BY <3>1, <4>2, UpTo, Zenon
    <3> QED BY <1>2, <3>2, <3>3, UpTo, Zenon
  <2>5. body.ack < SeqModulus
    BY DEF DeliveryInv, OnTheWireInv, NetworkSet, DataTypes
  <2>6. /\ QueueInv(p)' /\ Numbered(p) <= Numbered(p)'
        /\ Len(result'[p]) = Len(result[p])
        /\ \A k \in 1..Len(result[p]) :
             result'[p][k] = "ok" => result[p][k] = "ok" \/ k \in 1..body.ack
        /\ \A action \in SendingSet(p)' :
             \/ action \in SendingSet(p) \cup actions
             \/ Carries(p, action.body)'
    BY <1>2, <2>1, <2>4, <2>5, AcknowledgeQueue
  <2>7. \A k : Delivered(b, k)' <=> Delivered(b, k)
    BY <1>4 DEF Delivered
  <2>8. OkInv(p, b)'
    BY <2>1, <2>3, <2>6, <2>7 DEF OkInv
  <2> QED BY <2>6, <2>8
<1>7. BodiesFollow(p)
  <2>1. \A timeout \in TimerSet(p)' : timeout.body \in Outgoing(p)
    BY <1>3, OutgoingParts
  <2>2. SUFFICES ASSUME NEW action \in SendingSet(p)', action \notin SendingSet(p)
                 PROVE  NewBody(p, action.body)
    BY <1>3, <2>1, OutgoingParts DEF BodiesFollow
  <2>3. \/ action \in actions
        \/ action.body.type = "data" /\ action.body.ack = nextReceive[p]
    BY <1>2, <2>2, AcknowledgeAnswers
  <2>4. ~everClosed'[p] => Carries(p, action.body)'
    <3>1. CASE action \in actions
      BY <3>1 DEF Carries
    <3>2. CASE action \notin actions
      BY <1>6, <2>2, <3>2
    <3> QED BY <3>1, <3>2
  <2>5. ASSUME ~everClosed[b] PROVE AcksDelivered(p, action.body)'
    <3>1. CASE action.body.ack = nextReceive'[p]
      BY <1>4, <2>5, <3>1 DEF AcksDelivered
    <3>2. CASE action.body.ack = nextReceive[p]
      <4>1. \A k \in 1..nextReceive[p] : Delivered(p, k)
        BY <2>5, OpenEndFacts DEF AcksInv
      <4>2. nextReceive[p] \in Nat
        BY DEF TypeOK
      <4>3. \A k \in 1..nextReceive[p] : k \in Nat
        BY <4>2, UpTo, Zenon
      <4>4. \A k \in 1..nextReceive[p] : Delivered(p, k)'
        BY <1>4, <4>1, <4>3, Zenon
      <4> QED BY <3>2, <4>4 DEF AcksDelivered
    <3> QED BY <2>3, <3>1, <3>2
  <2> QED BY <2>4, <2>5 DEF NewBody
<1> QED BY <1>4, <1>5, <1>6, <1>7 DEF DeliveryStep

LEMMA DataAckBodyOf ==
  \A n : /\ NewAckSend(DataAck(n)).body.type = "data ack"
         /\ NewAckSend(DataAck(n)).body.ack = n
  BY DEF NewAckSend, DataAck

LEMMA ReceiveDelivery ==
  ASSUME TypeOK, DeliveryInv, NEW p \in Peer, OnReceive(p)
  PROVE  DeliveryStep(p)
<1>1. ASSUME NEW body \in BagToSet(network[p]), OnDataReceived(p, body)
      PROVE  DeliveryStep(p)
  <2> DEFINE answer == NewAckSend(DataAck(nextReceive'[p]))
             replies == IF body.seq > nextReceive[p] THEN {} ELSE {answer}
  <2>1. /\ body \in NetworkSet(p) /\ body.type = "data" /\ Receive(p, body)
        /\ UNCHANGED everClosed
    BY <1>1, StayEffect DEF OnDataReceived, NetworkSet
  <2>2. HandleAcknowledgeNumber(p, body.ack, replies)
    BY <1>1 DEF OnDataReceived
  <2>3. \/ UNCHANGED <<nextReceive, received>>
        \/ /\ body.type = "data" /\ body.seq = nextReceive[p]
           /\ nextReceive' = [nextReceive EXCEPT ![p] = body.seq + 1]
           /\ received' = [received EXCEPT ![p] = Append(@, body.payload)]
    BY <1>1 DEF OnDataReceived, IsNext
  <2>4. \A action \in replies : /\ action.body.type = "data ack"
                                /\ action.body.ack = nextReceive'[p]
    BY DataAckBodyOf
  <2>5. body.type \in DataTypes
    BY <2>1 DEF DataTypes
  <2> HIDE DEF replies
  <2> QED BY <2>1, <2>2, <2>3, <2>4, <2>5, DataStep
<1>2. ASSUME NEW body \in BagToSet(network[p]), OnDataAckReceived(p, body)
      PROVE  DeliveryStep(p)
  <2>1. /\ body \in NetworkSet(p) /\ body.type \in DataTypes /\ Receive(p, body)
        /\ UNCHANGED everClosed
    BY <1>2, StayEffect DEF OnDataAckReceived, NetworkSet, DataTypes
  <2> DEFINE none == {}
  <2>2. HandleAcknowledgeNumber(p, body.ack, none) /\ UNCHANGED <<nextReceive, received>>
    BY <1>2 DEF OnDataAckReceived
  <2>3. \A action \in none : /\ action.body.type = "data ack"
                             /\ action.body.ack = nextReceive'[p]
    OBVIOUS
  <2> HIDE DEF none
  <2> QED BY <2>1, <2>2, <2>3, DataStep
<1>3. CASE \/ OnSynReceived(p) \/ OnSynAckReceived(p)
           \/ OnFinReceived(p) \/ OnFinAckReceived(p)
           \/ \E body : OnDataWhenNotOpen(p, body)
  BY <1>3, ControlDelivery, KeptDeliveryStep
<1> QED BY <1>1, <1>2, <1>3 DEF OnReceive

-----------------------------------------------------------------------------
(* The application sends: the new send goes to the end of the queue. *)

LEMMA SendDataDelivery ==
  ASSUME TypeOK, DeliveryInv, NEW p \in Peer, SendData(p)
  PROVE  DeliveryStep(p)
<1> DEFINE b == Other(p)
           queue == Append(sendPendingFrames[p], Len(result[p]) + 1)
<1>1. b \in Peer /\ b # p /\ Other(b) = p
  BY OtherType
<1>2. /\ UNCHANGED <<nextReceive, nextSend, received, timers, network, everClosed>>
      /\ result' = [result EXCEPT ![p] = Append(@, "pending")]
  BY StayEffect DEF SendData
<1>3. /\ \A o : TimerSet(o)' = TimerSet(o) /\ NetworkSet(o)' = NetworkSet(o)
      /\ \A o, k : Delivered(o, k)' <=> Delivered(o, k)
  BY <1>2 DEF TimerSet, NetworkSet, Delivered
<1>4. /\ result[p] \in Seq(SendResult) /\ sendPendingFrames[p] \in Seq(Nat)
      /\ nextSend[p] \in Nat /\ nextReceive[p] \in Nat
  BY DEF TypeOK
<1>5. queue \in Seq(Nat) /\ Len(queue) = Len(sendPendingFrames[p]) + 1
  BY <1>4
<1>6. /\ result'[p] = Append(result[p], "pending")
      /\ result'[b] = result[b]
  BY <1>1, <1>2 DEF TypeOK
<1>7. ASSUME ~everClosed[p]
      PROVE  /\ Len(result'[p]) = Numbered(p) + Len(queue)
             /\ \A i \in 1..Len(queue) : queue[i] = Numbered(p) + i
             /\ OkInv(p, b)'
  <2>1. QueueInv(p) /\ OkInv(p, b) /\ Numbered(p) \in Nat
    BY <1>7, OpenEndFacts, NumberedType
  <2>2. /\ Len(result[p]) = Numbered(p) + Len(sendPendingFrames[p])
        /\ \A i \in 1..Len(sendPendingFrames[p]) : sendPendingFrames[p][i] = Numbered(p) + i
    BY <2>1 DEF QueueInv
  <2>3. Len(result'[p]) = Len(result[p]) + 1
    BY <1>4, <1>6
  <2>4. \A i \in 1..Len(queue) :
          \/ i \in 1..Len(sendPendingFrames[p]) /\ queue[i] = sendPendingFrames[p][i]
          \/ i = Len(sendPendingFrames[p]) + 1 /\ queue[i] = Len(result[p]) + 1
    BY <1>4
  <2>5. \A k \in 1..Len(result'[p]) :
          result'[p][k] = "ok" => k \in 1..Len(result[p]) /\ result[p][k] = "ok"
    BY <1>4, <1>6
  <2>6. OkInv(p, b)'
    BY <1>3, <2>1, <2>5 DEF OkInv
  <2>7. Len(result'[p]) = Numbered(p) + Len(queue)
    BY <1>4, <1>5, <2>1, <2>2, <2>3
  <2>8. \A i \in 1..Len(queue) : queue[i] = Numbered(p) + i
    BY <1>4, <2>1, <2>2, <2>4
  <2> QED BY <2>6, <2>7, <2>8
<1>8. /\ sendingFrame'[b] = sendingFrame[b]
      /\ sendPendingFrames'[b] = sendPendingFrames[b]
      /\ SendingSet(b)' = SendingSet(b)
      /\ ~everClosed[p] => QueueInv(p)' /\ Numbered(p) <= Numbered(p)'
      /\ \A action \in SendingSet(p)' :
           \/ action \in SendingSet(p)
           \/ /\ ~everClosed[p] => Carries(p, action.body)'
              /\ action.body.ack = nextReceive[p]
  <2>1. CASE sendingFrame[p] = NoFrame
    <3>1. SendNextFrame(p, queue, nextSend[p], {})
      BY <2>1 DEF SendData
    <3>2. nextSend'[p] = nextSend[p] /\ Numbered(p) = nextSend[p]
      BY <1>2, <1>4, <2>1 DEF Numbered
    <3> HIDE DEF queue
    <3>3. /\ sendingFrame'[b] = sendingFrame[b]
          /\ sendPendingFrames'[b] = sendPendingFrames[b]
          /\ SendingSet(b)' = SendingSet(b)
      BY <1>4, <1>5, <3>1, NextFrameEffect
    <3>4. \A action \in SendingSet(p)' :
            \/ action \in SendingSet(p)
            \/ action = NewSend(Data(nextSend[p], nextReceive[p], Head(queue)))
      BY <1>4, <1>5, <3>1, NextFrameEffect
    <3>5. \A n, m, k : NewSend(Data(n, m, k)).body.ack = m
      BY DEF NewSend, Data
    <3>6. ASSUME ~everClosed[p]
          PROVE  /\ QueueInv(p)' /\ nextSend[p] <= Numbered(p)'
                 /\ \A action \in SendingSet(p)' :
                      \/ action \in SendingSet(p) \cup {}
                      \/ Carries(p, action.body)'
      <4>1. nextSend[p] < SeqModulus
        BY <3>6, OpenEndFacts DEF QueueInv
      <4>2. /\ Len(result'[p]) = nextSend[p] + Len(queue)
            /\ \A i \in 1..Len(queue) : queue[i] = nextSend[p] + i
        BY <1>7, <3>2, <3>6
      <4> QED BY <1>4, <1>5, <3>1, <3>2, <4>1, <4>2, NextFrameQueue
    <3> QED BY <3>2, <3>3, <3>4, <3>5, <3>6
  <2>2. CASE sendingFrame[p] # NoFrame
    <3>1. /\ sendPendingFrames' = [sendPendingFrames EXCEPT ![p] = queue]
          /\ UNCHANGED <<sending, sendingFrame>>
      BY <2>2 DEF SendData
    <3> HIDE DEF queue
    <3>2. /\ sendPendingFrames'[p] = queue
          /\ sendPendingFrames'[b] = sendPendingFrames[b]
      BY <1>1, <3>1 DEF TypeOK
    <3>3. /\ \A o : SendingSet(o)' = SendingSet(o)
          /\ Numbered(p)' = Numbered(p)
      BY <1>2, <3>1 DEF SendingSet, Numbered
    <3>4. ASSUME ~everClosed[p] PROVE QueueInv(p)' /\ Numbered(p) <= Numbered(p)'
      <4>1. QueueInv(p) /\ Numbered(p) \in Nat
        BY <3>4, OpenEndFacts, NumberedType
      <4> QED BY <1>2, <1>7, <3>1, <3>2, <3>3, <3>4, <4>1 DEF QueueInv
    <3> QED BY <3>1, <3>2, <3>3, <3>4
  <2> QED BY <2>1, <2>2
<1>9. OtherEndKept(p)
  BY <1>2, <1>3, <1>6, <1>8 DEF OtherEndKept
<1>10. ~everClosed[b] =>
         /\ \A i \in 1..Len(received'[p]) : received'[p][i] \in 1..Numbered(b)
         /\ \A k \in 1..nextReceive'[p] : Delivered(p, k)'
         /\ ~everClosed[p] => OrderInv(p)'
  BY <1>2, <1>3, OpenEndFacts DEF AcksInv, OrderInv
<1>11. BodiesFollow(p)
  <2>1. \A action \in SendingSet(p)' :
          action.body \in Outgoing(p) \/ NewBody(p, action.body)
    <3>1. SUFFICES ASSUME NEW action \in SendingSet(p)', action \notin SendingSet(p)
                   PROVE  NewBody(p, action.body)
      BY OutgoingParts
    <3>2. /\ ~everClosed[p] => Carries(p, action.body)'
          /\ action.body.ack = nextReceive[p]
      BY <1>8, <3>1
    <3>3. ~everClosed[b] => AcksDelivered(p, action.body)'
      BY <1>2, <1>10, <3>2 DEF AcksDelivered
    <3> QED BY <1>2, <3>2, <3>3 DEF NewBody
  <2> QED BY <1>3, <2>1, OutgoingParts DEF BodiesFollow
<1> QED BY <1>2, <1>3, <1>7, <1>8, <1>9, <1>10, <1>11 DEF DeliveryStep

LEMMA ApplicationDelivery ==
  ASSUME TypeOK, DeliveryInv, NEW p \in Peer, Application(p)
  PROVE  DeliveryStep(p)
<1>1. CASE CloseSocket(p)
  <2>1. /\ StartSends(p, {NewSend(Control("fin"))})
        /\ UNCHANGED <<dataVars, timers, network, everClosed>>
    BY <1>1 DEF CloseSocket, historyVars
  <2>2. /\ SendingSet(p)' = SendingSet(p) \cup {NewSend(Control("fin"))}
        /\ SendingSet(Other(p))' = SendingSet(Other(p))
    BY <2>1, StartSendsEffect
  <2>3. NewSend(Control("fin")).body.type = "fin"
    BY RetryBody, ControlOfType
  <2>4. "fin" \notin DataTypes
    BY DEF DataTypes
  <2>5. \A o : TimerSet(o)' = TimerSet(o) /\ NetworkSet(o)' = NetworkSet(o)
    BY <2>1 DEF TimerSet, NetworkSet
  <2>6. \A action \in SendingSet(p)' :
          action \in SendingSet(p) \/ action.body.type \notin DataTypes
    BY <2>2, <2>3, <2>4
  <2>7. BodiesKept(p)
    BY <2>2, <2>5, <2>6, OutgoingParts DEF BodiesKept
  <2>8. DataKept(p)
    BY <2>1 DEF DataKept
  <2> QED BY <2>7, <2>8, KeptDeliveryStep
<1>2. CASE SendData(p)
  BY <1>2, SendDataDelivery
<1> QED BY <1>1, <1>2 DEF Application

LEMMA OpeningDelivery ==
  ASSUME TypeOK, DeliveryInv, Connect \/ Accept \/ Reject
  PROVE  DeliveryStep(Client) \/ DeliveryStep(Server)
<1>1. /\ Client \in Peer /\ Server \in Peer
      /\ Other(Client) = Server /\ Other(Server) = Client
  BY PeerAssumption DEF Peer, Other
<1>2. UNCHANGED <<dataVars, everClosed, timers>>
  BY DEF Connect, Accept, Reject, historyVars
<1>3. DataKept(Client) /\ DataKept(Server)
  BY <1>2 DEF DataKept
<1>4. \A o : TimerSet(o)' = TimerSet(o)
  BY <1>2 DEF TimerSet
<1>5. "syn" \notin DataTypes /\ "syn ack" \notin DataTypes
  BY DEF DataTypes
<1>6. CASE Connect
  <2>1. /\ SendingSet(Client)' = SendingSet(Client) \cup {NewSend(Control("syn"))}
        /\ SendingSet(Server)' = SendingSet(Server)
    BY <1>1, <1>6, StartSendsEffect DEF Connect
  <2>2. NewSend(Control("syn")).body.type = "syn"
    BY RetryBody, ControlOfType
  <2>3. UNCHANGED network
    BY <1>6 DEF Connect
  <2>4. \A o : NetworkSet(o)' = NetworkSet(o)
    BY <2>3 DEF NetworkSet
  <2>5. \A action \in SendingSet(Client)' :
          action \in SendingSet(Client) \/ action.body.type \notin DataTypes
    BY <1>5, <2>1, <2>2
  <2>6. BodiesKept(Client)
    BY <1>1, <1>4, <2>1, <2>4, <2>5, OutgoingParts DEF BodiesKept
  <2> QED BY <1>1, <1>3, <2>6, KeptDeliveryStep
<1>7. CASE Accept
  <2>1. /\ network' = [network EXCEPT ![Server] = Minus(@, Control("syn"))]
        /\ StartSends(Server, SynReplies(syn[Server]))
    BY <1>7 DEF Accept
  <2>2. /\ SendingSet(Server)' = SendingSet(Server) \cup SynReplies(syn[Server])
        /\ SendingSet(Client)' = SendingSet(Client)
    BY <1>1, <2>1, StartSendsEffect
  <2>3. /\ NetworkSet(Client)' = NetworkSet(Client)
        /\ NetworkSet(Server)' \subseteq NetworkSet(Server)
    BY <1>1, <2>1, MinusBag, PeerAssumption DEF TypeOK, BagsOf, NetworkSet
  <2>4. \A action \in SynReplies(syn[Server]) :
          action.body.type = "syn ack" \/ action.body.type = "syn"
    BY SynRepliesBody, ControlOfType, Zenon
  <2>5. \A action \in SendingSet(Server)' :
          action \in SendingSet(Server) \/ action.body.type \notin DataTypes
    BY <1>5, <2>2, <2>4
  <2>6. BodiesKept(Server)
    BY <1>1, <1>4, <2>2, <2>3, <2>5, OutgoingParts DEF BodiesKept
  <2> QED BY <1>1, <1>3, <2>6, KeptDeliveryStep
<1>8. CASE Reject
  <2>1. /\ NetworkSet(Client)' = NetworkSet(Client)
        /\ NetworkSet(Server)' \subseteq NetworkSet(Server)
    <3>1. PICK body : network' = [network EXCEPT ![Server] = Minus(@, body)]
      BY <1>8 DEF Reject
    <3> QED BY <1>1, <3>1, MinusBag, PeerAssumption DEF TypeOK, BagsOf, NetworkSet
  <2>2. UNCHANGED sending
    BY <1>8 DEF Reject
  <2>3. \A o : SendingSet(o)' = SendingSet(o)
    BY <2>2 DEF SendingSet
  <2>4. BodiesKept(Server)
    BY <1>1, <1>4, <2>1, <2>3, OutgoingParts DEF BodiesKept
  <2> QED BY <1>1, <1>3, <2>4, KeptDeliveryStep
<1> QED BY <1>6, <1>7, <1>8

-----------------------------------------------------------------------------
LEMMA DeliveryInit == Init => DeliveryInv
<1> SUFFICES ASSUME Init PROVE DeliveryInv
  OBVIOUS
<1>1. \A p \in Peer :
        /\ BagToSet(sending[p]) = {} /\ BagToSet(timers[p]) = {}
        /\ BagToSet(network[p]) = {}
  BY EmptyBagIsABag DEF Init
<1>2. \A p \in Peer :
        /\ nextSend[p] = 0 /\ nextReceive[p] = 0 /\ sendingFrame[p] = NoFrame
        /\ sendPendingFrames[p] = <<>> /\ result[p] = <<>> /\ received[p] = <<>>
  BY DEF Init
<1>3. \A p \in Peer : Outgoing(p) = {}
  BY <1>1, OtherType DEF Outgoing
<1>4. \A p \in Peer : Numbered(p) = 0
  BY <1>2 DEF Numbered
<1>5. ASSUME NEW p \in Peer
      PROVE  /\ QueueInv(p) /\ FramesInv(p) /\ AcksInv(p, Other(p))
             /\ OkInv(p, Other(p)) /\ OrderInv(Other(p))
  <2>1. QueueInv(p)
    BY <1>2, <1>4, SeqModulusAssumption DEF QueueInv
  <2>2. FramesInv(p) /\ OkInv(p, Other(p))
    BY <1>2, <1>3 DEF FramesInv, OkInv
  <2>3. AcksInv(p, Other(p)) /\ OrderInv(Other(p))
    BY <1>2, <1>3, OtherType DEF AcksInv, OrderInv
  <2> QED BY <2>1, <2>2, <2>3
<1>6. OnTheWireInv
  BY <1>1 DEF OnTheWireInv
<1> QED BY <1>5, <1>6 DEF DeliveryInv

LEMMA DeliveryNext == TypeOK /\ DeliveryInv /\ [Next]_vars => DeliveryInv'
<1> SUFFICES ASSUME TypeOK, DeliveryInv, [Next]_vars PROVE DeliveryInv'
  OBVIOUS
<1>1. TypeOK'
  BY TypeStep
<1>2. CASE UNCHANGED vars
  <2>1. UNCHANGED <<nextReceive, nextSend, sendingFrame, sendPendingFrames, result,
                    received, sending, timers, network, everClosed>>
    BY <1>2 DEF vars, dataVars, historyVars
  <2>2. \A p : /\ Numbered(p)' = Numbered(p) /\ Outgoing(p)' = Outgoing(p)
               /\ \A k : Delivered(p, k)' <=> Delivered(p, k)
    BY <2>1 DEF Numbered, Outgoing, Delivered
  <2>3. \A p : QueueInv(p)' <=> QueueInv(p)
    BY <2>1, <2>2 DEF QueueInv
  <2>4. \A p : FramesInv(p)' <=> FramesInv(p)
    BY <2>2 DEF FramesInv, Carries
  <2>5. \A p, q : AcksInv(p, q)' <=> AcksInv(p, q)
    BY <2>1, <2>2 DEF AcksInv, AcksDelivered
  <2>6. \A p, q : (OkInv(p, q)' <=> OkInv(p, q)) /\ (OrderInv(q)' <=> OrderInv(q))
    BY <2>1, <2>2 DEF OkInv, OrderInv
  <2>7. OnTheWireInv'
    BY <2>1 DEF DeliveryInv, OnTheWireInv
  <2> QED BY <2>1, <2>3, <2>4, <2>5, <2>6, <2>7 DEF DeliveryInv
<1>3. CASE Next
  <2>1. \E a \in Peer : DeliveryStep(a)
    <3>1. CASE Connect \/ Accept \/ Reject
      BY <3>1, OpeningDelivery DEF Peer
    <3>2. CASE ~(Connect \/ Accept \/ Reject)
      BY <1>3, <3>2, ApplicationDelivery, ReceiveDelivery, SuccessDelivery,
         FailureDelivery, TimeoutDelivery, KeptDeliveryStep DEF Next
    <3> QED BY <3>1, <3>2
  <2> QED BY <1>1, <2>1, DeliveryStepInv
<1> QED BY <1>2, <1>3

(* Frames carry the sends that their numbers say, however old they are, and *)
(* no end acknowledges or resolves more than was handed over.               *)
THEOREM DeliveryCorrect == Spec => []DeliveryInv
<1>1. Init => DeliveryInv
  BY DeliveryInit
<1>2. TypeOK /\ DeliveryInv /\ [Next]_vars => DeliveryInv'
  BY DeliveryNext
<1> QED BY <1>1, <1>2, TypeCorrect, PTL DEF Spec

(* A send() of an end that has not closed resolves Ok only when its payload *)
(* has been handed to the other application.                                *)
THEOREM OkIsDelivered == Spec => []OkMeansDelivered
<1>1. DeliveryInv => OkMeansDelivered
  BY DEF DeliveryInv, OkInv, Delivered, OkMeansDelivered
<1> QED BY <1>1, DeliveryCorrect, PTL

(* While both ends are open, what an application receives is what the other *)
(* end sent: in order, nothing lost and nothing twice.                      *)
THEOREM DeliveryIsInOrder == Spec => []InOrderDelivery
<1>1. TypeOK /\ DeliveryInv => InOrderDelivery
  <2> SUFFICES ASSUME TypeOK, DeliveryInv, NEW p \in Peer,
                      ~everClosed[p], ~everClosed[Other(p)]
               PROVE  /\ Len(received[p]) <= Len(result[Other(p)])
                      /\ \A k \in 1..Len(received[p]) : received[p][k] = k
    BY DEF InOrderDelivery
  <2> DEFINE b == Other(p)
  <2>1. /\ QueueInv(b) /\ AcksInv(b, p) /\ OrderInv(p)
        /\ b \in Peer
    BY OtherType, OpenEndFacts
  <2>2. /\ Len(received[p]) \in Nat /\ Len(sendPendingFrames[b]) \in Nat
        /\ Numbered(b) \in Nat
    BY <2>1, NumberedType DEF TypeOK
  <2>3. Len(received[p]) <= Numbered(b)
    <3>1. CASE Len(received[p]) = 0
      BY <2>2, <3>1
    <3>2. CASE Len(received[p]) \in 1..Len(received[p])
      <4>1. received[p][Len(received[p])] = Len(received[p])
        BY <2>1, <3>2 DEF OrderInv
      <4>2. received[p][Len(received[p])] \in 1..Numbered(b)
        BY <2>1, <3>2 DEF AcksInv
      <4> QED BY <2>2, <4>1, <4>2
    <3> QED BY <2>2, <3>1, <3>2
  <2>4. Len(result[b]) = Numbered(b) + Len(sendPendingFrames[b])
    BY <2>1 DEF QueueInv
  <2>5. Len(received[p]) <= Len(result[b])
    BY <2>2, <2>3, <2>4
  <2> QED BY <2>1, <2>5 DEF OrderInv
<1> QED BY <1>1, DeliveryCorrect, TypeCorrect, PTL

-----------------------------------------------------------------------------
(* The refinement of ReliableChannel, for sockets that are followed for one *)
(* connection.  DeliveryInv says nothing of an end whose peer has closed;   *)
(* LinkInv adds that frames of a peer that has closed are still in order,   *)
(* and that what is confirmed is a prefix of the sends.                     *)

Settled(p) ==
  \A k \in 1..Len(result[p]) :
    result[p][k] = IF k <= nextSend[p] THEN "ok" ELSE "pending"

Arriving(p, body) ==
  body.type = "data" =>
    body.payload = body.seq + 1 /\ body.payload <= Len(result[Other(p)])

LinkInvOf(p) ==
  /\ \A i \in 1..Len(received[p]) : received[p][i] = i
  /\ everClosed[p] => ~isOpen[p]
  /\ ~everClosed[p] => Len(received[p]) = nextReceive[p] /\ Settled(p)
  /\ \A body \in NetworkSet(p) : Arriving(p, body)

LinkInv == \A p \in Peer : LinkInvOf(p)

Confirmed(p) == {k \in DOMAIN result[p] : result[p][k] = "ok"}

LEMMA SettledConfirms ==
  ASSUME TypeOK, NEW p \in Peer, QueueInv(p), Settled(p)
  PROVE  /\ Confirmed(p) = 1..nextSend[p]
         /\ Cardinality(Confirmed(p)) = nextSend[p]
<1>1. nextSend[p] \in Nat /\ Len(result[p]) \in Nat /\ DOMAIN result[p] = 1..Len(result[p])
  BY DEF TypeOK
<1>2. nextSend[p] <= Len(result[p])
  <2>1. Numbered(p) \in Nat /\ nextSend[p] <= Numbered(p) /\ Len(sendPendingFrames[p]) \in Nat
    BY DEF TypeOK, Numbered
  <2> QED BY <1>1, <2>1 DEF QueueInv
<1>3. Confirmed(p) = 1..nextSend[p]
  BY <1>1, <1>2 DEF Confirmed, Settled
<1>4. Cardinality(1..nextSend[p]) = nextSend[p]
  BY <1>1, FS_Interval
<1> QED BY <1>3, <1>4

(* An end that has closed takes no step that opens it again. *)
LEMMA ClosedIsNotOpen ==
  ASSUME ~Revives, TypeOK, Next, NEW p \in Peer, everClosed[p] => ~isOpen[p]
  PROVE  everClosed'[p] => ~isOpen'[p]
<1>1. CASE UNCHANGED <<isOpen, everClosed>>
  BY <1>1
<1>2. CASE \E a \in Peer : \E error, timedOut : Close(a, error, timedOut)
  <2>1. PICK a \in Peer : \E error, timedOut : Close(a, error, timedOut)
    BY <1>2
  <2>2. /\ isOpen' = [isOpen EXCEPT ![a] = FALSE]
        /\ everClosed' = [everClosed EXCEPT ![a] = TRUE]
    BY <2>1 DEF Close
  <2> QED BY <2>2 DEF TypeOK
<1>3. CASE \E a \in Peer : Followed(a) /\ OpenIfDone(a)
  <2>1. PICK a \in Peer : Followed(a) /\ OpenIfDone(a)
    BY <1>3
  <2>2. ~everClosed[a] /\ everClosed' = everClosed /\ \A o \in Peer : o # a => isOpen'[o] = isOpen[o]
    BY <2>1 DEF Followed, OpenIfDone, Open, Stay, TypeOK
  <2> QED BY <2>2
<1>4. ASSUME NEW a \in Peer, OnReceive(a)
      PROVE  \/ UNCHANGED <<isOpen, everClosed>>
             \/ \E error, timedOut : Close(a, error, timedOut)
             \/ Followed(a) /\ OpenIfDone(a)
  BY <1>4, StayEffect
     DEF OnReceive, OnSynReceived, OnSynAckReceived, OnFinReceived, OnFinAckReceived,
         OnDataWhenNotOpen, OnDataReceived, OnDataAckReceived, CloseIfDone, Receive
<1>5. ASSUME NEW a \in Peer, NEW action, OnSendSuccess(a, action)
      PROVE  \/ UNCHANGED <<isOpen, everClosed>>
             \/ \E error, timedOut : Close(a, error, timedOut)
             \/ Followed(a) /\ OpenIfDone(a)
  BY <1>5, StayEffect
     DEF OnSendSuccess, OnSynSendSuccess, OnSynAckSendSuccess, OnSendDataSuccess,
         OnSendDataAckSuccess, OnFinSendSuccess, OnFinAckSendSuccess, CloseIfDone, Transmit
<1>6. ASSUME NEW a \in Peer, NEW action, OnSendFailure(a, action)
      PROVE  \/ UNCHANGED <<isOpen, everClosed>>
             \/ \E error, timedOut : Close(a, error, timedOut)
  BY <1>6, StayEffect
     DEF OnSendFailure, OnSynSendFailure, OnSynAckSendFailure, OnSendDataFailure,
         OnSendDataAckFailure, OnFinSendFailure, OnFinAckSendFailure
<1>7. ASSUME NEW a \in Peer, NEW timeout, OnReceiveAckTimeout(a, timeout)
      PROVE  \/ UNCHANGED <<isOpen, everClosed>>
             \/ \E error, timedOut : Close(a, error, timedOut)
  BY <1>7, StayEffect
     DEF OnReceiveAckTimeout, OnSynAckReceiveTimeout, OnReceiveDataAckTimeout,
         OnFinAckReceiveTimeout
<1>8. ASSUME \/ Connect \/ Accept \/ Reject
             \/ \E a \in Peer : Application(a)
      PROVE  UNCHANGED <<isOpen, everClosed>>
  BY <1>8, StayEffect
     DEF Connect, Accept, Reject, Application, SendData, CloseSocket, historyVars
<1> QED BY <1>1, <1>2, <1>3, <1>4, <1>5, <1>6, <1>7, <1>8 DEF Next

(* What is new on the way to q has been sent by an end that is followed. *)
LEMMA NetworkGrows ==
  ASSUME TypeOK, Next, NEW q \in Peer, NEW body \in NetworkSet(q)',
         body \notin NetworkSet(q)
  PROVE  /\ Followed(Other(q))
         /\ \E action \in SendingSet(Other(q)) : body = Wire(action.body)
<1>1. CASE UNCHANGED network
  BY <1>1 DEF NetworkSet
<1>2. CASE \E a \in Peer : \E old : network' = [network EXCEPT ![a] = Minus(@, old)]
  <2>1. PICK a \in Peer : \E old : network' = [network EXCEPT ![a] = Minus(@, old)]
    BY <1>2
  <2>2. NetworkSet(q)' \subseteq NetworkSet(q)
    BY <2>1, MinusBag DEF TypeOK, BagsOf, NetworkSet
  <2> QED BY <2>2
<1>3. CASE \E a \in Peer : \E action : Transmit(a, action)
  <2>1. PICK a \in Peer : \E action : Transmit(a, action)
    BY <1>3
  <2>2. PICK action : Transmit(a, action)
    BY <2>1
  <2>3. /\ action \in SendingSet(a) /\ Followed(a)
        /\ NetworkSet(a)' = NetworkSet(a)
        /\ NetworkSet(Other(a))' \subseteq NetworkSet(Other(a)) \cup {Wire(action.body)}
    BY <2>2, TransmitEffect DEF Transmit
  <2>4. a = Other(q) /\ q = Other(a)
    <3>1. q # a
      BY <2>3
    <3> QED BY <3>1 DEF Peer, Other
  <2> QED BY <2>3, <2>4
<1>4. ASSUME NEW a \in Peer, OnReceive(a)
      PROVE  \E old : network' = [network EXCEPT ![a] = Minus(@, old)]
  <2>1. \E old : Receive(a, old)
    BY <1>4 DEF OnReceive, OnSynReceived, OnSynAckReceived, OnFinReceived,
                OnFinAckReceived, OnDataWhenNotOpen, OnDataReceived, OnDataAckReceived
  <2> QED BY <2>1 DEF Receive
<1>5. ASSUME NEW a \in Peer, NEW action, OnSendSuccess(a, action)
      PROVE  Transmit(a, action)
  BY <1>5 DEF OnSendSuccess, OnSynSendSuccess, OnSynAckSendSuccess, OnSendDataSuccess,
              OnSendDataAckSuccess, OnFinSendSuccess, OnFinAckSendSuccess
<1>6. ASSUME NEW a \in Peer, NEW action, OnSendFailure(a, action)
      PROVE  UNCHANGED network
  BY <1>6
     DEF OnSendFailure, OnSynSendFailure, OnSynAckSendFailure, OnSendDataFailure,
         OnSendDataAckFailure, OnFinSendFailure, OnFinAckSendFailure, Fail
<1>7. ASSUME NEW a \in Peer, NEW timeout, OnReceiveAckTimeout(a, timeout)
      PROVE  UNCHANGED network
  BY <1>7
     DEF OnReceiveAckTimeout, OnSynAckReceiveTimeout, OnReceiveDataAckTimeout,
         OnFinAckReceiveTimeout, Expire
<1>8. ASSUME Connect \/ Accept \/ Reject
      PROVE  \/ UNCHANGED network
             \/ \E old : network' = [network EXCEPT ![Server] = Minus(@, old)]
  BY <1>8 DEF Connect, Accept, Reject
<1>9. ASSUME NEW a \in Peer, Application(a) PROVE UNCHANGED network
  BY <1>9 DEF Application, SendData, CloseSocket
<1>10. Server \in Peer
  BY DEF Peer
<1> QED BY <1>1, <1>2, <1>3, <1>4, <1>5, <1>6, <1>7, <1>8, <1>9, <1>10 DEF Next

(* Frames on their way stay in order: the invariants of delivery say so of  *)
(* those that their sender puts there while it is open.                     *)
LEMMA ArrivingNext ==
  ASSUME ~Revives, TypeOK, DeliveryInv, LinkInv, Next, NEW q \in Peer,
         Len(result[Other(q)]) <= Len(result'[Other(q)]),
         NEW body \in NetworkSet(q)'
  PROVE  Arriving(q, body)'
<1> DEFINE p == Other(q)
<1>1. p \in Peer /\ Other(p) = q
  BY OtherType
<1>2. Arriving(q, body)
  <2>1. CASE body \in NetworkSet(q)
    BY <2>1 DEF LinkInv, LinkInvOf
  <2>2. CASE body \notin NetworkSet(q)
    <3>1. ~everClosed[p]
      BY <2>2, NetworkGrows DEF Followed
    <3>2. PICK action \in SendingSet(p) : body = Wire(action.body)
      BY <2>2, NetworkGrows
    <3>3. action.body \in Body /\ Carries(p, action.body) /\ QueueInv(p)
      BY <1>1, <3>1, OpenEndFacts, OutgoingParts, SendingBody DEF FramesInv
    <3>4. Carries(p, body)
      BY <1>1, <3>2, <3>3, WireCarries
    <3>5. /\ Numbered(p) \in Nat /\ Len(sendPendingFrames[p]) \in Nat
          /\ Len(result[p]) = Numbered(p) + Len(sendPendingFrames[p])
      <4>1. Numbered(p) \in Nat
        BY <1>1, NumberedType
      <4>2. Len(sendPendingFrames[p]) \in Nat
        BY <1>1 DEF TypeOK
      <4> QED BY <3>3, <4>1, <4>2 DEF QueueInv
    <3>6. body \in Body
      BY <3>2, <3>3, WireType
    <3>7. body.type = "data" => body.payload \in Nat
      BY <3>6, DataOfType DEF DataBody
    <3> QED BY <3>4, <3>5, <3>7 DEF Arriving, Carries
  <2> QED BY <2>1, <2>2
<1>3. body.type = "data" => body.payload \in Nat
  <2>1. TypeOK'
    BY TypeStep
  <2>2. body \in Body
    BY <2>1 DEF TypeOK, BagsOf, NetworkSet
  <2> QED BY <2>2, DataOfType DEF DataBody
<1>4. Len(result[p]) \in Nat /\ Len(result'[p]) \in Nat
  <2>1. TypeOK'
    BY TypeStep
  <2>2. result \in [Peer -> Seq(SendResult)] /\ result' \in [Peer -> Seq(SendResult)]
    BY <2>1, Zenon DEF TypeOK
  <2>3. result[p] \in Seq(SendResult) /\ result'[p] \in Seq(SendResult)
    BY <1>1, <2>2, Zenon
  <2> QED BY <2>3
<1> QED BY <1>2, <1>3, <1>4 DEF Arriving

-----------------------------------------------------------------------------
(* What the step of an end does to what the channel sees of both ends, and  *)
(* that it is a step of the channel.                                        *)

DataEnd(p) ==
  /\ \A i \in 1..Len(received[p]) : received[p][i] = i
  /\ ~everClosed[p] => Len(received[p]) = nextReceive[p] /\ Settled(p)

LinkStep(a) ==
  LET b == Other(a) IN
  /\ result'[b] = result[b] /\ received'[b] = received[b]
  /\ nextSend'[b] = nextSend[b] /\ nextReceive'[b] = nextReceive[b]
  /\ everClosed'[b] = everClosed[b]
  /\ Len(result[a]) <= Len(result'[a])
  /\ DataEnd(a)'

LEMMA LinkStepInv ==
  ASSUME ~Revives, TypeOK, DeliveryInv, LinkInv, Next, NEW a \in Peer, LinkStep(a)
  PROVE  LinkInv'
<1> DEFINE b == Other(a)
<1>1. b \in Peer /\ Other(b) = a /\ \A p \in Peer : p = a \/ p = b
  BY OtherType DEF Peer, Other
<1>2. DataEnd(b)'
  BY <1>1 DEF LinkStep, DataEnd, LinkInv, LinkInvOf, Settled
<1>3. \A p \in Peer : Len(result[p]) <= Len(result'[p])
  <2>1. Len(result[b]) \in Nat
    BY <1>1 DEF TypeOK
  <2> QED BY <1>1, <2>1 DEF LinkStep
<1>4. ASSUME NEW p \in Peer PROVE LinkInvOf(p)'
  <2>1. DataEnd(p)'
    BY <1>1, <1>2 DEF LinkStep
  <2>2. everClosed'[p] => ~isOpen'[p]
    BY ClosedIsNotOpen DEF LinkInv, LinkInvOf
  <2>3. \A body \in NetworkSet(p)' : Arriving(p, body)'
    BY <1>3, OtherType, ArrivingNext
  <2> QED BY <2>1, <2>2, <2>3 DEF LinkInvOf, DataEnd
<1> QED BY <1>4 DEF LinkInv

ChannelStep == [Channel!Next]_(Channel!vars)

(* Most steps leave the data alone or close the end: the channel stays as it *)
(* is or breaks.                                                            *)
LEMMA KeptLink ==
  ASSUME TypeOK, LinkInv, NEW a \in Peer, DataKept(a)
  PROVE  LinkStep(a) /\ ChannelStep
<1>1. CASE UNCHANGED <<dataVars, everClosed>>
  <2>1. UNCHANGED <<nextReceive, nextSend, result, received, everClosed>>
    BY <1>1 DEF dataVars
  <2>2. Len(result[a]) \in Nat
    BY DEF TypeOK
  <2>3. LinkStep(a)
    BY <2>1, <2>2 DEF LinkStep, DataEnd, LinkInv, LinkInvOf, Settled
  <2>4. UNCHANGED Channel!vars
    BY <2>1 DEF Channel!vars
  <2> QED BY <2>3, <2>4 DEF ChannelStep
<1>2. ASSUME NEW error, NEW timedOut, Close(a, error, timedOut)
      PROVE  LinkStep(a) /\ ChannelStep
  <2> DEFINE sends == timedOut \cup Pending(a)
             results == Resolve(result[a], sends, "timeout")
  <2>1. /\ result' = [result EXCEPT ![a] = results]
        /\ everClosed' = [everClosed EXCEPT ![a] = TRUE]
        /\ received' = received
    BY <1>2 DEF Close
  <2>2. /\ DOMAIN results = DOMAIN result[a]
        /\ \A k \in DOMAIN result[a] : results[k] = "ok" <=> result[a][k] = "ok"
    BY DEF Resolve
  <2>3. Len(results) = Len(result[a]) /\ Len(result[a]) \in Nat
    <3>1. "timeout" \in SendResult /\ result[a] \in Seq(SendResult)
      BY DEF SendResult, TypeOK
    <3>2. results \in Seq(SendResult)
      BY <3>1, ResolveType
    <3> HIDE DEF results
    <3> QED BY <2>2, <3>1, <3>2
  <2> HIDE DEF results
  <2>4. /\ result'[a] = results /\ result'[Other(a)] = result[Other(a)]
        /\ everClosed'[a] /\ \A p \in Peer : p # a => result'[p] = result[p]
    BY <2>1, OtherType DEF TypeOK
  <2>5. LinkStep(a)
    <3>1. DataEnd(a)'
      BY <2>1, <2>4 DEF DataEnd, LinkInv, LinkInvOf
    <3>2. /\ nextSend'[Other(a)] = nextSend[Other(a)]
          /\ nextReceive'[Other(a)] = nextReceive[Other(a)]
          /\ everClosed'[Other(a)] = everClosed[Other(a)]
      BY <1>2, CloseDataEffect
    <3>3. Len(result[a]) <= Len(result'[a])
      BY <2>3, <2>4
    <3> QED BY <2>1, <2>4, <3>1, <3>2, <3>3 DEF LinkStep
  <2>6. Channel!Break(a)
    <3>1. \A p \in Peer : Len(result'[p]) = Len(result[p])
      BY <2>3, <2>4
    <3>2. \A p \in Peer : Confirmed(p)' = Confirmed(p)
      BY <2>2, <2>4 DEF Confirmed
    <3>3. /\ [p \in Peer |-> Len(result'[p])] = [p \in Peer |-> Len(result[p])]
          /\ [p \in Peer |-> Confirmed(p)'] = [p \in Peer |-> Confirmed(p)]
      BY <3>1, <3>2
    <3> QED BY <2>1, <3>3 DEF Channel!Break, Confirmed
  <2> QED BY <2>5, <2>6 DEF ChannelStep, Channel!Next
<1> QED BY <1>1, <1>2 DEF DataKept

LEMMA SendDataLink ==
  ASSUME TypeOK, DeliveryInv, LinkInv, NEW a \in Peer, SendData(a)
  PROVE  LinkStep(a) /\ ChannelStep
<1>1. /\ UNCHANGED <<nextReceive, nextSend, received, everClosed>>
      /\ result' = [result EXCEPT ![a] = Append(@, "pending")]
      /\ ~everClosed[a]
  BY StayEffect DEF SendData, LinkInv, LinkInvOf
<1>2. /\ result'[a] = Append(result[a], "pending")
      /\ \A p \in Peer : p # a => result'[p] = result[p]
      /\ result[a] \in Seq(SendResult) /\ nextSend[a] \in Nat
  BY <1>1 DEF TypeOK
<1>3. /\ Len(result'[a]) = Len(result[a]) + 1 /\ Len(result[a]) \in Nat
      /\ result'[a][Len(result[a]) + 1] = "pending"
      /\ \A k \in 1..Len(result[a]) : result'[a][k] = result[a][k]
      /\ DOMAIN result[a] = 1..Len(result[a])
      /\ DOMAIN result'[a] = 1..(Len(result[a]) + 1)
  BY <1>2
<1>4. LinkStep(a)
  <2>1. nextSend[a] <= Len(result[a])
    <3>1. QueueInv(a) /\ Settled(a)
      BY <1>1, OpenEndFacts DEF LinkInv, LinkInvOf
    <3>2. nextSend[a] <= Numbered(a) /\ Numbered(a) \in Nat /\ Len(sendPendingFrames[a]) \in Nat
      BY <1>2 DEF Numbered, TypeOK
    <3> QED BY <1>2, <1>3, <3>1, <3>2 DEF QueueInv
  <2>2. Settled(a)'
    BY <1>1, <1>2, <1>3, <2>1 DEF LinkInv, LinkInvOf, Settled
  <2> QED BY <1>1, <1>2, <1>3, <2>2, OtherType DEF LinkStep, DataEnd, LinkInv, LinkInvOf
<1>5. Channel!Send(a)
  <2>1. [p \in Peer |-> Len(result'[p])]
        = [[p \in Peer |-> Len(result[p])] EXCEPT ![a] = Len(result[a]) + 1]
    BY <1>2, <1>3
  <2>2. \A p \in Peer : Confirmed(p)' = Confirmed(p)
    <3>1. ASSUME NEW p \in Peer, p # a PROVE Confirmed(p)' = Confirmed(p)
      BY <1>2, <3>1, Zenon DEF Confirmed
    <3>2. ASSUME NEW k PROVE k \in Confirmed(a)' <=> k \in Confirmed(a)
      <4>1. CASE k \in 1..Len(result[a])
        BY <1>3, <4>1 DEF Confirmed
      <4>2. CASE k = Len(result[a]) + 1
        BY <1>3, <4>2 DEF Confirmed
      <4>3. CASE k \notin 1..(Len(result[a]) + 1)
        BY <1>3, <4>3 DEF Confirmed
      <4> QED BY <1>3, <4>1, <4>2, <4>3
    <3>3. Confirmed(a)' = Confirmed(a)
      BY <3>2
    <3> QED BY <3>1, <3>3
  <2>3. [p \in Peer |-> Confirmed(p)'] = [p \in Peer |-> Confirmed(p)]
    BY <2>2
  <2> QED BY <1>1, <2>1, <2>3 DEF Channel!Send, Confirmed
<1> QED BY <1>4, <1>5 DEF ChannelStep, Channel!Next

(* What has been acknowledged to an open end has been handed over, and is at *)
(* most the frame in flight.                                                *)
LEMMA AckKnown ==
  ASSUME TypeOK, DeliveryInv, NEW p \in Peer, ~everClosed[p],
         NEW body \in NetworkSet(p), body.type \in DataTypes
  PROVE  /\ body.ack \in Nat /\ body.ack <= Numbered(p)
         /\ body.ack # 0 => Delivered(Other(p), body.ack)
<1> DEFINE b == Other(p)
<1>1. b \in Peer /\ Other(b) = p
  BY OtherType
<1>2. body \in Body /\ body.ack \in Nat
  BY SendingBody, DataOfType DEF DataBody, DataAckBody, DataTypes
<1>3. AcksInv(p, b) /\ Numbered(p) \in Nat
  BY OpenEndFacts, NumberedType
<1>4. CASE body.ack = 0
  BY <1>2, <1>3, <1>4
<1>5. CASE body.ack # 0
  <2>1. body \in Outgoing(b)
    BY <1>1, OutgoingParts
  <2>2. AcksDelivered(b, body)
    BY <1>3, <2>1 DEF AcksInv
  <2>3. body.ack \in 1..body.ack
    BY <1>2, <1>5
  <2>4. Delivered(b, body.ack)
    BY <2>2, <2>3, Zenon DEF AcksDelivered, DataTypes
  <2>5. PICK i \in 1..Len(received[b]) : received[b][i] = body.ack
    BY <2>4 DEF Delivered
  <2>6. body.ack \in 1..Numbered(p)
    BY <1>3, <2>5 DEF AcksInv
  <2> QED BY <1>2, <1>3, <2>4, <2>6, UpTo
<1> QED BY <1>4, <1>5

(* An acknowledgement confirms the frame in flight, or nothing. *)
LEMMA ConfirmLink ==
  ASSUME TypeOK, DeliveryInv, LinkInv, NEW p \in Peer, ~everClosed[p],
         NEW body \in NetworkSet(p), body.type \in DataTypes,
         NEW actions, HandleAcknowledgeNumber(p, body.ack, actions)
  PROVE  /\ Settled(p)'
         /\ \A o \in Peer : Len(result'[o]) = Len(result[o])
         /\ \/ \A o \in Peer : Confirmed(o)' = Confirmed(o)
            \/ LET k == Cardinality(Confirmed(p)) + 1 IN
               /\ k <= Len(received[Other(p)])
               /\ Confirmed(p)' = Confirmed(p) \cup {k}
               /\ \A o \in Peer : o # p => Confirmed(o)' = Confirmed(o)
<1> DEFINE b == Other(p)
           ack == body.ack
<1>1. /\ ack \in Nat /\ ack <= Numbered(p)
      /\ ack # 0 => Delivered(b, ack)
  BY AckKnown
<1>2. QueueInv(p) /\ Settled(p) /\ b \in Peer
  BY OpenEndFacts, OtherType DEF LinkInv, LinkInvOf
<1>3. /\ nextSend[p] \in Nat /\ Numbered(p) \in Nat /\ Len(sendPendingFrames[p]) \in Nat
      /\ result[p] \in Seq(SendResult) /\ Len(result[p]) \in Nat
      /\ DOMAIN result[p] = 1..Len(result[p])
  BY NumberedType DEF TypeOK
<1> HIDE DEF ack
<1>4. CASE ~Acknowledges(p, ack)
  <2>1. UNCHANGED <<result, nextSend>>
    BY <1>4 DEF HandleAcknowledgeNumber, ack
  <2> QED BY <1>2, <2>1 DEF Settled, Confirmed
<1>5. CASE Acknowledges(p, ack)
  <2>1. sendingFrame[p] # NoFrame /\ ack > nextSend[p]
    BY <1>2, <1>5 DEF Acknowledges, QueueInv
  <2>2. Numbered(p) = nextSend[p] + 1
    BY <2>1 DEF Numbered
  <2>3. ack = nextSend[p] + 1 /\ sendingFrame[p].payload = ack
    BY <1>1, <1>2, <1>3, <2>1, <2>2 DEF QueueInv
  <2>4. ack <= Len(result[p])
    BY <1>2, <1>3, <2>2, <2>3 DEF QueueInv
  <2> DEFINE results == Resolve(result[p], {ack}, "ok")
  <2>5. /\ result' = [result EXCEPT ![p] = results]
        /\ nextSend' = [nextSend EXCEPT ![p] = ack]
    BY <1>5, <2>3 DEF HandleAcknowledgeNumber, ack
  <2>6. /\ DOMAIN results = DOMAIN result[p]
        /\ \A k \in DOMAIN result[p] :
             results[k] = IF k = ack /\ result[p][k] = "pending" THEN "ok" ELSE result[p][k]
    BY DEF Resolve
  <2>7. Len(results) = Len(result[p])
    <3>1. "ok" \in SendResult
      BY DEF SendResult
    <3>2. results \in Seq(SendResult)
      BY <1>3, <3>1, ResolveType
    <3> HIDE DEF results
    <3> QED BY <1>3, <2>6, <3>2
  <2> HIDE DEF results
  <2>8. /\ result'[p] = results /\ nextSend'[p] = ack
        /\ \A o \in Peer : o # p => result'[o] = result[o]
    BY <2>5 DEF TypeOK
  <2>9. Settled(p)'
    <3>1. SUFFICES ASSUME NEW k \in 1..Len(result[p])
                   PROVE  results[k] = IF k <= ack THEN "ok" ELSE "pending"
      BY <2>7, <2>8 DEF Settled
    <3>2. result[p][k] = IF k <= nextSend[p] THEN "ok" ELSE "pending"
      BY <1>2 DEF Settled
    <3> QED BY <1>1, <1>3, <2>3, <2>6, <3>2
  <2>10. Cardinality(Confirmed(p)) + 1 = ack
    BY <1>2, <2>3, SettledConfirms
  <2>11. ack <= Len(received[b])
    <3>1. PICK i \in 1..Len(received[b]) : received[b][i] = ack
      BY <1>1, <1>3, <2>3 DEF Delivered
    <3>2. received[b][i] = i
      BY <1>2, <3>1 DEF LinkInv, LinkInvOf
    <3>3. Len(received[b]) \in Nat
      BY <1>2 DEF TypeOK
    <3> QED BY <3>1, <3>2, <3>3
  <2>12. Confirmed(p)' = Confirmed(p) \cup {ack}
    <3>1. result[p][ack] = "pending" /\ ack \in DOMAIN result[p]
      BY <1>1, <1>2, <1>3, <2>3, <2>4 DEF Settled
    <3> QED BY <2>6, <2>8, <3>1 DEF Confirmed
  <2>13. \A o \in Peer : o # p => Confirmed(o)' = Confirmed(o)
    BY <2>8 DEF Confirmed
  <2>14. \A o \in Peer : Len(result'[o]) = Len(result[o])
    BY <2>7, <2>8
  <2> QED BY <2>9, <2>10, <2>11, <2>12, <2>13, <2>14
<1> QED BY <1>4, <1>5

LEMMA ChannelCount == \A S : Channel!Cardinality(S) = Cardinality(S)
  BY DEF Channel!Cardinality, Cardinality

(* A frame of data is handed over when it is the next one, and what it      *)
(* acknowledges is confirmed.                                               *)
LEMMA ExchangeLink ==
  ASSUME TypeOK, DeliveryInv, LinkInv, NEW p \in Peer, isOpen[p],
         NEW body \in NetworkSet(p), body.type \in DataTypes, UNCHANGED everClosed,
         NEW actions, HandleAcknowledgeNumber(p, body.ack, actions),
         \/ UNCHANGED <<nextReceive, received>>
         \/ /\ body.type = "data" /\ body.seq = nextReceive[p]
            /\ nextReceive' = [nextReceive EXCEPT ![p] = body.seq + 1]
            /\ received' = [received EXCEPT ![p] = Append(@, body.payload)]
  PROVE  LinkStep(p) /\ ChannelStep
<1> DEFINE b == Other(p)
<1>1. b \in Peer /\ b # p
  BY OtherType
<1>2. /\ ~everClosed[p] /\ Len(received[p]) = nextReceive[p]
      /\ \A i \in 1..Len(received[p]) : received[p][i] = i
      /\ Arriving(p, body)
  BY DEF LinkInv, LinkInvOf
<1>3. /\ Settled(p)'
      /\ \A o \in Peer : Len(result'[o]) = Len(result[o])
      /\ \/ \A o \in Peer : Confirmed(o)' = Confirmed(o)
         \/ LET k == Cardinality(Confirmed(p)) + 1 IN
            /\ k <= Len(received[Other(p)])
            /\ Confirmed(p)' = Confirmed(p) \cup {k}
            /\ \A o \in Peer : o # p => Confirmed(o)' = Confirmed(o)
  BY <1>2, ConfirmLink
<1>4. body.ack \in Nat
  BY <1>2, AckKnown
<1>5. nextSend'[b] = nextSend[b] /\ result'[b] = result[b]
  BY <1>4, AcknowledgeEffect
<1>6. /\ \A i \in 1..Len(received'[p]) : received'[p][i] = i
      /\ Len(received'[p]) = nextReceive'[p]
      /\ nextReceive'[b] = nextReceive[b] /\ received'[b] = received[b]
      /\ \/ received' = received
         \/ /\ Len(received[p]) < Len(result[b])
            /\ received' = [received EXCEPT ![p] = Append(@, Len(@) + 1)]
  <2>1. CASE UNCHANGED <<nextReceive, received>>
    BY <1>2, <2>1
  <2>2. CASE /\ body.type = "data" /\ body.seq = nextReceive[p]
             /\ nextReceive' = [nextReceive EXCEPT ![p] = body.seq + 1]
             /\ received' = [received EXCEPT ![p] = Append(@, body.payload)]
    <3>1. /\ nextReceive[p] \in Nat /\ received[p] \in Seq(Nat)
          /\ Len(received[p]) \in Nat /\ Len(result[b]) \in Nat
      BY <1>1 DEF TypeOK
    <3>2. body.payload = Len(received[p]) + 1 /\ body.payload <= Len(result[b])
      BY <1>2, <2>2 DEF Arriving
    <3>3. /\ received'[p] = Append(received[p], Len(received[p]) + 1)
          /\ nextReceive'[p] = Len(received[p]) + 1
          /\ nextReceive'[b] = nextReceive[b] /\ received'[b] = received[b]
      BY <1>1, <1>2, <2>2, <3>2 DEF TypeOK
    <3>4. /\ Len(received'[p]) = Len(received[p]) + 1
          /\ received'[p][Len(received[p]) + 1] = Len(received[p]) + 1
          /\ \A i \in 1..Len(received[p]) : received'[p][i] = received[p][i]
      BY <3>1, <3>3
    <3>5. \A i \in 1..Len(received'[p]) : received'[p][i] = i
      <4>1. \A i \in 1..Len(received'[p]) :
              i \in 1..Len(received[p]) \/ i = Len(received[p]) + 1
        BY <3>1, <3>4
      <4> QED BY <1>2, <3>4, <4>1
    <3>6. Len(received[p]) < Len(result[b])
      BY <3>1, <3>2
    <3>7. received' = [received EXCEPT ![p] = Append(@, Len(@) + 1)]
      BY <2>2, <3>2
    <3> QED BY <3>3, <3>4, <3>5, <3>6, <3>7
  <2> QED BY <2>1, <2>2
<1>7. LinkStep(p)
  <2>1. Len(result[p]) <= Len(result'[p])
    <3>1. Len(result[p]) \in Nat
      BY DEF TypeOK
    <3> QED BY <1>3, <3>1
  <2> QED BY <1>3, <1>5, <1>6, <2>1 DEF LinkStep, DataEnd
<1>8. Channel!Exchange(p)
  <2>1. [o \in Peer |-> Len(result'[o])] = [o \in Peer |-> Len(result[o])]
    BY <1>3
  <2>2. Channel!Deliver(p) \/ UNCHANGED received
    BY <1>1, <1>6 DEF Channel!Deliver
  <2>3. Channel!Confirm(p)
          \/ [o \in Peer |-> Confirmed(o)'] = [o \in Peer |-> Confirmed(o)]
    <3>1. CASE \A o \in Peer : Confirmed(o)' = Confirmed(o)
      BY <3>1
    <3>2. CASE LET k == Cardinality(Confirmed(p)) + 1 IN
               /\ k <= Len(received[Other(p)])
               /\ Confirmed(p)' = Confirmed(p) \cup {k}
               /\ \A o \in Peer : o # p => Confirmed(o)' = Confirmed(o)
      <4> DEFINE k == Cardinality(Confirmed(p)) + 1
      <4>1. [o \in Peer |-> Confirmed(o)']
            = [[o \in Peer |-> Confirmed(o)] EXCEPT ![p] = Confirmed(p) \cup {k}]
        BY <3>2
      <4>2. [o \in Peer |-> Confirmed(o)][p] = Confirmed(p)
        OBVIOUS
      <4>3. k <= Len(received[Other(p)])
        BY <3>2
      <4>4. Channel!Confirm(p)
        BY <4>1, <4>2, <4>3, ChannelCount DEF Channel!Confirm, Confirmed
      <4> QED BY <4>4
    <3> QED BY <1>3, <3>1, <3>2
  <2> QED BY <1>2, <2>1, <2>2, <2>3 DEF Channel!Exchange, Confirmed
<1> QED BY <1>7, <1>8 DEF ChannelStep, Channel!Next

-----------------------------------------------------------------------------
LEMMA ReceiveLink ==
  ASSUME TypeOK, DeliveryInv, LinkInv, NEW p \in Peer, OnReceive(p)
  PROVE  LinkStep(p) /\ ChannelStep
<1>1. ASSUME NEW body \in BagToSet(network[p]), OnDataReceived(p, body)
      PROVE  LinkStep(p) /\ ChannelStep
  <2> DEFINE answer == NewAckSend(DataAck(nextReceive'[p]))
             replies == IF body.seq > nextReceive[p] THEN {} ELSE {answer}
  <2>1. /\ body \in NetworkSet(p) /\ body.type = "data" /\ isOpen[p]
        /\ UNCHANGED everClosed
    BY <1>1, StayEffect DEF OnDataReceived, NetworkSet
  <2>2. HandleAcknowledgeNumber(p, body.ack, replies)
    BY <1>1 DEF OnDataReceived
  <2>3. \/ UNCHANGED <<nextReceive, received>>
        \/ /\ body.type = "data" /\ body.seq = nextReceive[p]
           /\ nextReceive' = [nextReceive EXCEPT ![p] = body.seq + 1]
           /\ received' = [received EXCEPT ![p] = Append(@, body.payload)]
    BY <1>1 DEF OnDataReceived, IsNext
  <2>4. body.type \in DataTypes
    BY <2>1 DEF DataTypes
  <2> HIDE DEF replies
  <2> QED BY <2>1, <2>2, <2>3, <2>4, ExchangeLink
<1>2. ASSUME NEW body \in BagToSet(network[p]), OnDataAckReceived(p, body)
      PROVE  LinkStep(p) /\ ChannelStep
  <2>1. /\ body \in NetworkSet(p) /\ body.type \in DataTypes /\ isOpen[p]
        /\ UNCHANGED everClosed
    BY <1>2, StayEffect DEF OnDataAckReceived, NetworkSet, DataTypes
  <2> DEFINE none == {}
  <2>2. HandleAcknowledgeNumber(p, body.ack, none) /\ UNCHANGED <<nextReceive, received>>
    BY <1>2 DEF OnDataAckReceived
  <2> HIDE DEF none
  <2> QED BY <2>1, <2>2, ExchangeLink
<1>3. CASE \/ OnSynReceived(p) \/ OnSynAckReceived(p)
           \/ OnFinReceived(p) \/ OnFinAckReceived(p)
           \/ \E body : OnDataWhenNotOpen(p, body)
  BY <1>3, ControlDelivery, KeptLink
<1> QED BY <1>1, <1>2, <1>3 DEF OnReceive

LEMMA LinkInit == Init => LinkInv /\ Channel!Init
<1> SUFFICES ASSUME Init PROVE LinkInv /\ Channel!Init
  OBVIOUS
<1>1. \A p \in Peer : NetworkSet(p) = {}
  BY EmptyBagIsABag DEF Init, NetworkSet
<1>2. \A p \in Peer :
        /\ received[p] = <<>> /\ result[p] = <<>> /\ nextReceive[p] = 0 /\ ~everClosed[p]
  BY DEF Init
<1>3. LinkInv
  BY <1>1, <1>2 DEF LinkInv, LinkInvOf, Settled
<1>4. Channel!Init
  BY DEF Init, Channel!Init
<1> QED BY <1>3, <1>4

LEMMA LinkNext ==
  ASSUME ~Revives
  PROVE  TypeOK /\ DeliveryInv /\ LinkInv /\ [Next]_vars => LinkInv' /\ ChannelStep
<1> SUFFICES ASSUME TypeOK, DeliveryInv, LinkInv, [Next]_vars
             PROVE  LinkInv' /\ ChannelStep
  OBVIOUS
<1>1. CASE UNCHANGED vars
  <2>1. UNCHANGED <<nextReceive, nextSend, result, received, isOpen, network, everClosed>>
    BY <1>1 DEF vars, dataVars, historyVars
  <2>2. LinkInv'
    BY <2>1 DEF LinkInv, LinkInvOf, Settled, Arriving, NetworkSet
  <2>3. UNCHANGED Channel!vars
    BY <2>1 DEF Channel!vars
  <2> QED BY <2>2, <2>3 DEF ChannelStep
<1>2. CASE Next
  <2>1. \E a \in Peer : LinkStep(a) /\ ChannelStep
    <3>1. CASE Connect \/ Accept \/ Reject
      <4>1. UNCHANGED <<dataVars, everClosed>> /\ Client \in Peer
        BY <3>1 DEF Connect, Accept, Reject, historyVars, Peer
      <4>2. DataKept(Client)
        BY <4>1 DEF DataKept
      <4> QED BY <4>1, <4>2, KeptLink
    <3>2. ASSUME NEW a \in Peer, CloseSocket(a) PROVE DataKept(a)
      BY <3>2 DEF CloseSocket, historyVars, DataKept
    <3>3. ASSUME NEW a \in Peer, Application(a) PROVE LinkStep(a) /\ ChannelStep
      BY <3>2, <3>3, KeptLink, SendDataLink DEF Application
    <3> QED BY <1>2, <3>1, <3>3, ReceiveLink, SuccessDelivery, FailureDelivery,
               TimeoutDelivery, KeptLink DEF Next
  <2> QED BY <1>2, <2>1, LinkStepInv
<1> QED BY <1>1, <1>2

(* As long as no closed socket is used again, the pair of sockets is a      *)
(* reliable channel: every step is a step of the channel, or invisible.     *)
THEOREM SocketsImplementChannel ==
  ASSUME ~Revives
  PROVE  Spec => ImplementsChannel
<1>1. Init => LinkInv /\ Channel!Init
  BY LinkInit
<1>2. TypeOK /\ DeliveryInv /\ LinkInv /\ [Next]_vars => LinkInv' /\ [Channel!Next]_(Channel!vars)
  BY LinkNext DEF ChannelStep
<1> QED BY <1>1, <1>2, TypeCorrect, DeliveryCorrect, PTL DEF Spec, ImplementsChannel, Channel!Spec

-----------------------------------------------------------------------------
(* What a close forgets.  A send waits in the queue or is in flight until   *)
(* it resolves; only a close empties both.                                  *)

Held(p) ==
  Pending(p) \cup (IF sendingFrame[p] = NoFrame THEN {} ELSE {sendingFrame[p].payload})

ClosesOrKeeps(a) ==
  \/ UNCHANGED dataVars
  \/ \E error, timedOut :
       /\ Close(a, error, timedOut)
       /\ \/ timedOut = {}
          \/ sendingFrame[a] # NoFrame /\ timedOut = {sendingFrame[a].payload}

ForgetStep ==
  \A p \in Peer : Forgotten(p)' # Forgotten(p) =>
    /\ state'[p] = "closed"
    /\ sendingFrame[p] # NoFrame
    /\ Forgotten(p)' = Forgotten(p) \cup {sendingFrame[p].payload}

LEMMA OnlyKept ==
  ASSUME NEW p, UNCHANGED <<result, sendingFrame, sendPendingFrames>>
         \/ /\ result'[p] = result[p] /\ sendingFrame'[p] = sendingFrame[p]
            /\ sendPendingFrames'[p] = sendPendingFrames[p]
  PROVE  Forgotten(p)' = Forgotten(p)
BY DEF Forgotten, Pending

LEMMA CloseForgets ==
  ASSUME TypeOK, NEW a \in Peer, ClosesOrKeeps(a)
  PROVE  ForgetStep
<1>1. CASE UNCHANGED dataVars
  BY <1>1, OnlyKept DEF dataVars, ForgetStep
<1>2. ASSUME NEW error, NEW timedOut, Close(a, error, timedOut),
             \/ timedOut = {}
             \/ sendingFrame[a] # NoFrame /\ timedOut = {sendingFrame[a].payload}
      PROVE  ForgetStep
  <2> DEFINE sends == timedOut \cup Pending(a)
             results == Resolve(result[a], sends, "timeout")
  <2>1. /\ state' = [state EXCEPT ![a] = "closed"]
        /\ sendingFrame' = [sendingFrame EXCEPT ![a] = NoFrame]
        /\ sendPendingFrames' = [sendPendingFrames EXCEPT ![a] = <<>>]
        /\ result' = [result EXCEPT ![a] = results]
    BY <1>2 DEF Close
  <2>2. /\ DOMAIN results = DOMAIN result[a]
        /\ \A k \in DOMAIN result[a] :
             results[k] = "pending" <=> result[a][k] = "pending" /\ k \notin sends
    BY DEF Resolve
  <2>3. Len(results) = Len(result[a]) /\ DOMAIN result[a] = 1..Len(result[a])
    <3>1. "timeout" \in SendResult /\ result[a] \in Seq(SendResult)
      BY DEF SendResult, TypeOK
    <3>2. results \in Seq(SendResult)
      BY <3>1, ResolveType
    <3> HIDE DEF results
    <3> QED BY <2>2, <3>1, <3>2
  <2> HIDE DEF results
  <2>4. /\ state'[a] = "closed" /\ sendingFrame'[a] = NoFrame
        /\ sendPendingFrames'[a] = <<>> /\ result'[a] = results
        /\ \A p \in Peer : p # a =>
             /\ result'[p] = result[p] /\ sendingFrame'[p] = sendingFrame[p]
             /\ sendPendingFrames'[p] = sendPendingFrames[p]
    BY <2>1 DEF TypeOK
  <2>5. Pending(a)' = {}
    BY <2>4 DEF Pending
  <2>6. Forgotten(a)' = {k \in 1..Len(result[a]) : result[a][k] = "pending" /\ k \notin sends}
    BY <2>2, <2>3, <2>4, <2>5 DEF Forgotten
  <2>7. Forgotten(a)' # Forgotten(a) =>
          /\ sendingFrame[a] # NoFrame
          /\ Forgotten(a)' = Forgotten(a) \cup {sendingFrame[a].payload}
    <3>1. CASE sendingFrame[a] = NoFrame
      BY <1>2, <2>6, <3>1 DEF Forgotten
    <3>2. CASE sendingFrame[a] # NoFrame
      BY <1>2, <2>6, <3>2 DEF Forgotten
    <3> QED BY <3>1, <3>2
  <2> QED BY <2>4, <2>7, OnlyKept DEF ForgetStep
<1> QED BY <1>1, <1>2 DEF ClosesOrKeeps

(* What is resolved is no longer held, and what was queued still is. *)
LEMMA NextFrameHeld ==
  ASSUME TypeOK, NEW p \in Peer, NEW queue \in Seq(Nat), NEW seq, NEW actions,
         SendNextFrame(p, queue, seq, actions)
  PROVE  Held(p)' = {queue[i] : i \in DOMAIN queue}
<1>1. CASE queue = <<>>
  <2>1. sendingFrame'[p] = NoFrame /\ sendPendingFrames'[p] = <<>>
    BY <1>1 DEF SendNextFrame, TypeOK
  <2> QED BY <1>1, <2>1 DEF Held, Pending
<1>2. CASE queue # <<>>
  <2> DEFINE frame == Data(seq, nextReceive[p], Head(queue))
  <2>1. sendingFrame'[p] = frame /\ sendPendingFrames'[p] = Tail(queue)
    BY <1>2 DEF SendNextFrame, TypeOK
  <2>2. frame # NoFrame /\ frame.payload = Head(queue)
    BY DEF Data, NoFrame
  <2> HIDE DEF frame
  <2>3. Held(p)' = {Tail(queue)[i] : i \in DOMAIN Tail(queue)} \cup {Head(queue)}
    BY <2>1, <2>2 DEF Held, Pending
  <2>4. /\ Len(queue) \in Nat \ {0} /\ DOMAIN queue = 1..Len(queue) /\ Head(queue) = queue[1]
        /\ DOMAIN Tail(queue) = 1..(Len(queue) - 1)
        /\ \A i \in 1..(Len(queue) - 1) : Tail(queue)[i] = queue[i + 1]
    BY <1>2
  <2>5. \A i \in 1..Len(queue) : i = 1 \/ (i - 1 \in 1..(Len(queue) - 1) /\ queue[i] = Tail(queue)[i - 1])
    BY <2>4
  <2>6. \A i \in 1..(Len(queue) - 1) : i + 1 \in 1..Len(queue)
    BY <2>4
  <2> DEFINE rest == Tail(queue)
  <2>7. \A i \in DOMAIN queue : queue[i] \in {rest[j] : j \in DOMAIN rest} \cup {Head(queue)}
    BY <2>4, <2>5
  <2>8. \A i \in DOMAIN rest : rest[i] \in {queue[j] : j \in DOMAIN queue}
    BY <2>4, <2>6
  <2>9. Head(queue) \in {queue[j] : j \in DOMAIN queue}
    BY <2>4
  <2> QED BY <2>3, <2>7, <2>8, <2>9
<1> QED BY <1>1, <1>2

LEMMA AcknowledgeForgets ==
  ASSUME TypeOK, NEW p \in Peer, NEW ack \in Nat, NEW actions,
         HandleAcknowledgeNumber(p, ack, actions)
  PROVE  ForgetStep
<1>1. \A o \in Peer : o # p => Forgotten(o)' = Forgotten(o)
  <2>1. \A o \in Peer : o # p => o = Other(p)
    BY DEF Peer, Other
  <2> QED BY <2>1, AcknowledgeEffect, OnlyKept
<1>2. Forgotten(p)' = Forgotten(p)
  <2>1. CASE Acknowledges(p, ack)
    <3> DEFINE queue == sendPendingFrames[p]
               results == Resolve(result[p], {sendingFrame[p].payload}, "ok")
    <3>1. /\ SendNextFrame(p, queue, ack, actions) /\ queue \in Seq(Nat)
          /\ result' = [result EXCEPT ![p] = results] /\ sendingFrame[p] # NoFrame
      BY <2>1 DEF HandleAcknowledgeNumber, Acknowledges, TypeOK
    <3>2. /\ DOMAIN results = DOMAIN result[p]
          /\ \A k \in DOMAIN result[p] :
               results[k] = "pending" <=> result[p][k] = "pending" /\ k # sendingFrame[p].payload
      BY DEF Resolve
    <3>3. Len(results) = Len(result[p]) /\ DOMAIN result[p] = 1..Len(result[p])
      <4>1. "ok" \in SendResult /\ result[p] \in Seq(SendResult)
        BY DEF SendResult, TypeOK
      <4>2. results \in Seq(SendResult)
        BY <4>1, ResolveType
      <4> HIDE DEF results
      <4> QED BY <3>2, <4>1, <4>2
    <3> HIDE DEF results
    <3>4. result'[p] = results
      BY <3>1 DEF TypeOK
    <3>5. Held(p)' = Pending(p) /\ Held(p) = Pending(p) \cup {sendingFrame[p].payload}
      BY <3>1, NextFrameHeld DEF Pending, Held
    <3> QED BY <3>2, <3>3, <3>4, <3>5 DEF Forgotten, Held
  <2>2. CASE ~Acknowledges(p, ack)
    BY <2>2, OnlyKept DEF HandleAcknowledgeNumber
  <2> QED BY <2>1, <2>2
<1> QED BY <1>1, <1>2 DEF ForgetStep

LEMMA SendDataForgets ==
  ASSUME TypeOK, NEW p \in Peer, SendData(p)
  PROVE  ForgetStep
<1> DEFINE n == Len(result[p])
           queue == Append(sendPendingFrames[p], n + 1)
<1>1. /\ result[p] \in Seq(SendResult) /\ n \in Nat /\ sendPendingFrames[p] \in Seq(Nat)
      /\ queue \in Seq(Nat)
  BY DEF TypeOK
<1>2. /\ result'[p] = Append(result[p], "pending")
      /\ \A o \in Peer : o # p => result'[o] = result[o]
  BY DEF SendData, TypeOK
<1>3. {queue[i] : i \in DOMAIN queue} = Pending(p) \cup {n + 1}
  <2> DEFINE old == sendPendingFrames[p]
  <2>1. /\ Len(old) \in Nat /\ DOMAIN old = 1..Len(old)
        /\ DOMAIN queue = 1..(Len(old) + 1)
        /\ queue[Len(old) + 1] = n + 1 /\ \A i \in 1..Len(old) : queue[i] = old[i]
    BY <1>1
  <2> HIDE DEF n, queue
  <2>2. /\ \A i \in DOMAIN queue : i \in DOMAIN old \/ i = Len(old) + 1
        /\ DOMAIN old \subseteq DOMAIN queue /\ Len(old) + 1 \in DOMAIN queue
    BY <2>1
  <2>3. \A i \in DOMAIN queue : queue[i] \in {old[j] : j \in DOMAIN old} \cup {n + 1}
    BY <2>1, <2>2
  <2>4. \A i \in DOMAIN old : old[i] \in {queue[j] : j \in DOMAIN queue}
    BY <2>1, <2>2
  <2>5. n + 1 \in {queue[j] : j \in DOMAIN queue}
    BY <2>1, <2>2
  <2> QED BY <2>3, <2>4, <2>5 DEF Pending
<1>4. /\ \A o \in Peer : o # p => /\ sendingFrame'[o] = sendingFrame[o]
                                  /\ sendPendingFrames'[o] = sendPendingFrames[o]
      /\ Held(p)' = Held(p) \cup {n + 1}
  <2>1. CASE sendingFrame[p] = NoFrame
    <3>1. SendNextFrame(p, queue, nextSend[p], {})
      BY <2>1 DEF SendData
    <3> HIDE DEF queue
    <3>2. Held(p)' = Pending(p) \cup {n + 1}
      BY <1>1, <1>3, <3>1, NextFrameHeld
    <3>3. \A o \in Peer : o # p => /\ sendingFrame'[o] = sendingFrame[o]
                                   /\ sendPendingFrames'[o] = sendPendingFrames[o]
      BY <3>1 DEF SendNextFrame, TypeOK
    <3> QED BY <2>1, <3>2, <3>3 DEF Held
  <2>2. CASE sendingFrame[p] # NoFrame
    <3>1. /\ sendPendingFrames' = [sendPendingFrames EXCEPT ![p] = queue]
          /\ UNCHANGED sendingFrame
      BY <2>2 DEF SendData
    <3> HIDE DEF queue
    <3>2. sendPendingFrames'[p] = queue
      BY <3>1 DEF TypeOK
    <3> QED BY <1>3, <2>2, <3>1, <3>2 DEF Held, Pending
  <2> QED BY <2>1, <2>2
<1>5. /\ Len(result'[p]) = n + 1 /\ result'[p][n + 1] = "pending"
      /\ \A k \in 1..n : result'[p][k] = result[p][k]
  BY <1>1, <1>2
<1> HIDE DEF n
<1>6. Forgotten(p)' = Forgotten(p)
  <2>1. \A k : k \in 1..(n + 1) <=> k \in 1..n \/ k = n + 1
    BY <1>1
  <2>2. n + 1 \notin 1..n
    BY <1>1
  <2>3. Forgotten(p)' = {k \in 1..(n + 1) : result'[p][k] = "pending"} \ Held(p)'
    BY <1>5 DEF Forgotten, Held
  <2>4. Forgotten(p) = {k \in 1..n : result[p][k] = "pending"} \ Held(p)
    BY DEF Forgotten, Held, n
  <2> QED BY <1>4, <1>5, <2>1, <2>2, <2>3, <2>4
<1> QED BY <1>2, <1>4, <1>6, OnlyKept DEF ForgetStep

LEMMA ForgetNext ==
  TypeOK /\ [Next]_vars => [ForgetStep]_vars
<1> SUFFICES ASSUME TypeOK, Next PROVE ForgetStep
  OBVIOUS
<1>1. ASSUME NEW a \in Peer, OnReceive(a) PROVE ForgetStep
  <2>1. ASSUME NEW body \in BagToSet(network[a]),
               OnDataReceived(a, body) \/ OnDataAckReceived(a, body)
        PROVE  ForgetStep
    <3>1. body.ack \in Nat
      <4>1. body.type \in DataTypes /\ body \in NetworkSet(a)
        BY <2>1 DEF OnDataReceived, OnDataAckReceived, DataTypes, NetworkSet
      <4> QED BY <4>1, SendingBody, DataOfType DEF DataBody, DataAckBody, DataTypes
    <3>2. \E actions : HandleAcknowledgeNumber(a, body.ack, actions)
      BY <2>1 DEF OnDataReceived, OnDataAckReceived
    <3> QED BY <3>1, <3>2, AcknowledgeForgets
  <2>2. CASE \/ OnSynReceived(a) \/ OnSynAckReceived(a)
             \/ OnFinReceived(a) \/ OnFinAckReceived(a)
             \/ \E body : OnDataWhenNotOpen(a, body)
    <3>1. ClosesOrKeeps(a)
      BY <2>2 DEF OnSynReceived, OnSynAckReceived, OnFinReceived, OnFinAckReceived,
                  OnDataWhenNotOpen, CloseIfDone, ClosesOrKeeps
    <3> QED BY <3>1, CloseForgets
  <2> QED BY <1>1, <2>1, <2>2 DEF OnReceive
<1>2. ASSUME NEW a \in Peer, NEW action, OnSendSuccess(a, action) PROVE ClosesOrKeeps(a)
  BY <1>2 DEF OnSendSuccess, OnSynSendSuccess, OnSynAckSendSuccess, OnSendDataSuccess,
              OnSendDataAckSuccess, OnFinSendSuccess, OnFinAckSendSuccess, CloseIfDone,
              ClosesOrKeeps
<1>3. ASSUME NEW a \in Peer, NEW action, OnSendFailure(a, action) PROVE ClosesOrKeeps(a)
  BY <1>3 DEF OnSendFailure, OnSynSendFailure, OnSynAckSendFailure, OnSendDataFailure,
              OnSendDataAckFailure, OnFinSendFailure, OnFinAckSendFailure, ClosesOrKeeps
<1>4. ASSUME NEW a \in Peer, NEW timeout, OnReceiveAckTimeout(a, timeout)
      PROVE  ClosesOrKeeps(a)
  BY <1>4 DEF OnReceiveAckTimeout, OnSynAckReceiveTimeout, OnReceiveDataAckTimeout,
              OnFinAckReceiveTimeout, InFlight, ClosesOrKeeps
<1>5. CASE Connect \/ Accept \/ Reject
  <2>1. UNCHANGED dataVars /\ Client \in Peer
    BY <1>5 DEF Connect, Accept, Reject, Peer
  <2>2. ClosesOrKeeps(Client)
    BY <2>1 DEF ClosesOrKeeps
  <2> QED BY <2>1, <2>2, CloseForgets
<1>6. ASSUME NEW a \in Peer, Application(a) PROVE ForgetStep
  <2>1. CASE SendData(a)
    BY <2>1, SendDataForgets
  <2>2. CASE CloseSocket(a)
    <3>1. ClosesOrKeeps(a)
      BY <2>2 DEF CloseSocket, ClosesOrKeeps
    <3> QED BY <3>1, CloseForgets
  <2> QED BY <1>6, <2>1, <2>2 DEF Application
<1> QED BY <1>1, <1>2, <1>3, <1>4, <1>5, <1>6, CloseForgets DEF Next

(* Only a close forgets a send, and at most the one in flight: whatever     *)
(* frames, failures and timeouts come together, the promises of the queue   *)
(* are settled.                                                             *)
THEOREM OnlyFrameInFlightIsForgotten == Spec => ForgetsOnlyFrameInFlight
<1>1. TypeOK /\ [Next]_vars =>
        [\A p \in Peer : Forgotten(p)' # Forgotten(p) =>
           /\ state'[p] = "closed"
           /\ sendingFrame[p] # NoFrame
           /\ Forgotten(p)' = Forgotten(p) \cup {sendingFrame[p].payload}]_vars
  BY ForgetNext DEF ForgetStep
<1> QED BY <1>1, TypeCorrect, PTL DEF Spec, ForgetsOnlyFrameInFlight
=============================================================================
