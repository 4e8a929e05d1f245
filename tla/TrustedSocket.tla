---------------------------- MODULE TrustedSocket ----------------------------
(***************************************************************************)
(* Two TrustedSockets (ts-core/src/net/trusted/socket) joined by a pair of *)
(* tunnel sockets: handshake, stop-and-wait data in both directions, close.*)
(*                                                                         *)
(* One action per handler of SocketState, together with what               *)
(* TrustedSocket#processActions does with the actions it returns:          *)
(*   - "send" puts the action in sending[p]; its transmission later        *)
(*     succeeds or fails, in any order, and the callback runs with it;     *)
(*   - "delay ACK_TIMEOUT, ack timeout" puts a timer in timers[p];         *)
(*   - "delay RETRY_INTERVAL, send" puts the retry in sending[p]: a waiting*)
(*     retry is not cancellable and differs from a send in progress in     *)
(*     nothing but time, which is not modelled;                            *)
(*   - "open", "close" and "receive" take effect in the same step.         *)
(* A frame is lost, delayed and reordered by the network; it is duplicated *)
(* only by retransmission.                                                 *)
(***************************************************************************)
EXTENDS TrustedFrame, Sequences, FiniteSets, Bags

CONSTANTS
  Client,       \* the peer whose application calls TrustedService.connect
  Server,       \* the peer that listens
  MaxSends,     \* bound: the number of sends of each peer's application
  Closers,      \* the peers whose application calls close, once
  Lossy,        \* whether the network may lose frames
  MayFail,      \* whether TunnelSocket.send may report a failure
  MaxNetwork,   \* bound: frames in transit to one peer
  MaxSending,   \* bound: sends in progress at one peer when a frame arrives
  MaxTimers,    \* bound: ack timers running at one peer
  Timely,       \* whether ACK_TIMEOUT outlasts every exchange under way
  Revives       \* bound: whether a socket that has closed is still followed

Peer == {Client, Server}
Other(p) == IF p = Client THEN Server ELSE Client

ASSUME PeerAssumption == Client # Server
ASSUME BoundsAssumption ==
  /\ MaxSends \in [Peer -> Nat]
  /\ Closers \subseteq Peer
  /\ Lossy \in BOOLEAN /\ MayFail \in BOOLEAN
  /\ MaxNetwork \in Nat \ {0}
  /\ MaxSending \in Nat \ {0}
  /\ MaxTimers \in Nat \ {0}
  /\ Timely \in BOOLEAN /\ Revives \in BOOLEAN

VARIABLES
  phase,             \* whether p has a TrustedSocket: "none", "live" or "rejected"
  state,             \* SocketState#state
  syn,               \* SocketState#syn
  fin,               \* SocketState#fin
  isOpen,            \* DataSocketState#isOpen, and the five below
  nextReceive,
  nextSend,
  sendingFrame,
  sendPendingFrames,
  result,            \* per send of p's application, the state of its promise
  received,          \* payloads handed to p's application
  connecting,        \* the promise of connect or accept at p
  closing,           \* the promise of close at p
  sending,           \* send actions being transmitted, or waiting to be
  timers,            \* ack timeout actions waiting for ACK_TIMEOUT
  network,           \* frames in transit to p
  everClosed,        \* history: p's SocketState has processed a "close"
  failed,            \* history: p's SocketState has emitted onError
  retryThrew         \* history: retry() has thrown "retryable is false" at p

dataVars == <<nextReceive, nextSend, sendingFrame, sendPendingFrames,
              result, received>>
historyVars == <<everClosed, failed, retryThrew>>
promiseVars == <<connecting, closing>>
vars == <<phase, state, syn, fin, isOpen, dataVars, promiseVars,
          sending, timers, network, historyVars>>

NoFrame == [type |-> "none"]
NoHandshake == [incoming |-> "yet", outgoing |-> "yet"]

Init ==
  /\ phase = [p \in Peer |-> "none"]
  /\ state = [p \in Peer |-> "closed"]
  /\ syn = [p \in Peer |-> NoHandshake]
  /\ fin = [p \in Peer |-> NoHandshake]
  /\ isOpen = [p \in Peer |-> FALSE]
  /\ nextReceive = [p \in Peer |-> 0]
  /\ nextSend = [p \in Peer |-> 0]
  /\ sendingFrame = [p \in Peer |-> NoFrame]
  /\ sendPendingFrames = [p \in Peer |-> <<>>]
  /\ result = [p \in Peer |-> <<>>]
  /\ received = [p \in Peer |-> <<>>]
  /\ connecting = [p \in Peer |-> "none"]
  /\ closing = [p \in Peer |-> "none"]
  /\ sending = [p \in Peer |-> EmptyBag]
  /\ timers = [p \in Peer |-> EmptyBag]
  /\ network = [p \in Peer |-> EmptyBag]
  /\ everClosed = [p \in Peer |-> FALSE]
  /\ failed = [p \in Peer |-> FALSE]
  /\ retryThrew = [p \in Peer |-> FALSE]

-----------------------------------------------------------------------------
(* Queries of SynSocketState and FinSocketState. *)

(* Mutant: only the half of the handshake that this end began. *)
SynDoneOneWay(s) == s.outgoing = "syn ack received"

SynDone(s) == s.incoming = "syn ack sent" /\ s.outgoing = "syn ack received"
IsOpening(s) == ~SynDone(s) /\ s.incoming # "yet" /\ s.outgoing # "yet"

FinDone(f) == f.incoming = "fin ack sent" /\ f.outgoing = "fin ack received"
IsClosing(f) == ~FinDone(f) /\ f # NoHandshake

-----------------------------------------------------------------------------
(* SocketState#socketActionHook, and the promises of TrustedSocket.#open    *)
(* and close that listen to its state changes.                              *)

(* Mutant: the two overrides in the other order. *)
HookOpeningLast(p, base) ==
  LET next == IF IsOpening(syn'[p]) THEN "opening"
              ELSE IF IsClosing(fin'[p]) THEN "closing"
              ELSE base
  IN  /\ state' = [state EXCEPT ![p] = next]
      /\ connecting' = [connecting EXCEPT ![p] =
           IF @ = "pending" /\ next = "open" /\ state[p] # "open"
           THEN "ok" ELSE @]

SocketActionHook(p, base) ==
  LET next == IF IsClosing(fin'[p]) THEN "closing"
              ELSE IF IsOpening(syn'[p]) THEN "opening"
              ELSE base
  IN  /\ state' = [state EXCEPT ![p] = next]
      /\ connecting' = [connecting EXCEPT ![p] =
           IF @ = "pending" /\ next = "open" /\ state[p] # "open"
           THEN "ok" ELSE @]

(* No "open" and no "close" among the actions. *)
Stay(p) ==
  /\ SocketActionHook(p, state[p])
  /\ UNCHANGED <<isOpen, closing, everClosed, failed>>

Open(p) ==
  /\ isOpen' = [isOpen EXCEPT ![p] = TRUE]
  /\ SocketActionHook(p, "open")
  /\ UNCHANGED <<closing, everClosed, failed>>

OpenIfDone(p) == IF SynDone(syn'[p]) THEN Open(p) ELSE Stay(p)

(* Mutant: a close drops the sends it should resolve. *)
ResolveUnlessTimeout(results, sends, value) ==
  [k \in DOMAIN results |->
     IF k \in sends /\ results[k] = "pending" /\ value # "timeout"
     THEN value ELSE results[k]]

(* A promise resolves once: Deferred ignores every later resolve. *)
Resolve(results, sends, value) ==
  [k \in DOMAIN results |->
     IF k \in sends /\ results[k] = "pending" THEN value ELSE results[k]]

Pending(p) == {sendPendingFrames[p][i] : i \in DOMAIN sendPendingFrames[p]}

(* A "close" action.  timedOut is what the handler itself resolved with Err.  *)
(* DataSocketState.onClose resolves the queued sends, and forgets the frame *)
(* in flight without resolving it.                                          *)
Close(p, error, timedOut) ==
  /\ state' = [state EXCEPT ![p] = "closed"]
  /\ syn' = [syn EXCEPT ![p] = NoHandshake]
  /\ fin' = [fin EXCEPT ![p] = NoHandshake]
  /\ isOpen' = [isOpen EXCEPT ![p] = FALSE]
  /\ nextReceive' = [nextReceive EXCEPT ![p] = 0]
  /\ nextSend' = [nextSend EXCEPT ![p] = 0]
  /\ sendingFrame' = [sendingFrame EXCEPT ![p] = NoFrame]
  /\ sendPendingFrames' = [sendPendingFrames EXCEPT ![p] = <<>>]
  /\ result' = [result EXCEPT ![p] =
                  Resolve(@, timedOut \cup Pending(p), "timeout")]
  /\ connecting' = [connecting EXCEPT ![p] =
                      IF @ = "pending" /\ error THEN "timeout" ELSE @]
  /\ closing' = [closing EXCEPT ![p] =
                   IF @ = "pending" /\ state[p] # "closed" THEN "done" ELSE @]
  /\ everClosed' = [everClosed EXCEPT ![p] = TRUE]
  /\ failed' = [failed EXCEPT ![p] = @ \/ error]
  /\ UNCHANGED received

-----------------------------------------------------------------------------
(* TrustedSocket#processActions: how a step begins and what it leaves       *)
(* behind.  Each of the four beginnings names the event the handler runs on.*)

Plus(bag, set) == bag (+) SetToBag(set)
Minus(bag, elt) == bag (-) SetToBag({elt})

StartSends(p, actions) == sending' = [sending EXCEPT ![p] = Plus(@, actions)]

Followed(p) == Revives \/ ~everClosed[p]

(* InnerSocket.receiver hands a frame of the tunnel to a live socket. *)
Receive(p, body) ==
  /\ phase[p] = "live"
  /\ Followed(p)
  /\ BagIn(body, network[p])
  /\ BagCardinality(sending[p]) < MaxSending
  /\ network' = [network EXCEPT ![p] = Minus(@, body)]
  /\ UNCHANGED <<phase, timers, retryThrew>>

(* InnerSocket.send returns Ok: the frame is on its way, or lost later on. *)
Transmit(p, action) ==
  /\ Followed(p)
  /\ BagIn(action, sending[p])
  /\ sending' = [sending EXCEPT ![p] = Minus(@, action)]
  /\ \/ /\ BagCardinality(network[Other(p)]) < MaxNetwork
        /\ network' = [network EXCEPT ![Other(p)] =
                         Plus(@, {Wire(action.body)})]
     \/ Lossy /\ UNCHANGED network
  /\ UNCHANGED <<phase, retryThrew>>

StartTimer(p, action) ==
  /\ BagCardinality(timers[p]) < MaxTimers
  /\ timers' = [timers EXCEPT ![p] = Plus(@, {AckTimeout(action)})]

(* InnerSocket.send returns Err; retries are the actions it is tried again  *)
(* with.                                                                    *)
Fail(p, action, retries) ==
  /\ MayFail
  /\ Followed(p)
  /\ BagIn(action, sending[p])
  /\ sending' = [sending EXCEPT ![p] = Plus(Minus(@, action), retries)]
  /\ UNCHANGED <<phase, timers, network>>

(* A copy of body, an answer to it, or a syn ack that went out before it, is *)
(* being sent or is in transit.                                             *)
UnderWay(p, body) ==
  \/ body.type = "data" /\ BagIn(Control("syn ack"), network[Other(p)])
  \/ \E action \in BagToSet(sending[p]) : action.body = body
  \/ BagIn(Wire(body), network[Other(p)])
  \/ \E action \in BagToSet(sending[Other(p)]) : Answers(action.body, body)
  \/ \E answer \in BagToSet(network[p]) : Answers(answer, body)

(* ACK_TIMEOUT has passed for one of the timers. *)
Expire(p, timeout, retries) ==
  /\ Followed(p)
  /\ Timely => ~UnderWay(p, timeout.body)
  /\ BagIn(timeout, timers[p])
  /\ timers' = [timers EXCEPT ![p] = Minus(@, timeout)]
  /\ StartSends(p, retries)
  /\ UNCHANGED <<phase, network, retryThrew>>

-----------------------------------------------------------------------------
(* Opening a socket: TrustedSocket.connect and TrustedSocket.accept. *)

Connect ==
  /\ phase[Client] = "none"
  /\ phase' = [phase EXCEPT ![Client] = "live"]
  /\ connecting' = [connecting EXCEPT ![Client] = "pending"]
  /\ StartSends(Client, {NewSend(Control("syn"))})
  /\ UNCHANGED <<state, syn, fin, isOpen, dataVars, closing, timers, network,
                 historyVars>>

(* Mutant: the listening end does not open its own direction. *)
SynRepliesAckOnly(s) == {NewAckSend(Control("syn ack"))}

SynReplies(s) ==
  {NewAckSend(Control("syn ack"))} \cup
    (IF s.outgoing = "yet" THEN {NewSend(Control("syn"))} ELSE {})

(* The first frame of a new tunnel socket is a syn. *)
Accept ==
  /\ phase[Server] = "none"
  /\ BagIn(Control("syn"), network[Server])
  /\ network' = [network EXCEPT ![Server] = Minus(@, Control("syn"))]
  /\ phase' = [phase EXCEPT ![Server] = "live"]
  /\ syn' = [syn EXCEPT ![Server].incoming = "syn received"]
  /\ connecting' = [connecting EXCEPT ![Server] = "pending"]
  /\ StartSends(Server, SynReplies(syn[Server]))
  /\ UNCHANGED <<state, fin, isOpen, dataVars, closing, timers, historyVars>>

(* The first frame of a new tunnel socket was corrupted on its way: accept  *)
(* gives up and nothing reads that tunnel socket again.  (A corrupted frame *)
(* that reaches a live socket is dropped: that is a lost frame.)            *)
Reject ==
  /\ Lossy
  /\ phase[Server] = "none"
  /\ \E body \in BagToSet(network[Server]) :
       network' = [network EXCEPT ![Server] = Minus(@, body)]
  /\ phase' = [phase EXCEPT ![Server] = "rejected"]
  /\ UNCHANGED <<state, syn, fin, isOpen, dataVars, promiseVars, sending,
                 timers, historyVars>>

-----------------------------------------------------------------------------
(* SynSocketState. *)

OnSynSendSuccess(p, action) ==
  /\ action.body.type = "syn"
  /\ Transmit(p, action)
  /\ syn' = [syn EXCEPT ![p].outgoing = "syn sent"]
  /\ StartTimer(p, action)
  /\ UNCHANGED <<fin, dataVars>>
  /\ Stay(p)

OnSynSendFailure(p, action) ==
  /\ action.body.type = "syn"
  /\ LET retry == syn[p].outgoing = "yet" /\ Retryable(action)
         giveUp == syn[p].outgoing = "yet" /\ ~Retryable(action)
     IN  /\ Fail(p, action, IF retry THEN {RetryAfterFailure(action)} ELSE {})
         /\ IF giveUp THEN Close(p, TRUE, {})
                      ELSE UNCHANGED <<syn, fin, dataVars>> /\ Stay(p)
  /\ UNCHANGED retryThrew

OnSynAckReceived(p) ==
  /\ Receive(p, Control("syn ack"))
  /\ UNCHANGED <<fin, dataVars, sending>>
  /\ IF syn[p].outgoing = "yet"
     THEN UNCHANGED syn /\ Stay(p)
     ELSE /\ syn' = [syn EXCEPT ![p].outgoing = "syn ack received"]
          /\ OpenIfDone(p)

OnSynAckReceiveTimeout(p, timeout) ==
  /\ timeout.body.type = "syn"
  /\ LET waiting == syn[p].outgoing = "syn sent"
         retry == waiting /\ AckTimeoutRetryable(timeout)
     IN  /\ Expire(p, timeout,
                   IF retry THEN {RetryAfterAckTimeout(timeout)} ELSE {})
         /\ IF waiting /\ ~retry
            THEN Close(p, TRUE, {})
            ELSE UNCHANGED <<syn, fin, dataVars>> /\ Stay(p)

OnSynReceived(p) ==
  /\ Receive(p, Control("syn"))
  /\ syn' = [syn EXCEPT ![p].incoming = "syn received"]
  /\ StartSends(p, SynReplies(syn[p]))
  /\ UNCHANGED <<fin, dataVars>>
  /\ Stay(p)

OnSynAckSendSuccess(p, action) ==
  /\ action.body.type = "syn ack"
  /\ Transmit(p, action)
  /\ UNCHANGED <<fin, dataVars, timers>>
  /\ IF syn[p].incoming # "syn received"
     THEN UNCHANGED syn /\ Stay(p)
     ELSE /\ syn' = [syn EXCEPT ![p].incoming = "syn ack sent"]
          /\ OpenIfDone(p)

OnSynAckSendFailure(p, action) ==
  /\ action.body.type = "syn ack"
  /\ LET waiting == syn[p].incoming = "syn received"
         retry == waiting /\ AckSendRetryable(action)
     IN  /\ Fail(p, action, IF retry THEN {RetryAck(action)} ELSE {})
         /\ IF waiting /\ ~retry
            THEN Close(p, TRUE, {})
            ELSE UNCHANGED <<syn, fin, dataVars>> /\ Stay(p)
  /\ UNCHANGED retryThrew

-----------------------------------------------------------------------------
(* DataSocketState. *)

(* #sendIfNoSendingFrame when no frame is in flight: the head of the queue  *)
(* becomes the frame in flight, numbered and acknowledging as of now.       *)
SendNextFrame(p, queue, seq, actions) ==
  IF queue = <<>>
  THEN /\ sendingFrame' = [sendingFrame EXCEPT ![p] = NoFrame]
       /\ sendPendingFrames' = [sendPendingFrames EXCEPT ![p] = <<>>]
       /\ StartSends(p, actions)
  ELSE LET frame == Data(seq, nextReceive[p], Head(queue)) IN
       /\ sendingFrame' = [sendingFrame EXCEPT ![p] = frame]
       /\ sendPendingFrames' = [sendPendingFrames EXCEPT ![p] = Tail(queue)]
       /\ StartSends(p, actions \cup {NewSend(frame)})

(* Mutants: the number of the frame itself counts as its acknowledgement;   *)
(* the number after it does not.                                            *)
AcknowledgesOwnNumber(p, ack) ==
  sendingFrame[p] # NoFrame /\ ack >= sendingFrame[p].seq
AcknowledgesLater(p, ack) ==
  sendingFrame[p] # NoFrame /\ ack > sendingFrame[p].seq + 1

Acknowledges(p, ack) ==
  sendingFrame[p] # NoFrame /\ ack > sendingFrame[p].seq

(* #handleAcknowledgeNumberInReceivedFrame; actions are those that the      *)
(* caller adds.                                                             *)
HandleAcknowledgeNumber(p, ack, actions) ==
  IF Acknowledges(p, ack)
  THEN /\ result' = [result EXCEPT ![p] =
                       Resolve(@, {sendingFrame[p].payload}, "ok")]
       /\ nextSend' = [nextSend EXCEPT ![p] = ack]
       /\ SendNextFrame(p, sendPendingFrames[p], ack, actions)
  ELSE /\ StartSends(p, actions)
       /\ UNCHANGED <<result, nextSend, sendingFrame, sendPendingFrames>>

(* The application sends once it holds the socket. *)
SendData(p) ==
  /\ connecting[p] = "ok"
  /\ isOpen[p]
  /\ Len(result[p]) < MaxSends[p]
  /\ result' = [result EXCEPT ![p] = Append(@, "pending")]
  /\ LET queue == Append(sendPendingFrames[p], Len(result[p]) + 1) IN
       IF sendingFrame[p] = NoFrame
       THEN SendNextFrame(p, queue, nextSend[p], {})
       ELSE /\ sendPendingFrames' = [sendPendingFrames EXCEPT ![p] = queue]
            /\ UNCHANGED <<sending, sendingFrame>>
  /\ UNCHANGED <<phase, syn, fin, nextReceive, nextSend, received, timers,
                 network, retryThrew>>
  /\ Stay(p)

(* Data and data ack frames are ignored by a socket that is not open. *)
OnDataWhenNotOpen(p, body) ==
  /\ body.type \in {"data", "data ack"}
  /\ ~isOpen[p]
  /\ Receive(p, body)
  /\ UNCHANGED <<syn, fin, dataVars, sending>>
  /\ Stay(p)

(* Mutants: a retransmitted frame is taken for a new one; numbers compared   *)
(* as they are on the wire.                                                 *)
IsNextOrEarlier(p, body) == body.seq <= nextReceive[p]
IsNextModulo(p, body) == body.seq = nextReceive[p] % SeqModulus

IsNext(p, body) == body.seq = nextReceive[p]

(* onDataReceived.  The acknowledgement it carries is handled first, so a   *)
(* frame it lets go acknowledges only what was received before.  A frame    *)
(* already received is acknowledged again, one from the future is ignored.  *)
OnDataReceived(p, body) ==
  /\ body.type = "data"
  /\ isOpen[p]
  /\ Receive(p, body)
  /\ IF IsNext(p, body)
     THEN /\ nextReceive' = [nextReceive EXCEPT ![p] = body.seq + 1]
          /\ received' = [received EXCEPT ![p] = Append(@, body.payload)]
     ELSE UNCHANGED <<nextReceive, received>>
  /\ HandleAcknowledgeNumber(p, body.ack,
       IF body.seq > nextReceive[p] THEN {}
       ELSE {NewAckSend(DataAck(nextReceive'[p]))})
  /\ UNCHANGED <<syn, fin>>
  /\ Stay(p)

OnDataAckReceived(p, body) ==
  /\ body.type = "data ack"
  /\ isOpen[p]
  /\ Receive(p, body)
  /\ HandleAcknowledgeNumber(p, body.ack, {})
  /\ UNCHANGED <<syn, fin, nextReceive, received>>
  /\ Stay(p)

(* The action is about the frame in flight. *)
InFlight(p, body) ==
  isOpen[p] /\ sendingFrame[p] # NoFrame /\ body.seq = sendingFrame[p].seq

OnReceiveDataAckTimeout(p, timeout) ==
  /\ timeout.body.type = "data"
  /\ LET waiting == InFlight(p, timeout.body)
         retry == waiting /\ AckTimeoutRetryable(timeout)
     IN  /\ Expire(p, timeout,
                   IF retry THEN {RetryAfterAckTimeout(timeout)} ELSE {})
         /\ IF waiting /\ ~retry
            THEN Close(p, TRUE, {sendingFrame[p].payload})
            ELSE UNCHANGED <<syn, fin, dataVars>> /\ Stay(p)

OnSendDataSuccess(p, action) ==
  /\ action.body.type = "data"
  /\ Transmit(p, action)
  /\ IF isOpen[p] /\ sendingFrame[p] # NoFrame
     THEN StartTimer(p, action)
     ELSE UNCHANGED timers
  /\ UNCHANGED <<syn, fin, dataVars>>
  /\ Stay(p)

(* The promise that a SendDataAction resolves is one it made itself, not    *)
(* the one send() returned: giving up here settles nobody's send.           *)
OnSendDataFailure(p, action) ==
  /\ action.body.type = "data"
  /\ LET waiting == InFlight(p, action.body)
         retry == waiting /\ Retryable(action)
     IN  /\ Fail(p, action, IF retry THEN {RetryAfterFailure(action)} ELSE {})
         /\ IF waiting /\ ~retry
            THEN Close(p, TRUE, {})
            ELSE UNCHANGED <<syn, fin, dataVars>> /\ Stay(p)
  /\ UNCHANGED retryThrew

OnSendDataAckSuccess(p, action) ==
  /\ action.body.type = "data ack"
  /\ Transmit(p, action)
  /\ UNCHANGED <<syn, fin, dataVars, timers>>
  /\ Stay(p)

OnSendDataAckFailure(p, action) ==
  /\ action.body.type = "data ack"
  /\ LET waiting == /\ isOpen[p] /\ sendingFrame[p] # NoFrame
                    /\ action.body.ack = nextReceive[p]
         retry == waiting /\ AckSendRetryable(action)
     IN  /\ Fail(p, action, IF retry THEN {RetryAck(action)} ELSE {})
         /\ IF waiting /\ ~retry
            THEN Close(p, TRUE, {})
            ELSE UNCHANGED <<syn, fin, dataVars>> /\ Stay(p)
  /\ UNCHANGED retryThrew

-----------------------------------------------------------------------------
(* FinSocketState. *)

(* The application closes the socket it holds; a close while fins are being *)
(* exchanged is an "invalid operation" that changes nothing.                *)
CloseSocket(p) ==
  /\ p \in Closers
  /\ connecting[p] = "ok"
  /\ closing[p] = "none"
  /\ fin[p] = NoHandshake
  /\ closing' = [closing EXCEPT ![p] = "pending"]
  /\ StartSends(p, {NewSend(Control("fin"))})
  /\ UNCHANGED <<phase, state, syn, fin, isOpen, dataVars, connecting, timers,
                 network, historyVars>>

OnFinSendSuccess(p, action) ==
  /\ action.body.type = "fin"
  /\ Transmit(p, action)
  /\ fin' = [fin EXCEPT ![p].outgoing = "fin sent"]
  /\ StartTimer(p, action)
  /\ UNCHANGED <<syn, dataVars>>
  /\ Stay(p)

OnFinSendFailure(p, action) ==
  /\ action.body.type = "fin"
  /\ LET waiting == fin[p].outgoing = "yet"
         retry == waiting /\ Retryable(action)
     IN  /\ Fail(p, action, IF retry THEN {RetryAfterFailure(action)} ELSE {})
         /\ IF waiting /\ ~retry
            THEN Close(p, TRUE, {})
            ELSE UNCHANGED <<syn, fin, dataVars>> /\ Stay(p)
  /\ UNCHANGED retryThrew

(* Fin and fin ack together end the connection, without an error. *)
CloseIfDone(p, f) ==
  IF FinDone(f)
  THEN Close(p, FALSE, {})
  ELSE /\ fin' = [fin EXCEPT ![p] = f]
       /\ UNCHANGED <<syn, dataVars>>
       /\ Stay(p)

OnFinAckReceived(p) ==
  /\ Receive(p, Control("fin ack"))
  /\ IF fin[p].outgoing = "yet"
     THEN UNCHANGED <<syn, fin, dataVars>> /\ Stay(p)
     ELSE CloseIfDone(p, [fin[p] EXCEPT !.outgoing = "fin ack received"])
  /\ UNCHANGED sending

OnFinAckReceiveTimeout(p, timeout) ==
  /\ timeout.body.type = "fin"
  /\ LET waiting == fin[p].outgoing = "fin sent"
         retry == waiting /\ AckTimeoutRetryable(timeout)
     IN  /\ Expire(p, timeout,
                   IF retry THEN {RetryAfterAckTimeout(timeout)} ELSE {})
         /\ IF waiting /\ ~retry
            THEN Close(p, TRUE, {})
            ELSE UNCHANGED <<syn, fin, dataVars>> /\ Stay(p)

(* Mutant: the end that is told to close does not close its own direction. *)
FinRepliesAckOnly(f) == {NewAckSend(Control("fin ack"))}

FinReplies(f) ==
  {NewAckSend(Control("fin ack"))} \cup
    (IF f.outgoing = "yet" THEN {NewSend(Control("fin"))} ELSE {})

OnFinReceived(p) ==
  /\ Receive(p, Control("fin"))
  /\ fin' = [fin EXCEPT ![p].incoming = "fin received"]
  /\ StartSends(p, FinReplies(fin[p]))
  /\ UNCHANGED <<syn, dataVars>>
  /\ Stay(p)

OnFinAckSendSuccess(p, action) ==
  /\ action.body.type = "fin ack"
  /\ Transmit(p, action)
  /\ IF fin[p].incoming # "fin received"
     THEN UNCHANGED <<syn, fin, dataVars>> /\ Stay(p)
     ELSE CloseIfDone(p, [fin[p] EXCEPT !.incoming = "fin ack sent"])
  /\ UNCHANGED timers

(* Unlike its siblings it asks for an exhausted budget and not for          *)
(* retryable(), so retry() throws and its callers see a rejected promise.   *)
OnFinAckSendFailure(p, action) ==
  /\ action.body.type = "fin ack"
  /\ LET waiting == fin[p].incoming = "fin received"
         exhausted == waiting /\ action.retry = 0
         retry == waiting /\ ~exhausted /\ AckSendRetryable(action)
         throws == waiting /\ ~exhausted /\ ~AckSendRetryable(action)
     IN  /\ Fail(p, action, IF retry THEN {RetryAck(action)} ELSE {})
         /\ IF exhausted
            THEN Close(p, TRUE, {})
            ELSE UNCHANGED <<syn, fin, dataVars>> /\ Stay(p)
         /\ retryThrew' = [retryThrew EXCEPT ![p] = @ \/ throws]

-----------------------------------------------------------------------------
OnReceive(p) ==
  \/ OnSynReceived(p) \/ OnSynAckReceived(p)
  \/ OnFinReceived(p) \/ OnFinAckReceived(p)
  \/ \E body \in BagToSet(network[p]) :
       \/ OnDataWhenNotOpen(p, body)
       \/ OnDataReceived(p, body)
       \/ OnDataAckReceived(p, body)

OnSendSuccess(p, action) ==
  \/ OnSynSendSuccess(p, action) \/ OnSynAckSendSuccess(p, action)
  \/ OnSendDataSuccess(p, action) \/ OnSendDataAckSuccess(p, action)
  \/ OnFinSendSuccess(p, action) \/ OnFinAckSendSuccess(p, action)

OnSendFailure(p, action) ==
  \/ OnSynSendFailure(p, action) \/ OnSynAckSendFailure(p, action)
  \/ OnSendDataFailure(p, action) \/ OnSendDataAckFailure(p, action)
  \/ OnFinSendFailure(p, action) \/ OnFinAckSendFailure(p, action)

OnReceiveAckTimeout(p, timeout) ==
  \/ OnSynAckReceiveTimeout(p, timeout)
  \/ OnReceiveDataAckTimeout(p, timeout)
  \/ OnFinAckReceiveTimeout(p, timeout)

Application(p) == SendData(p) \/ CloseSocket(p)

Next ==
  \/ Connect \/ Accept \/ Reject
  \/ \E p \in Peer :
       \/ Application(p)
       \/ OnReceive(p)
       \/ \E action \in BagToSet(sending[p]) :
            OnSendSuccess(p, action) \/ OnSendFailure(p, action)
       \/ \E timeout \in BagToSet(timers[p]) : OnReceiveAckTimeout(p, timeout)

Spec == Init /\ [][Next]_vars

(* The local stack answers every send, the clock runs, and a frame in       *)
(* transit arrives.                                                         *)
CompleteSend(p, type) ==
  \E action \in BagToSet(sending[p]) :
    /\ action.body.type = type
    /\ OnSendSuccess(p, action) \/ OnSendFailure(p, action)

Arrive(p, type) ==
  \/ p = Server /\ type = "syn" /\ Accept
  \/ type = "syn" /\ OnSynReceived(p)
  \/ type = "syn ack" /\ OnSynAckReceived(p)
  \/ type = "fin" /\ OnFinReceived(p)
  \/ type = "fin ack" /\ OnFinAckReceived(p)
  \/ \E body \in BagToSet(network[p]) :
       /\ body.type = type
       /\ \/ OnDataWhenNotOpen(p, body)
          \/ OnDataReceived(p, body)
          \/ OnDataAckReceived(p, body)

FairSpec ==
  /\ Spec
  /\ \A p \in Peer :
       /\ WF_vars(\E timeout \in BagToSet(timers[p]) :
                    OnReceiveAckTimeout(p, timeout))
       /\ \A type \in FrameType :
            WF_vars(CompleteSend(p, type)) /\ WF_vars(Arrive(p, type))

-----------------------------------------------------------------------------
PromiseState == {"none", "pending", "ok", "timeout", "done"}
SendResult == {"pending", "ok", "timeout"}
SynState == [incoming : {"yet", "syn received", "syn ack sent"},
             outgoing : {"yet", "syn sent", "syn ack received"}]
FinState == [incoming : {"yet", "fin received", "fin ack sent"},
             outgoing : {"yet", "fin sent", "fin ack received"}]
BagsOf(bags, S) ==
  /\ DOMAIN bags = Peer
  /\ \A p \in Peer : IsABag(bags[p]) /\ BagToSet(bags[p]) \subseteq S

TypeOK ==
  /\ phase \in [Peer -> {"none", "live", "rejected"}]
  /\ state \in [Peer -> {"opening", "open", "closing", "closed"}]
  /\ syn \in [Peer -> SynState]
  /\ fin \in [Peer -> FinState]
  /\ isOpen \in [Peer -> BOOLEAN]
  /\ nextReceive \in [Peer -> Nat]
  /\ nextSend \in [Peer -> Nat]
  /\ sendingFrame \in [Peer -> DataBody \cup {NoFrame}]
  /\ sendPendingFrames \in [Peer -> Seq(Nat)]
  /\ result \in [Peer -> Seq(SendResult)]
  /\ received \in [Peer -> Seq(Nat)]
  /\ connecting \in [Peer -> PromiseState]
  /\ closing \in [Peer -> PromiseState]
  /\ BagsOf(sending, SendAction)
  /\ BagsOf(timers, AckTimeoutAction)
  /\ BagsOf(network, Body)
  /\ everClosed \in [Peer -> BOOLEAN]
  /\ failed \in [Peer -> BOOLEAN]
  /\ retryThrew \in [Peer -> BOOLEAN]

(* state is set by "open" and "close" actions and then overridden by what   *)
(* the handshakes are in the middle of; it always tells what its parts say. *)
StateAgrees ==
  \A p \in Peer :
    state[p] = IF IsClosing(fin[p]) THEN "closing"
               ELSE IF IsOpening(syn[p]) THEN "opening"
               ELSE IF isOpen[p] THEN "open"
               ELSE "closed"

(* As long as neither end has closed, what an application receives is what  *)
(* the other end sent: in order, nothing lost, nothing twice, although      *)
(* frames are retransmitted, lost and reordered on the way.                 *)
InOrderDelivery ==
  \A p \in Peer :
    ~everClosed[p] /\ ~everClosed[Other(p)] =>
      /\ Len(received[p]) <= Len(result[Other(p)])
      /\ \A k \in 1..Len(received[p]) : received[p][k] = k

(* A send() that resolved Ok was delivered to the other application, as     *)
(* long as the sending end has not closed.                                  *)
OkMeansDelivered ==
  \A p \in Peer :
    ~everClosed[p] =>
      \A k \in 1..Len(result[p]) :
        result[p][k] = "ok" =>
          \E i \in 1..Len(received[Other(p)]) : received[Other(p)][i] = k

(* An end that is open faces an end that has heard of it and answered.      *)
OpenMeansAnswered ==
  \A p \in Peer :
    isOpen[p] /\ ~everClosed[Other(p)] =>
      syn[Other(p)].incoming # "yet" /\ syn[Other(p)].outgoing # "yet"

(* An end that closed without an error leaves the other one closing or      *)
(* closed, never open.                                                      *)
OrderlyClose ==
  \A p \in Peer :
    everClosed[p] /\ ~failed[p] /\ ~everClosed[Other(p)] =>
      state[Other(p)] = "closing"

(* Sends whose promise nothing in the socket can resolve any more. *)
Forgotten(p) ==
  {k \in 1..Len(result[p]) : result[p][k] = "pending"}
    \ (Pending(p) \cup (IF sendingFrame[p] = NoFrame THEN {}
                        ELSE {sendingFrame[p].payload}))

(* Only a close forgets a send, and at most the one in flight: everything   *)
(* else that the connection had queued is resolved.                         *)
ForgetsOnlyFrameInFlight ==
  [][\A p \in Peer : Forgotten(p)' # Forgotten(p) =>
       /\ state'[p] = "closed"
       /\ sendingFrame[p] # NoFrame
       /\ Forgotten(p)' = Forgotten(p) \cup {sendingFrame[p].payload}]_vars

(* retry() is only called on an action that is retryable. *)
RetryNeverThrows == \A p \in Peer : ~retryThrew[p]

(* As long as a socket is used for one connection, the pair of sockets      *)
(* implements a reliable channel: retransmission, stale acknowledgements    *)
(* and closes are invisible but for the end of the connection.              *)
Channel == INSTANCE ReliableChannel WITH
  accepted <- [p \in Peer |-> Len(result[p])],
  delivered <- received,
  confirmed <- [p \in Peer |-> {k \in DOMAIN result[p] : result[p][k] = "ok"}],
  broken <- everClosed

ImplementsChannel == Channel!Spec

(* Under FairSpec: *)

(* Over a network that delivers in time, connect and accept come to an end: *)
(* the socket opens, or the end gives up and closes.                        *)
ConnectSettles ==
  \A p \in Peer :
    connecting[p] = "pending" ~> (connecting[p] # "pending" \/ everClosed[p])

(* Over a network that delivers in time, and while nobody closes, connect   *)
(* opens both ends and every send() resolves Ok.                            *)
NobodyCloses == [](\A p \in Peer : closing[p] = "none")

BothOpen ==
  NobodyCloses =>
    (connecting[Client] = "pending" ~> isOpen[Client] /\ isOpen[Server])

EverySendOk ==
  NobodyCloses =>
    \A p \in Peer : \A k \in 1..MaxSends[p] :
      Len(result[p]) >= k ~> k \in DOMAIN result[p] /\ result[p][k] = "ok"

(* However many frames are lost, a send() resolves or its end closes: the   *)
(* budget of ack timeouts runs out, unless failed transmissions keep        *)
(* refilling it.                                                            *)
SendFails ==
  \E p \in Peer : \E action \in BagToSet(sending[p]) : OnSendFailure(p, action)

SendSettlesOnceSendsSucceed ==
  <>[][~SendFails]_vars =>
    \A p \in Peer : \A k \in 1..MaxSends[p] :
      Len(result[p]) >= k
        ~> everClosed[p] \/ (k \in DOMAIN result[p] /\ result[p][k] # "pending")

(* Over a network that delivers in time, a close() of an open socket is     *)
(* answered, also when both ends call it at once.                           *)
CloseSettles ==
  \A p \in Peer :
    closing[p] = "pending" /\ ~everClosed[p] ~> closing[p] # "pending"
=============================================================================
