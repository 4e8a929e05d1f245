---------------------------- MODULE TrustedFrame ----------------------------
(***************************************************************************)
(* The frames of the trusted protocol (ts-core/src/net/trusted/frame.ts)   *)
(* and the actions SocketState hands to TrustedSocket                      *)
(* (ts-core/src/net/trusted/socket/state.ts).  The payload of the k-th     *)
(* send of a peer is the number k, so a frame tells which send it carries. *)
(***************************************************************************)
EXTENDS Naturals

CONSTANTS
  RetryCount,   \* RETRY_COUNT, the initial value of both retry budgets
  SeqModulus    \* numbers are written on the wire as 16 bits: modulo 2^16

ASSUME RetryCountAssumption == RetryCount \in Nat \ {0}
ASSUME SeqModulusAssumption == SeqModulus \in Nat \ {0}

-----------------------------------------------------------------------------
(* Frame bodies. *)

RequestType == {"syn", "fin"}
ControlAckType == {"syn ack", "fin ack"}
FrameType == RequestType \cup ControlAckType \cup {"data", "data ack"}

ControlBody == [type : RequestType \cup ControlAckType]
DataBody == [type : {"data"}, seq : Nat, ack : Nat, payload : Nat]
DataAckBody == [type : {"data ack"}, ack : Nat]
Body == ControlBody \cup DataBody \cup DataAckBody

Control(type) == [type |-> type]
Data(seq, ack, payload) ==
  [type |-> "data", seq |-> seq, ack |-> ack, payload |-> payload]
DataAck(ack) == [type |-> "data ack", ack |-> ack]

(* The body a receiver deserialises: Uint16Serdeable keeps the low bits.    *)
Wire(body) ==
  CASE body.type = "data" ->
         Data(body.seq % SeqModulus, body.ack % SeqModulus, body.payload)
    [] body.type = "data ack" -> DataAck(body.ack % SeqModulus)
    [] OTHER -> body

(* isCorrespondingAckFrame; a data frame is also acknowledged by data. *)
Answers(answer, body) ==
  CASE body.type = "syn" -> answer.type = "syn ack"
    [] body.type = "fin" -> answer.type = "fin ack"
    [] body.type = "data" -> answer.type \in {"data", "data ack"}
    [] OTHER -> FALSE

-----------------------------------------------------------------------------
(* Send actions: a body with what is left of its two retry budgets (the     *)
(* acknowledgements have only the first), and ack timeout actions.          *)

SendAction == [body : Body, retry : Nat, ackRetry : Nat]
AckTimeoutAction == [body : Body, ackRetry : Nat]

NewSend(body) ==
  [body |-> body, retry |-> RetryCount, ackRetry |-> RetryCount]
NewAckSend(body) == [body |-> body, retry |-> RetryCount, ackRetry |-> 0]

Retryable(action) == action.retry > 0

(* SendControlAction.retry and SendDataAction.retry: a failed transmission  *)
(* costs one retry and refills the budget of ack timeouts.                  *)
RetryAfterFailure(action) ==
  [body |-> action.body, retry |-> action.retry - 1, ackRetry |-> RetryCount]

AckTimeout(action) == [body |-> action.body, ackRetry |-> action.ackRetry]

(* Mutant: one retry more than the budget. *)
AckTimeoutRetryableAtZero(timeout) == timeout.ackRetry >= 0

AckTimeoutRetryable(timeout) == timeout.ackRetry > 0

(* Mutant: ack timeout retries are not counted. *)
RetryForFree(timeout) ==
  [body |-> timeout.body, retry |-> RetryCount, ackRetry |-> timeout.ackRetry]

(* Receive*AckTimeoutAction.retry: an ack timeout costs one ack timeout     *)
(* retry and refills the budget of failed transmissions.                    *)
RetryAfterAckTimeout(timeout) ==
  [body |-> timeout.body, retry |-> RetryCount,
   ackRetry |-> timeout.ackRetry - 1]

(* SendControlAckAction.retryable and SendDataAckAction.retryable compare   *)
(* the budget with < where the other actions use >.                         *)
AckSendRetryable(action) == action.retry < 0
RetryAck(action) == [action EXCEPT !.retry = @ - 1]
=============================================================================
