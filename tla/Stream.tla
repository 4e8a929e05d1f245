------------------------------- MODULE Stream -------------------------------
(***************************************************************************)
(* StreamSocket (net/stream) over a trusted socket: the loop that sends    *)
(* the messages, as operators over its state, and the accumulator of the   *)
(* other end.  The trusted socket confirms a frame or reports an error,    *)
(* after which it sends no more.                                           *)
(***************************************************************************)
EXTENDS Channel

(* An entry is a message of some call, with the frames it is cut into.      *)
StreamEntry(call, size) == [call |-> call, size |-> size]

NoEntry == StreamEntry(0, 0)

NewStream ==
  [sender |-> NewSender, receiver |-> Receiver(NewSender),
   current |-> NoEntry,  \* the message that is being sent
   left |-> 0,           \* its frames that are left
   looping |-> TRUE,     \* the loop has not been left
   aborted |-> FALSE,    \* the loop's signal
   sent |-> <<>>]        \* frames that the other end has got

StreamSend(s, entry) == [s EXCEPT !.sender = SendValue(@, entry)]

(* The loop is given its next message.                                      *)
CanTake(s) == s.looping /\ s.current = NoEntry /\ ~s.aborted /\ HasNext(s.sender, s.receiver)
TakeEntry(s) ==
  LET entry == NextValue(s.sender, s.receiver)
  IN  [s EXCEPT !.receiver = @ + 1, !.current = entry, !.left = entry.size]

\* Mutant of StreamFrame: every frame ends a message.
StreamFrameFin(s) == [call |-> s.current.call, fin |-> TRUE]

(* The frame in flight: the last one of a message carries fin.              *)
StreamFrame(s) == [call |-> s.current.call, fin |-> s.left = 1]

FrameOk(s) == [s EXCEPT !.left = @ - 1, !.sent = Append(@, StreamFrame(s))]

(* A message is settled when no frame is left, and the loop goes on with a  *)
(* receiver of its own for the next message - or ends, when it was aborted. *)
IsSent(s) == s.current # NoEntry /\ s.left = 0
EntryDone(s) ==
  [s EXCEPT !.current = NoEntry, !.receiver = Receiver(s.sender), !.looping = ~s.aborted]

(* A frame failed, though it may have arrived: the loop is left.            *)
EntryFailed(s, arrived) ==
  [s EXCEPT !.current = NoEntry, !.looping = FALSE,
            !.sent = IF arrived THEN Append(@, StreamFrame(s)) ELSE @]

(* close(): the loop ends at once where it waits, else with its message.    *)
AbortLoop(s) == [s EXCEPT !.aborted = TRUE, !.looping = @ /\ s.current # NoEntry]

(* A message that will never be settled: it was passed over by a later      *)
(* receiver, or has nobody to take it.                                      *)
PassedOver(s, call) ==
  \E i \in 1..Len(s.sender) :
    /\ s.sender[i].call = call /\ s.current.call # call
    /\ i <= s.receiver \/ ~s.looping

(* FrameAccumulator: the messages at the other end, each the calls its      *)
(* frames come from.  A run of frames up to the next fin is a message.      *)
Runs(frames) ==
  {run \in (1..Len(frames)) \X (1..Len(frames)) :
     /\ run[1] <= run[2] /\ frames[run[2]].fin
     /\ \A k \in run[1]..(run[2] - 1) : ~frames[k].fin
     /\ run[1] = 1 \/ frames[run[1] - 1].fin}

Accumulated(frames) ==
  {[k \in 1..(run[2] - run[1] + 1) |-> frames[run[1] + k - 1].call] : run \in Runs(frames)}
=============================================================================
