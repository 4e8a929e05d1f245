----------------------------- MODULE SerialLine -----------------------------
(***************************************************************************)
(* Frames on a serial line (media/serial-core): what the serializer writes *)
(* and what the deserializer makes of the bytes, whatever chunks they come *)
(* in.  The generator of the code, suspended in the middle of a frame, is  *)
(* the record of what it has read so far.                                  *)
(***************************************************************************)
EXTENDS Frames

PREAMBLE_LENGTH == 8
NORMAL_PREAMBLE_VALUE == 170
LAST_PREAMBLE_VALUE == 171
PREAMBLE ==
  [i \in 1..PREAMBLE_LENGTH |->
    IF i = PREAMBLE_LENGTH THEN LAST_PREAMBLE_VALUE ELSE NORMAL_PREAMBLE_VALUE]

HeaderLength == 4
SerialFrame == Tuple(<<ProtocolSerdeable, SerialAddress, SerialAddress, Uint8, Remaining>>)

(* A frame is <<protocol, sender, receiver, payload>>.                      *)
SerializeFrame(frame) ==
  PREAMBLE \o
  Encode(SerialFrame, <<frame[1], frame[2], frame[3], Len(frame[4]), frame[4]>>)

-----------------------------------------------------------------------------
(* at: "start" before the first chunk, then in which part of a frame the    *)
(* deserializer is; "dead" once it has thrown, for it does not run again.   *)
Parser == [at : {"start", "preamble", "frame", "dead"}, read : Seq(Byte)]

NewParser == [at |-> "start", read |-> <<>>]
Restarted == [at |-> "preamble", read |-> <<>>]

(* The byte that does not match is not looked at again.                     *)
ReadPreamble(parser, byte) ==
  IF byte # PREAMBLE[Len(parser.read) + 1] THEN Restarted
  ELSE IF Len(parser.read) + 1 < PREAMBLE_LENGTH
  THEN [parser EXCEPT !.read = Append(@, byte)]
  ELSE [at |-> "frame", read |-> <<>>]

(* uint8ToProtocol throws.                                                  *)
ReadHeaderOrBody(parser, byte) ==
  IF parser.read = <<>> /\ byte \notin Protocol
  THEN [at |-> "dead", read |-> <<>>]
  ELSE [parser EXCEPT !.read = Append(@, byte)]

Complete(parser) ==
  /\ parser.at = "frame"
  /\ Len(parser.read) >= HeaderLength
  /\ Len(parser.read) = HeaderLength + parser.read[4]

FrameOf(read) == <<read[1], read[2], read[3], SubSeq(read, HeaderLength + 1, Len(read))>>

(* One byte of a chunk, with the frames that the chunk has completed.       *)
ReadByte(state, byte) ==
  LET parser == CASE state.parser.at = "preamble" -> ReadPreamble(state.parser, byte)
                  [] state.parser.at = "frame" -> ReadHeaderOrBody(state.parser, byte)
                  [] state.parser.at = "dead" -> state.parser
  IN  IF Complete(parser)
      THEN [parser |-> Restarted, frames |-> Append(state.frames, FrameOf(parser.read))]
      ELSE [state EXCEPT !.parser = parser]

(* Mutant of DispatchReceivedBytes: a new generator for every chunk.        *)
DispatchToNewParser(parser, chunk) ==
  FoldLeft(ReadByte, [parser |-> Restarted, frames |-> <<>>], chunk)

(* dispatchReceivedBytes: the argument of the first next() of a generator   *)
(* goes nowhere, and the first chunk with it.                               *)
DispatchReceivedBytes(parser, chunk) ==
  IF parser.at = "start" THEN [parser |-> Restarted, frames |-> <<>>]
  ELSE FoldLeft(ReadByte, [parser |-> parser, frames |-> <<>>], chunk)
=============================================================================
