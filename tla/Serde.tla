------------------------------- MODULE Serde -------------------------------
(***************************************************************************)
(* The serdeables of ts-core/src/serde, and how BufferWriter and           *)
(* BufferReader run them (ts-core/src/net/buffer.ts).                      *)
(*                                                                         *)
(* A serdeable is an object with two methods, serializer and deserializer; *)
(* here it is a record of functions: what it writes for each of its values *)
(* ("bytes"), the length it announces ("size"), and what it reads from     *)
(* bytes ("read").  "form" says how it was constructed.                    *)
(*                                                                         *)
(* A value is a number, a Boolean, a sequence of bytes, a text (a sequence *)
(* of characters, each the bytes it has in UTF-8), a sequence of values,   *)
(* <<>> or <<v>> for an optional value, or <<index, value>> for a variant. *)
(* "values" are those that fit: no number beyond its bytes, no list longer *)
(* than its length field can say.  A TransformSerdeable whose functions    *)
(* are each other's inverse is the serdeable it transforms.                *)
(***************************************************************************)
EXTENDS Integers, SequencesExt

Byte == 0..255
Bytes == Seq(Byte)

Serdeable(form, values, Write(_), Size(_), Read(_)) ==
  [form |-> form, values |-> values,
   bytes |-> [value \in values |-> Write(value)],
   size |-> [value \in values |-> Size(value)],
   read |-> [bytes \in Bytes |-> Read(bytes)]]

(* serializer(value), and the serializedLength() that BufferWriter          *)
(* allocates; deserializer().                                               *)
Encode(serdeable, value) == serdeable.bytes[value]
SerializedLength(serdeable, value) == serdeable.size[value]
Decode(serdeable, bytes) == serdeable.read[bytes]

(* BufferWriter.serialize: an error beyond the buffer, an exception if the  *)
(* buffer is not filled.                                                    *)
Serialize(serdeable, value) ==
  LET bytes == Encode(serdeable, value)
      length == SerializedLength(serdeable, value)
  IN  [is |-> IF Len(bytes) = length THEN "ok" ELSE IF Len(bytes) > length THEN "error" ELSE "throws",
       bytes |-> bytes]

(* A result is a value with what is left to read, an error, or an           *)
(* exception.                                                               *)
Ok(value, rest) == [is |-> "ok", value |-> value, rest |-> rest]
Failed(how) == [is |-> how, value |-> <<>>, rest |-> <<>>]

AndThen(result, Continue(_, _)) ==
  IF result.is = "ok" THEN Continue(result.value, result.rest) ELSE result

(* BufferReader.readBytes.                                                  *)
ReadBytes(size, bytes) ==
  IF size <= Len(bytes) THEN Ok(SubSeq(bytes, 1, size), SubSeq(bytes, size + 1, Len(bytes)))
  ELSE Failed("error")

-----------------------------------------------------------------------------
(* Numbers and Booleans.                                                    *)

Weight == <<1, 256, 65536, 16777216>>

EncodeUint(width, value) == [i \in 1..width |-> (value \div Weight[i]) % 256]

(* Bytes are put together by 32 bit operators: the fourth one holds the     *)
(* sign, and a number of 2^31 or more is read as a negative one.            *)
DecodeUint(width, bytes) ==
  AndThen(ReadBytes(width, bytes), LAMBDA read, rest :
    LET Part(i) == IF i > width THEN 0
                   ELSE IF i = 4 /\ read[i] >= 128 THEN Weight[i] * (read[i] - 256)
                   ELSE Weight[i] * read[i]
    IN  Ok(Part(1) + Part(2) + Part(3) + Part(4), rest))

(* The numbers that are read as they were written.                          *)
MaxUint(width) == IF width = 4 THEN 2147483647 ELSE Weight[width + 1] - 1
UintValues(width) == {value \in Nat : value <= MaxUint(width)}

Uint(width) ==
  Serdeable([is |-> "uint", width |-> width], UintValues(width),
            LAMBDA value : EncodeUint(width, value), LAMBDA value : width,
            LAMBDA bytes : DecodeUint(width, bytes))
Uint8 == Uint(1)
Uint16 == Uint(2)
Uint32 == Uint(4)

DecodeBool(bytes) ==
  AndThen(Decode(Uint8, bytes), LAMBDA byte, rest :
    IF byte \in {0, 1} THEN Ok(byte = 1, rest) ELSE Failed("error"))

Bool ==
  Serdeable([is |-> "bool"], BOOLEAN,
            LAMBDA value : IF value THEN <<1>> ELSE <<0>>, LAMBDA value : 1,
            LAMBDA bytes : DecodeBool(bytes))

-----------------------------------------------------------------------------
(* Bytes.                                                                   *)

Fixed(length) ==
  Serdeable([is |-> "fixed", length |-> length], {value \in Bytes : Len(value) = length},
            LAMBDA value : value, LAMBDA value : Len(value),
            LAMBDA bytes : ReadBytes(length, bytes))

Remaining ==
  Serdeable([is |-> "remaining"], Bytes, LAMBDA value : value, LAMBDA value : Len(value),
            LAMBDA bytes : ReadBytes(Len(bytes), bytes))

Constant ==
  Serdeable([is |-> "constant"], {<<>>}, LAMBDA value : <<>>, LAMBDA value : 0,
            LAMBDA bytes : Ok(<<>>, bytes))
Empty == Constant

(* A date is the eight bytes of its number of milliseconds.                 *)
Date == Fixed(8)

DecodeVariableBytes(length, bytes) ==
  AndThen(Decode(length, bytes), LAMBDA size, rest : ReadBytes(size, rest))

VariableBytes(length) ==
  Serdeable([is |-> "variable"], {value \in Bytes : Len(value) \in length.values},
            LAMBDA value : Encode(length, Len(value)) \o value,
            LAMBDA value : SerializedLength(length, 0) + Len(value),
            LAMBDA bytes : DecodeVariableBytes(length, bytes))

-----------------------------------------------------------------------------
(* Some values of another serdeable.                                        *)

Restricted(form, of, accepted) ==
  Serdeable(form, accepted,
            LAMBDA value : Encode(of, value), LAMBDA value : SerializedLength(of, value),
            LAMBDA bytes :
              AndThen(Decode(of, bytes), LAMBDA value, rest :
                IF value \in accepted THEN Ok(value, rest) ELSE Failed("error")))

Enum(values, base) == Restricted([is |-> "enum"], base, values)
(* all is a low mask, 2^k - 1: no other bit may be set.                     *)
Flags(all, base) == Restricted([is |-> "flags", all |-> all], base, 0..all)
(* A TransformSerdeable that only accepts some values.                      *)
Accepting(of, values) == Restricted([is |-> "enum"], of, values)

-----------------------------------------------------------------------------
(* Texts.                                                                   *)

(* The number of bytes of the character that a lead byte begins.            *)
CharLength(lead) == IF lead < 128 THEN 1 ELSE IF lead < 224 THEN 2 ELSE IF lead < 240 THEN 3 ELSE 4

Character == {char \in Bytes : char # <<>> /\ Len(char) = CharLength(char[1])}

(* Texts are well formed; a text cut in the middle of a character ends with *)
(* what is left of it (the decoder puts a replacement character there).     *)
Characters(bytes) ==
  FoldLeft(
    LAMBDA text, byte :
      IF text = <<>> \/ Len(Last(text)) = CharLength(Last(text)[1])
      THEN Append(text, <<byte>>)
      ELSE Append(Front(text), Append(Last(text), byte)),
    <<>>, bytes)

DecodeText(length, bytes) ==
  AndThen(DecodeVariableBytes(length, bytes), LAMBDA read, rest : Ok(Characters(read), rest))

TextValues(length) == {text \in Seq(Character) : Len(FlattenSeq(text)) \in length.values}

Text(length) ==
  Serdeable([is |-> "text"], TextValues(length),
            LAMBDA text : Encode(VariableBytes(length), FlattenSeq(text)),
            LAMBDA text : SerializedLength(length, 0) + Len(FlattenSeq(text)),
            LAMBDA bytes : DecodeText(length, bytes))

(* Utf8 of py_core: the length it writes is the number of characters.       *)
PyUtf8(length) ==
  Serdeable([is |-> "text"], TextValues(length),
            LAMBDA text : Encode(length, Len(text)) \o FlattenSeq(text),
            LAMBDA text : SerializedLength(length, 0) + Len(FlattenSeq(text)),
            LAMBDA bytes : DecodeText(length, bytes))

-----------------------------------------------------------------------------
(* Several serdeables, one after the other.                                 *)

EncodeEach(parts, values) == FlattenSeq([i \in DOMAIN parts |-> Encode(parts[i], values[i])])

SizeOfEach(parts, values) ==
  FoldLeft(+, 0, [i \in DOMAIN parts |-> SerializedLength(parts[i], values[i])])

DecodeEach(parts, bytes) ==
  LET after[n \in 0..Len(parts)] ==
        IF n = 0 THEN Ok(<<>>, bytes)
        ELSE AndThen(after[n - 1], LAMBDA values, unread :
               AndThen(Decode(parts[n], unread), LAMBDA value, rest : Ok(Append(values, value), rest)))
  IN  after[Len(parts)]

(* The parts of a tuple are at most eight.                                  *)
Product(S) ==
  CASE Len(S) = 0 -> {<<>>}
    [] Len(S) = 1 -> {value \in Seq(S[1]) : Len(value) = 1}
    [] Len(S) = 2 -> S[1] \X S[2]
    [] Len(S) = 3 -> S[1] \X S[2] \X S[3]
    [] Len(S) = 4 -> S[1] \X S[2] \X S[3] \X S[4]
    [] Len(S) = 5 -> S[1] \X S[2] \X S[3] \X S[4] \X S[5]
    [] Len(S) = 8 -> S[1] \X S[2] \X S[3] \X S[4] \X S[5] \X S[6] \X S[7] \X S[8]

Tuple(parts) ==
  Serdeable([is |-> "tuple", parts |-> parts], Product([i \in DOMAIN parts |-> parts[i].values]),
            LAMBDA values : EncodeEach(parts, values), LAMBDA values : SizeOfEach(parts, values),
            LAMBDA bytes : DecodeEach(parts, bytes))

(* The names of fields do not reach the wire, only their order does.        *)
Object(fields) == Tuple(fields)

EncodeArray(of, values) == EncodeEach([i \in DOMAIN values |-> of], values)
DecodeArray(of, length, bytes) == DecodeEach([i \in 1..length |-> of], bytes)

EncodeVector(of, length, values) == Encode(length, Len(values)) \o EncodeArray(of, values)

DecodeVector(of, length, bytes) ==
  AndThen(Decode(length, bytes), LAMBDA size, rest : DecodeArray(of, size, rest))

Vector(of, length) ==
  Serdeable([is |-> "vector", of |-> of], {values \in Seq(of.values) : Len(values) \in length.values},
            LAMBDA values : EncodeVector(of, length, values),
            LAMBDA values : SerializedLength(length, 0) + SizeOfEach([i \in DOMAIN values |-> of], values),
            LAMBDA bytes : DecodeVector(of, length, bytes))

-----------------------------------------------------------------------------
(* Optional values and variants.                                            *)

EncodeOptional(of, value) == IF value = <<>> THEN <<0>> ELSE <<1>> \o Encode(of, value[1])

DecodeOptional(of, bytes) ==
  AndThen(Decode(Bool, bytes), LAMBDA present, rest :
    IF present
    THEN AndThen(Decode(of, rest), LAMBDA value, left : Ok(<<value>>, left))
    ELSE Ok(<<>>, rest))

Optional(of) ==
  Serdeable([is |-> "optional", of |-> of], {value \in Seq(of.values) : Len(value) <= 1},
            LAMBDA value : EncodeOptional(of, value),
            LAMBDA value : 1 + IF value = <<>> THEN 0 ELSE SerializedLength(of, value[1]),
            LAMBDA bytes : DecodeOptional(of, bytes))

(* of maps the indices to serdeables.                                       *)
EncodeVariant(of, value) == <<value[1]>> \o Encode(of[value[1]], value[2])

DecodeVariant(of, unknown, bytes) ==
  AndThen(Decode(Uint8, bytes), LAMBDA index, rest :
    IF index \in DOMAIN of
    THEN AndThen(Decode(of[index], rest), LAMBDA value, left : Ok(<<index, value>>, left))
    ELSE Failed(unknown))

VariantOf(of, unknown) ==
  Serdeable([is |-> "variant", of |-> of],
            FoldSet(LAMBDA index, values : ({index} \X of[index].values) \cup values, {}, DOMAIN of),
            LAMBDA value : EncodeVariant(of, value),
            LAMBDA value : 1 + SerializedLength(of[value[1]], value[2]),
            LAMBDA bytes : DecodeVariant(of, unknown, bytes))

(* An unknown index is an error, or throws where the function from indices  *)
(* to serdeables does.                                                      *)
Variant(of) == VariantOf(of, "error")
ManualVariant(of) == VariantOf(of, "throws")
=============================================================================
