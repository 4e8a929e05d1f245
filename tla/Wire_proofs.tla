---------------------------- MODULE Wire_proofs ----------------------------
(***************************************************************************)
(* Proofs about Wire: what is read is what was written, whatever the kind  *)
(* of message and its value; the largest payload of a stream fills a frame *)
(* of the link and no more; what leaves the layers of the receiver is what *)
(* entered those of the sender, but for the frames whose sum carries       *)
(* twice; updates cut into frames are put together again; and the frames   *)
(* on a serial line arrive in order, however its bytes are cut.            *)
(*                                                                         *)
(* The proofs go from the parts to the whole.  Carries(w, r, Rests) says   *)
(* that r reads the values of w as w writes them, before any bytes of      *)
(* Rests: it holds for the serdeables of Serde, hence for the formats of   *)
(* Frames and IpcMessages, hence for the layers and the steps of Wire.     *)
(* Of the serial line, LineSays tells which byte of which frame comes      *)
(* next, and Sound what its deserializer has made of those before.         *)
(***************************************************************************)
EXTENDS Wire, SequenceTheorems, FiniteSetTheorems, WellFoundedInduction, TLAPS

-----------------------------------------------------------------------------
(* Bytes one after the other.                                               *)
LEMMA BytesJoin ==
  /\ <<>> \in Bytes /\ Len(<<>>) = 0
  /\ \A a \in Bytes : Len(a) \in Nat /\ a \o <<>> = a /\ <<>> \o a = a
  /\ \A a, b \in Bytes : a \o b \in Bytes /\ Len(a \o b) = Len(a) + Len(b)
  /\ \A a, b, c \in Bytes : (a \o b) \o c = a \o (b \o c)
  BY EmptySeq, LenProperties, ConcatEmptySeq, ConcatProperties, ConcatAssociative DEF Bytes

LEMMA JoinIs ==
  ASSUME NEW a \in Bytes, NEW b \in Bytes
  PROVE  a \o b \in Bytes /\ Len(a \o b) = Len(a) + Len(b)
  BY BytesJoin

LEMMA JoinAssociates ==
  ASSUME NEW a \in Bytes, NEW b \in Bytes, NEW c \in Bytes
  PROVE  (a \o b) \o c = a \o (b \o c)
  BY BytesJoin

LEMMA Split ==
  ASSUME NEW S, NEW a \in Seq(S), NEW b \in Seq(S)
  PROVE  /\ SubSeq(a \o b, 1, Len(a)) = a
         /\ SubSeq(a \o b, Len(a) + 1, Len(a \o b)) = b
<1>1. PICK c, m, n : c = a \o b /\ m = Len(a) /\ n = Len(b)
  OBVIOUS
<1>2. /\ c \in Seq(S) /\ Len(c) = m + n /\ m \in Nat /\ n \in Nat
      /\ \A i \in 1..m + n : c[i] = IF i <= m THEN a[i] ELSE b[i - m]
  BY <1>1, ConcatProperties, LenProperties
<1>3. \A i \in 1..m + n : c[i] \in S
  BY <1>2, ElementOfSeq
<1>4. /\ SubSeq(c, 1, m) \in Seq(S) /\ Len(SubSeq(c, 1, m)) = m
      /\ \A i \in 1..m : SubSeq(c, 1, m)[i] = c[i]
  <2>1. \A i \in 1..m : c[i] \in S
    BY <1>2, <1>3
  <2> QED BY <1>2, <2>1, SubSeqProperties
<1>5. /\ SubSeq(c, m + 1, m + n) \in Seq(S) /\ Len(SubSeq(c, m + 1, m + n)) = n
      /\ \A i \in 1..n : SubSeq(c, m + 1, m + n)[i] = c[m + i]
  <2>1. \A i \in m + 1..m + n : c[i] \in S
    BY <1>2, <1>3
  <2>2. /\ SubSeq(c, m + 1, m + n) \in Seq(S)
        /\ Len(SubSeq(c, m + 1, m + n)) = IF m + 1 <= m + n THEN m + n - (m + 1) + 1 ELSE 0
        /\ \A i \in 1..m + n - (m + 1) + 1 : SubSeq(c, m + 1, m + n)[i] = c[m + 1 + i - 1]
    BY <1>2, <2>1, SubSeqProperties
  <2> QED BY <1>2, <2>2
<1>6. SubSeq(c, 1, m) = a
  <2>1. \A i \in 1..m : SubSeq(c, 1, m)[i] = a[i]
    BY <1>2, <1>4
  <2> QED BY <1>1, <1>4, <2>1, SeqEqual
<1>7. SubSeq(c, m + 1, m + n) = b
  <2>1. ASSUME NEW i \in 1..n PROVE SubSeq(c, m + 1, m + n)[i] = b[i]
    <3>1. m + i \in 1..m + n /\ ~(m + i <= m) /\ (m + i) - m = i
      BY <1>2
    <3>2. c[m + i] = b[(m + i) - m]
      BY <1>2, <3>1
    <3> QED BY <1>5, <3>1, <3>2
  <2> QED BY <1>1, <1>5, <2>1, SeqEqual
<1> QED BY <1>1, <1>2, <1>6, <1>7

(* What is read of bytes that some other bytes follow.                      *)
LEMMA ReadBytesOf ==
  ASSUME NEW bytes \in Bytes, NEW rest \in Bytes
  PROVE  ReadBytes(Len(bytes), bytes \o rest) = Ok(bytes, rest)
<1>1. Len(bytes) <= Len(bytes \o rest)
  BY BytesJoin
<1>2. SubSeq(bytes \o rest, 1, Len(bytes)) = bytes /\ SubSeq(bytes \o rest, Len(bytes) + 1,
          Len(bytes \o rest)) = rest
  BY Split DEF Bytes
<1> QED BY <1>1, <1>2 DEF ReadBytes

-----------------------------------------------------------------------------
(* What is written is as long as it announces; what one serdeable writes,   *)
(* another one (or itself) reads back, with some rest behind it.            *)
Writes(w) ==
  /\ w.bytes \in [w.values -> Bytes] /\ w.size \in [w.values -> Nat]
  /\ \A v \in w.values : Len(w.bytes[v]) = w.size[v]

ReadsBack(w, r, Rests) ==
  \A v \in w.values, rest \in Rests : r.read[w.bytes[v] \o rest] = Ok(v, rest)

Carries(w, r, Rests) == Writes(w) /\ ReadsBack(w, r, Rests)

LEMMA Continues ==
  ASSUME NEW value, NEW rest
  PROVE  Ok(value, rest).is = "ok" /\ Ok(value, rest).value = value /\ Ok(value, rest).rest = rest
  BY DEF Ok

LEMMA UintIs ==
  ASSUME NEW width
  PROVE  /\ Uint(width).values = UintValues(width)
         /\ Uint(width).bytes = [v \in UintValues(width) |-> EncodeUint(width, v)]
         /\ Uint(width).size = [v \in UintValues(width) |-> width]
         /\ Uint(width).read = [bytes \in Bytes |-> DecodeUint(width, bytes)]
  BY DEF Uint, Serdeable

LEMMA UintFields ==
  ASSUME NEW width
  PROVE  /\ Uint(width).values = UintValues(width)
         /\ \A v \in UintValues(width) :
              Uint(width).bytes[v] = EncodeUint(width, v) /\ Uint(width).size[v] = width
<1>1. PICK w, V : w = Uint(width) /\ V = UintValues(width)
  OBVIOUS
<1>2. /\ w.values = V /\ w.bytes = [v \in V |-> EncodeUint(width, v)] /\ w.size = [v \in V |-> width]
  BY <1>1, UintIs
<1> QED BY <1>1, <1>2

LEMMA WeightIs == Weight[1] = 1 /\ Weight[2] = 256 /\ Weight[3] = 65536 /\ Weight[4] = 16777216
  BY SMT DEF Weight

LEMMA ByteIs == \A v : v \in Byte <=> v \in Nat /\ v <= 255
  BY DEF Byte

LEMMA UintValuesAre ==
  /\ \A v : v \in UintValues(1) <=> v \in Byte
  /\ \A width, v : v \in UintValues(width) => v \in Nat
  /\ \A v \in Nat : v \in UintValues(2) <=> v < Weight[3]
<1>1. MaxUint(1) = 255
  BY WeightIs DEF MaxUint
<1>2. MaxUint(2) = Weight[3] - 1
  BY DEF MaxUint
<1>3. Weight[3] \in Nat
  BY WeightIs, SMT
<1> QED BY <1>1, <1>2, <1>3, ByteIs DEF UintValues

LEMMA EncodeUintType ==
  ASSUME NEW width \in {1, 2, 4}, NEW v \in Nat
  PROVE  EncodeUint(width, v) \in Bytes /\ Len(EncodeUint(width, v)) = width
<1>1. ASSUME NEW i \in 1..width
      PROVE  (v \div Weight[i]) % 256 \in Byte
  <2>1. i \in {1, 2, 3, 4}
    OBVIOUS
  <2>2. /\ (v \div 1) % 256 \in Byte /\ (v \div 256) % 256 \in Byte
        /\ (v \div 65536) % 256 \in Byte /\ (v \div 16777216) % 256 \in Byte
    BY ByteIs, SMT
  <2> QED BY <2>1, <2>2, WeightIs, SMT
<1> QED BY <1>1 DEF EncodeUint, Bytes

LEMMA DecodeUintOf ==
  ASSUME NEW width \in {1, 2, 4}, NEW v \in UintValues(width), NEW rest \in Bytes
  PROVE  DecodeUint(width, EncodeUint(width, v) \o rest) = Ok(v, rest)
<1>1. v \in Nat
  BY UintValuesAre
<1>2. PICK read \in Bytes : read = EncodeUint(width, v)
  BY <1>1, EncodeUintType
<1>3. ReadBytes(width, EncodeUint(width, v) \o rest) = Ok(read, rest)
  BY <1>1, <1>2, EncodeUintType, ReadBytesOf
<1>4. \A i \in 1..width : read[i] = (v \div Weight[i]) % 256
  BY <1>2 DEF EncodeUint
<1> DEFINE Part(i) == IF i > width THEN 0
                      ELSE IF i = 4 /\ read[i] >= 128 THEN Weight[i] * (read[i] - 256)
                      ELSE Weight[i] * read[i]
<1>5. DecodeUint(width, EncodeUint(width, v) \o rest) = Ok(Part(1) + Part(2) + Part(3) + Part(4), rest)
  BY <1>3 DEF DecodeUint, AndThen, Ok
<1>6. CASE width = 1
  <2>1. v \in Byte
    BY <1>6, UintValuesAre
  <2>2. read[1] = v
    BY <1>1, <1>4, <1>6, <2>1, WeightIs, ByteIs, SMT
  <2>3. Part(1) = v /\ Part(2) = 0 /\ Part(3) = 0 /\ Part(4) = 0
    BY <1>1, <1>6, <2>2, WeightIs, SMT
  <2> QED BY <1>1, <1>5, <2>3
<1>7. CASE width = 2
  <2>1. v <= 65535
    <3>1. v < Weight[3]
      BY <1>1, <1>7, UintValuesAre
    <3> QED BY <1>1, <3>1, WeightIs, SMT
  <2>2. read[1] = v % 256 /\ read[2] = (v \div 256) % 256
    BY <1>1, <1>4, <1>7, WeightIs, SMT
  <2>3. Part(1) = v % 256 /\ Part(2) = 256 * ((v \div 256) % 256) /\ Part(3) = 0 /\ Part(4) = 0
    BY <1>1, <1>7, <2>2, WeightIs, SMT
  <2>4. (v % 256) + 256 * ((v \div 256) % 256) = v
    BY <1>1, <2>1, SMT
  <2>5. Part(1) + Part(2) + Part(3) + Part(4) = v
    BY <1>1, <2>3, <2>4, SMT
  <2> QED BY <1>5, <2>5
<1>8. CASE width = 4
  <2>1. v <= 2147483647
    BY <1>1, <1>8, SMT DEF UintValues, MaxUint
  <2>2. /\ read[1] = v % 256 /\ read[2] = (v \div 256) % 256
        /\ read[3] = (v \div 65536) % 256 /\ read[4] = (v \div 16777216) % 256
    BY <1>1, <1>4, <1>8, WeightIs, SMT
  <2>3. (v \div 16777216) % 256 < 128
    BY <1>1, <2>1, SMT
  <2>4. /\ Part(1) = v % 256 /\ Part(2) = 256 * ((v \div 256) % 256)
        /\ Part(3) = 65536 * ((v \div 65536) % 256) /\ Part(4) = 16777216 * ((v \div 16777216) % 256)
    BY <1>1, <1>8, <2>2, <2>3, WeightIs, SMT
  <2>5. (v % 256) + 256 * ((v \div 256) % 256) + 65536 * ((v \div 65536) % 256)
        + 16777216 * ((v \div 16777216) % 256) = v
    BY <1>1, <2>1, SMT
  <2>6. Part(1) + Part(2) + Part(3) + Part(4) = v
    BY <1>1, <2>4, <2>5, SMT
  <2> QED BY <1>5, <2>6
<1> QED BY <1>6, <1>7, <1>8

LEMMA UintCarries ==
  ASSUME NEW width \in {1, 2, 4}
  PROVE  Carries(Uint(width), Uint(width), Bytes)
<1>1. PICK w, V : w = Uint(width) /\ V = UintValues(width)
  OBVIOUS
<1>2. /\ w.values = V /\ w.bytes = [v \in V |-> EncodeUint(width, v)] /\ w.size = [v \in V |-> width]
      /\ w.read = [bytes \in Bytes |-> DecodeUint(width, bytes)]
  BY <1>1, UintIs
<1>3. \A v \in V : v \in Nat /\ EncodeUint(width, v) \in Bytes /\ Len(EncodeUint(width, v)) = width
  BY <1>1, EncodeUintType, UintValuesAre
<1>4. Writes(w)
  BY <1>2, <1>3 DEF Writes
<1>5. ASSUME NEW v \in w.values, NEW rest \in Bytes
      PROVE  w.read[w.bytes[v] \o rest] = Ok(v, rest)
  <2>1. v \in V /\ w.bytes[v] = EncodeUint(width, v)
    BY <1>2
  <2>2. PICK bytes \in Bytes : bytes = EncodeUint(width, v) \o rest
    BY <1>3, <2>1, BytesJoin
  <2>3. w.read[bytes] = DecodeUint(width, bytes)
    BY <1>2
  <2> QED BY <1>1, <2>1, <2>2, <2>3, DecodeUintOf
<1> QED BY <1>1, <1>4, <1>5 DEF Carries, ReadsBack

LEMMA Uints ==
  /\ Carries(Uint8, Uint8, Bytes) /\ \A v : v \in Uint8.values <=> v \in Byte
  /\ Carries(Uint16, Uint16, Bytes) /\ \A v \in Nat : v \in Uint16.values <=> v < Weight[3]
  /\ Carries(Uint32, Uint32, Bytes) /\ Uint16.values \subseteq Nat /\ Uint32.values \subseteq Nat
<1>1. 1 \in {1, 2, 4} /\ 2 \in {1, 2, 4} /\ 4 \in {1, 2, 4}
  OBVIOUS
<1>2. /\ \A v : v \in Uint8.values <=> v \in Byte
      /\ \A v \in Nat : v \in Uint16.values <=> v < Weight[3]
      /\ Uint16.values \subseteq Nat /\ Uint32.values \subseteq Nat
  BY UintFields, UintValuesAre DEF Uint8, Uint16, Uint32
<1> QED BY <1>1, <1>2, UintCarries DEF Uint8, Uint16, Uint32

LEMMA UintSizes ==
  /\ \A v \in Byte : Uint8.bytes[v] = <<v>> /\ Uint8.size[v] = 1
  /\ \A v \in Uint16.values : Uint16.size[v] = 2 /\ Uint16.bytes[v] = EncodeUint(2, v)
  /\ \A v \in Uint32.values : Uint32.size[v] = 4
<1>1. ASSUME NEW v \in Byte PROVE EncodeUint(1, v) = <<v>>
  <2>1. \A i \in 1..1 : (v \div Weight[i]) % 256 = v
    BY WeightIs, ByteIs, SMT
  <2>2. EncodeUint(1, v) = [i \in 1..1 |-> v]
    BY <2>1 DEF EncodeUint
  <2> QED BY <2>2
<1>2. \A v \in Byte : Uint8.bytes[v] = EncodeUint(1, v) /\ Uint8.size[v] = 1
  BY UintFields, UintValuesAre DEF Uint8
<1> QED BY <1>1, <1>2, UintFields DEF Uint16, Uint32

LEMMA OneByte ==
  /\ 0 \in Byte /\ 1 \in Byte
  /\ \A v \in Byte : <<v>> \in Bytes /\ Len(<<v>>) = 1
  BY ByteIs DEF Bytes

LEMMA BoolCarries == Carries(Bool, Bool, Bytes) /\ Bool.values = BOOLEAN
<1>1. /\ Bool.values = BOOLEAN
      /\ Bool.bytes = [v \in BOOLEAN |-> IF v THEN <<1>> ELSE <<0>>] /\ Bool.size = [v \in BOOLEAN |-> 1]
      /\ Bool.read = [bytes \in Bytes |-> DecodeBool(bytes)]
  BY DEF Bool, Serdeable
<1>2. <<0>> \in Bytes /\ Len(<<0>>) = 1 /\ <<1>> \in Bytes /\ Len(<<1>>) = 1
  BY OneByte
<1>3. Writes(Bool)
  BY <1>1, <1>2 DEF Writes
<1>4. ASSUME NEW v \in BOOLEAN, NEW rest \in Bytes
      PROVE  Bool.read[Bool.bytes[v] \o rest] = Ok(v, rest)
  <2>1. PICK byte \in {0, 1} : byte = IF v THEN 1 ELSE 0
    OBVIOUS
  <2>2. Bool.bytes[v] = <<byte>> /\ v = (byte = 1)
    BY <1>1, <2>1
  <2>3. PICK bytes \in Bytes : bytes = <<byte>> \o rest
    BY <1>2, BytesJoin
  <2>4. Uint8.read[bytes] = Ok(byte, rest)
    <3>1. byte \in Uint8.values /\ Uint8.bytes[byte] = <<byte>>
      BY OneByte, Uints, UintSizes
    <3> QED BY <2>3, <3>1, Uints DEF Carries, ReadsBack
  <2>5. Bool.read[bytes] = DecodeBool(bytes)
    BY <1>1
  <2>6. DecodeBool(bytes) = Ok(byte = 1, rest)
    BY <2>4 DEF DecodeBool, Decode, AndThen, Ok
  <2> QED BY <2>2, <2>3, <2>5, <2>6
<1> QED BY <1>1, <1>3, <1>4 DEF Carries, ReadsBack

-----------------------------------------------------------------------------
(* Bytes.                                                                   *)
LEMMA FixedCarries ==
  ASSUME NEW length \in Nat
  PROVE  Carries(Fixed(length), Fixed(length), Bytes)
<1>1. PICK w, V : w = Fixed(length) /\ V = {value \in Bytes : Len(value) = length}
  OBVIOUS
<1>2. /\ w.values = V /\ w.bytes = [v \in V |-> v] /\ w.size = [v \in V |-> Len(v)]
      /\ w.read = [bytes \in Bytes |-> ReadBytes(length, bytes)]
  BY <1>1 DEF Fixed, Serdeable
<1>3. \A v \in V : v \in Bytes /\ Len(v) = length
  BY <1>1
<1>4. Writes(w)
  BY <1>2, <1>3 DEF Writes
<1>5. ASSUME NEW v \in w.values, NEW rest \in Bytes
      PROVE  w.read[w.bytes[v] \o rest] = Ok(v, rest)
  <2>1. v \in V /\ w.bytes[v] = v
    BY <1>2
  <2>2. PICK bytes \in Bytes : bytes = v \o rest
    BY <1>3, <2>1, BytesJoin
  <2>3. w.read[bytes] = ReadBytes(length, bytes)
    BY <1>2
  <2> QED BY <1>3, <2>1, <2>2, <2>3, ReadBytesOf
<1> QED BY <1>1, <1>4, <1>5 DEF Carries, ReadsBack

LEMMA RemainingIs ==
  /\ Remaining.values = Bytes
  /\ \A v \in Bytes : Remaining.bytes[v] = v /\ Remaining.size[v] = Len(v)
  /\ \A bytes \in Bytes : Remaining.read[bytes] = Ok(bytes, <<>>)
<1>1. PICK w : w = Remaining
  OBVIOUS
<1>2. /\ w.values = Bytes /\ w.bytes = [v \in Bytes |-> v] /\ w.size = [v \in Bytes |-> Len(v)]
      /\ w.read = [bytes \in Bytes |-> ReadBytes(Len(bytes), bytes)]
  BY <1>1 DEF Remaining, Serdeable
<1>3. ASSUME NEW bytes \in Bytes
      PROVE  w.read[bytes] = Ok(bytes, <<>>)
  <2>1. bytes = bytes \o <<>>
    BY BytesJoin
  <2>2. ReadBytes(Len(bytes), bytes \o <<>>) = Ok(bytes, <<>>)
    BY BytesJoin, ReadBytesOf
  <2> QED BY <1>2, <2>1, <2>2
<1>4. \A v \in Bytes : w.bytes[v] = v /\ w.size[v] = Len(v)
  BY <1>2
<1> QED BY <1>1, <1>2, <1>3, <1>4

LEMMA RemainingCarries == Carries(Remaining, Remaining, {<<>>})
<1>1. Writes(Remaining)
  <2>1. Remaining.bytes = [v \in Bytes |-> v] /\ Remaining.size = [v \in Bytes |-> Len(v)]
    BY DEF Remaining, Serdeable
  <2> QED BY <2>1, RemainingIs, BytesJoin DEF Writes
<1>2. \A v \in Bytes : v \o <<>> = v
  BY BytesJoin
<1> QED BY <1>1, <1>2, RemainingIs DEF Carries, ReadsBack

LEMMA ConstantIs ==
  /\ Carries(Constant, Constant, Bytes) /\ Constant.values = {<<>>}
  /\ Constant.bytes[<<>>] = <<>> /\ Constant.size[<<>>] = 0
<1>1. /\ Constant.values = {<<>>} /\ Constant.bytes = [v \in {<<>>} |-> <<>>]
      /\ Constant.size = [v \in {<<>>} |-> 0] /\ Constant.read = [bytes \in Bytes |-> Ok(<<>>, bytes)]
  BY DEF Constant, Serdeable
<1>2. Writes(Constant)
  BY <1>1, BytesJoin DEF Writes
<1>3. ReadsBack(Constant, Constant, Bytes)
  BY <1>1, BytesJoin DEF ReadsBack
<1> QED BY <1>1, <1>2, <1>3 DEF Carries

(* A serdeable for the number of what follows.                              *)
Counts(length) ==
  /\ Carries(length, length, Bytes) /\ 0 \in length.values /\ length.values \subseteq Nat
  /\ \A n \in length.values : length.size[n] = length.size[0]

LEMMA UintsCount == Counts(Uint8) /\ Counts(Uint32)
<1>1. 0 \in Uint8.values /\ Uint8.values \subseteq Nat
  BY Uints, OneByte, ByteIs
<1>2. \A n \in Uint8.values : Uint8.size[n] = Uint8.size[0]
  BY Uints, UintSizes, OneByte
<1>3. 0 \in Uint32.values
  <2>1. 0 <= MaxUint(4)
    BY SMT DEF MaxUint
  <2> QED BY <2>1, UintFields DEF Uint32, UintValues
<1>4. \A n \in Uint32.values : Uint32.size[n] = Uint32.size[0]
  BY <1>3, UintSizes
<1> QED BY <1>1, <1>2, <1>3, <1>4, Uints DEF Counts

LEMMA DecodeVariableBytesOf ==
  ASSUME NEW length, Counts(length), NEW v \in Bytes, Len(v) \in length.values, NEW rest \in Bytes
  PROVE  DecodeVariableBytes(length, (Encode(length, Len(v)) \o v) \o rest) = Ok(v, rest)
<1>1. Encode(length, Len(v)) \in Bytes
  BY DEF Counts, Carries, Writes, Encode
<1>2. (Encode(length, Len(v)) \o v) \o rest = Encode(length, Len(v)) \o (v \o rest) /\ v \o rest \in Bytes
  BY <1>1, BytesJoin
<1>3. Decode(length, Encode(length, Len(v)) \o (v \o rest)) = Ok(Len(v), v \o rest)
  BY <1>2 DEF Counts, Carries, ReadsBack, Encode, Decode
<1>4. ReadBytes(Len(v), v \o rest) = Ok(v, rest)
  BY ReadBytesOf
<1> QED BY <1>2, <1>3, <1>4 DEF DecodeVariableBytes, AndThen, Ok

LEMMA VariableBytesCarries ==
  ASSUME NEW length, Counts(length)
  PROVE  Carries(VariableBytes(length), VariableBytes(length), Bytes)
<1>1. PICK w, V : w = VariableBytes(length) /\ V = {value \in Bytes : Len(value) \in length.values}
  OBVIOUS
<1>2. /\ w.values = V /\ w.bytes = [v \in V |-> Encode(length, Len(v)) \o v]
      /\ w.size = [v \in V |-> SerializedLength(length, 0) + Len(v)]
      /\ w.read = [bytes \in Bytes |-> DecodeVariableBytes(length, bytes)]
  BY <1>1 DEF VariableBytes, Serdeable
<1>3. ASSUME NEW v \in V
      PROVE  /\ v \in Bytes /\ Len(v) \in length.values /\ Encode(length, Len(v)) \o v \in Bytes
             /\ SerializedLength(length, 0) + Len(v) \in Nat
             /\ Len(Encode(length, Len(v)) \o v) = SerializedLength(length, 0) + Len(v)
  <2>1. v \in Bytes /\ Len(v) \in length.values
    BY <1>1
  <2>2. Encode(length, Len(v)) \in Bytes /\ Len(Encode(length, Len(v))) = SerializedLength(length, 0)
        /\ SerializedLength(length, 0) \in Nat
    BY <2>1 DEF Counts, Carries, Writes, Encode, SerializedLength
  <2>3. Len(v) \in Nat
    BY <2>1, BytesJoin
  <2>4. PICK a \in Bytes : a = Encode(length, Len(v))
    BY <2>2
  <2>5. a \o v \in Bytes /\ Len(a \o v) = Len(a) + Len(v)
    BY <2>1, BytesJoin
  <2> QED BY <2>1, <2>2, <2>3, <2>4, <2>5
<1>4. Writes(w)
  BY <1>2, <1>3 DEF Writes
<1>5. ASSUME NEW v \in w.values, NEW rest \in Bytes
      PROVE  w.read[w.bytes[v] \o rest] = Ok(v, rest)
  <2>1. v \in V /\ w.bytes[v] = Encode(length, Len(v)) \o v
    BY <1>2
  <2>2. PICK bytes \in Bytes : bytes = (Encode(length, Len(v)) \o v) \o rest
    BY <1>3, <2>1, BytesJoin
  <2>3. w.read[bytes] = DecodeVariableBytes(length, bytes)
    BY <1>2
  <2> QED BY <1>3, <2>1, <2>2, <2>3, DecodeVariableBytesOf
<1> QED BY <1>1, <1>4, <1>5 DEF Carries, ReadsBack

-----------------------------------------------------------------------------
(* Some values of another serdeable.                                        *)
LEMMA RestrictedCarries ==
  ASSUME NEW of, NEW Rests \in SUBSET Bytes, Carries(of, of, Rests),
         NEW form, NEW accepted \in SUBSET of.values
  PROVE  Carries(Restricted(form, of, accepted), Restricted(form, of, accepted), Rests)
<1>1. PICK w : w = Restricted(form, of, accepted)
  OBVIOUS
<1>2. /\ w.values = accepted /\ w.bytes = [v \in accepted |-> Encode(of, v)]
      /\ w.size = [v \in accepted |-> SerializedLength(of, v)]
      /\ w.read = [bytes \in Bytes |->
                     AndThen(Decode(of, bytes), LAMBDA value, rest :
                       IF value \in accepted THEN Ok(value, rest) ELSE Failed("error"))]
  BY <1>1 DEF Restricted, Serdeable
<1>3. \A v \in accepted :
        /\ Encode(of, v) \in Bytes /\ SerializedLength(of, v) \in Nat
        /\ Len(Encode(of, v)) = SerializedLength(of, v)
  BY DEF Carries, Writes, Encode, SerializedLength
<1>4. Writes(w)
  <2>1. w.bytes \in [accepted -> Bytes]
    BY <1>2, <1>3
  <2>2. w.size \in [accepted -> Nat]
    BY <1>2, <1>3
  <2>3. \A v \in accepted : Len(w.bytes[v]) = w.size[v]
    BY <1>2, <1>3
  <2> QED BY <1>2, <2>1, <2>2, <2>3 DEF Writes
<1>5. ASSUME NEW v \in w.values, NEW rest \in Rests
      PROVE  w.read[w.bytes[v] \o rest] = Ok(v, rest)
  <2>1. v \in accepted /\ w.bytes[v] = Encode(of, v)
    BY <1>2
  <2>2. PICK bytes \in Bytes : bytes = Encode(of, v) \o rest
    BY <1>3, <2>1, BytesJoin
  <2>3. Decode(of, bytes) = Ok(v, rest)
    BY <2>1, <2>2 DEF Carries, ReadsBack, Encode, Decode
  <2>4. w.read[bytes] = AndThen(Decode(of, bytes), LAMBDA value, left :
                          IF value \in accepted THEN Ok(value, left) ELSE Failed("error"))
    BY <1>2
  <2> QED BY <2>1, <2>2, <2>3, <2>4 DEF AndThen, Ok
<1> QED BY <1>1, <1>4, <1>5 DEF Carries, ReadsBack

(* Where fewer rests are left, less has to be shown.                        *)
LEMMA CarriesLast ==
  ASSUME NEW w, NEW r, Carries(w, r, Bytes), NEW Rests \in SUBSET Bytes
  PROVE  Carries(w, r, Rests)
  BY DEF Carries, ReadsBack

-----------------------------------------------------------------------------
(* Induction, as the least counterexample.                                  *)
LEMMA Least ==
  ASSUME NEW T \in SUBSET Nat, T # {}
  PROVE  \E x \in T : \A y \in T : x <= y
<1>1. PICK x \in T : \A y \in T : ~(<<y, x>> \in OpToRel(<, Nat))
  BY NatLessThanWellFounded, WFMin
<1>2. ASSUME NEW y \in T PROVE x <= y
  <2>1. <<y, x>> \in Nat \X Nat /\ ~(<<y, x>> \in OpToRel(<, Nat))
    BY <1>1
  <2>2. ~(y < x)
    BY <2>1 DEF OpToRel
  <2> QED BY <2>2
<1> QED BY <1>2

LEMMA Upward ==
  ASSUME NEW n \in Nat, NEW T \in SUBSET (0..n), 0 \notin T, \A i \in T : i - 1 \in T
  PROVE  T = {}
<1> SUFFICES ASSUME T # {} PROVE FALSE
  OBVIOUS
<1>1. PICK least \in T : \A y \in T : least <= y
  BY Least
<1>2. least - 1 \in T /\ least \in Nat
  OBVIOUS
<1> QED BY <1>1, <1>2

(* A value for every number up to n, each made of the one before.           *)
Follows(g, n, base, G) == g[0] = base /\ \A i \in 1..n : g[i] = G[<<i, g[i - 1]>>]

LEMMA Iterated ==
  ASSUME NEW n \in Nat, NEW R, NEW base \in R, NEW G \in [(1..n) \X R -> R]
  PROVE  \E g \in [0..n -> R] : Follows(g, n, base, G)
<1> DEFINE T == {k \in 0..n : ~\E g \in [0..k -> R] : Follows(g, k, base, G)}
<1>1. 0 \notin T
  <2>1. [i \in 0..0 |-> base] \in [0..0 -> R] /\ Follows([i \in 0..0 |-> base], 0, base, G)
    BY DEF Follows
  <2> QED BY <2>1
<1>2. ASSUME NEW k \in T PROVE k - 1 \in T
  <2>1. k \in 1..n /\ k - 1 \in 0..n
    <3>1. k # 0
      <4> HIDE DEF T
      <4> QED BY <1>1
    <3>2. k \in 0..n
      OBVIOUS
    <3> QED BY <3>1, <3>2
  <2> SUFFICES ASSUME k - 1 \notin T PROVE FALSE
    OBVIOUS
  <2>2. PICK f \in [0..(k - 1) -> R] : Follows(f, k - 1, base, G)
    BY <2>1
  <2> DEFINE g == [i \in 0..k |-> IF i = k THEN G[<<k, f[k - 1]>>] ELSE f[i]]
  <2>3. \A i \in 0..k : i # k => i \in 0..(k - 1)
    BY <2>1
  <2>4. f[k - 1] \in R /\ G[<<k, f[k - 1]>>] \in R
    BY <2>1
  <2>5. g \in [0..k -> R]
    BY <2>3, <2>4
  <2>6. g[0] = base
    BY <2>1, <2>2 DEF Follows
  <2>7. ASSUME NEW i \in 1..k PROVE g[i] = G[<<i, g[i - 1]>>]
    <3>1. i - 1 \in 0..k /\ i - 1 # k /\ g[i - 1] = f[i - 1]
      BY <2>1
    <3>2. CASE i = k
      BY <3>1, <3>2
    <3>3. CASE i # k
      <4>1. i \in 1..(k - 1) /\ g[i] = f[i]
        BY <2>1, <3>3
      <4> QED BY <2>2, <3>1, <4>1 DEF Follows
    <3> QED BY <3>2, <3>3
  <2> HIDE DEF g
  <2>8. Follows(g, k, base, G)
    BY <2>6, <2>7 DEF Follows
  <2> QED BY <2>5, <2>8
<1>3. T = {}
  <2> HIDE DEF T
  <2>1. T \in SUBSET (0..n)
    BY DEF T
  <2> QED BY <1>1, <1>2, <2>1, Upward
<1> QED BY <1>3

-----------------------------------------------------------------------------
(* Folds from the left, as the community modules define them.               *)
LEMMA Greatest ==
  ASSUME NEW n \in Nat, NEW s \in SUBSET (1..n), s # {}
  PROVE  Max(s) \in s /\ \A y \in s : Max(s) >= y
<1> DEFINE T == {n - x : x \in s}
<1>1. T \in SUBSET Nat /\ T # {}
  <2>1. \A x \in s : n - x \in Nat
    OBVIOUS
  <2> QED BY <2>1
<1>2. PICK least \in T : \A y \in T : least <= y
  <2> HIDE DEF T
  <2> QED BY <1>1, Least
<1>3. PICK x \in s : least = n - x
  OBVIOUS
<1>4. \A y \in s : x >= y
  <2>1. SUFFICES ASSUME NEW y \in s PROVE x >= y
    OBVIOUS
  <2>2. n - y \in T
    OBVIOUS
  <2>3. n - x <= n - y
    BY <1>2, <1>3, <2>2
  <2> QED BY <2>3
<1>5. \E m \in s : \A y \in s : m >= y
  BY <1>4
<1> QED BY <1>5, Zenon DEF Max

LEMMA MaxOfInterval ==
  ASSUME NEW i \in Nat \ {0}
  PROVE  Max(1..i) = i /\ (1..i) \ {i} = 1..(i - 1)
<1>1. 1..i \in SUBSET (1..i) /\ i \in 1..i
  OBVIOUS
<1>2. Max(1..i) \in 1..i /\ \A y \in 1..i : Max(1..i) >= y
  BY <1>1, Greatest
<1>3. PICK x \in 1..i : x = Max(1..i)
  BY <1>2
<1>4. x >= i
  BY <1>1, <1>2, <1>3
<1> QED BY <1>3, <1>4

FoldsLeft(f, I, base, G) ==
  \A s \in SUBSET I : f[s] = IF s = {} THEN base ELSE G[<<Max(s), f[s \ {Max(s)}]>>]

(* The elements of s in turn, and no others.                                *)
LEMMA FoldLeftExists ==
  ASSUME NEW n \in Nat, NEW I, I = 1..n, NEW R, NEW base \in R, NEW G \in [I \X R -> R]
  PROVE  \E f \in [SUBSET I -> R] : FoldsLeft(f, I, base, G)
<1> DEFINE Takes(h, s) ==
             /\ h \in [0..n -> R] /\ h[0] = base
             /\ \A i \in 1..n : h[i] = IF i \in s THEN G[<<i, h[i - 1]>>] ELSE h[i - 1]
           H == [s \in SUBSET I |-> CHOOSE h : Takes(h, s)]
           f == [s \in SUBSET I |-> H[s][n]]
<1>1. ASSUME NEW s \in SUBSET I PROVE Takes(H[s], s)
  <2> DEFINE K == [p \in (1..n) \X R |-> IF p[1] \in s THEN G[p] ELSE p[2]]
  <2>1. K \in [(1..n) \X R -> R]
    OBVIOUS
  <2>2. PICK h \in [0..n -> R] : Follows(h, n, base, K)
    <3> HIDE DEF K
    <3> QED BY <2>1, Iterated
  <2>3. ASSUME NEW i \in 1..n
        PROVE  h[i] = IF i \in s THEN G[<<i, h[i - 1]>>] ELSE h[i - 1]
    <3>1. h[i] = K[<<i, h[i - 1]>>] /\ i - 1 \in 0..n
      <4> HIDE DEF K
      <4> QED BY <2>2 DEF Follows
    <3>2. <<i, h[i - 1]>> \in (1..n) \X R
      BY <3>1
    <3> QED BY <3>1, <3>2
  <2>4. Takes(h, s)
    BY <2>2, <2>3 DEF Follows
  <2>5. H[s] = CHOOSE g : Takes(g, s)
    OBVIOUS
  <2> HIDE DEF Takes
  <2> QED BY <2>4, <2>5
<1>2. \A s \in SUBSET I : f[s] = H[s][n]
  OBVIOUS
<1>3. f \in [SUBSET I -> R]
  <2> HIDE DEF H
  <2>1. \A s \in SUBSET I : H[s][n] \in R
    BY <1>1
  <2> QED BY <2>1
<1> HIDE DEF H, f
<1>4. ASSUME NEW s \in SUBSET I, s = {} PROVE f[s] = base
  <2>1. PICK a : a = H[s] /\ Takes(a, s)
    BY <1>1
  <2> DEFINE T == {i \in 0..n : a[i] # base}
  <2>2. 0 \notin T
    BY <2>1
  <2>3. ASSUME NEW i \in T PROVE i - 1 \in T
    <3>1. i \in 1..n /\ i - 1 \in 0..n /\ a[i] # base
      BY <2>2
    <3>2. a[i - 1] # base
      BY <1>4, <2>1, <3>1
    <3> QED BY <3>1, <3>2
  <2>4. T = {}
    <3> HIDE DEF T, Takes
    <3>1. T \in SUBSET (0..n)
      BY DEF T
    <3> QED BY <2>2, <2>3, <3>1, Upward
  <2>5. a[n] = base
    BY <2>4
  <2> QED BY <1>2, <2>1, <2>5
<1>5. ASSUME NEW s \in SUBSET I, s # {} PROVE f[s] = G[<<Max(s), f[s \ {Max(s)}]>>]
  <2>1. PICK m \in s : m = Max(s) /\ (\A y \in s : m >= y) /\ m \in 1..n
    BY <1>5, Greatest
  <2>2. PICK t \in SUBSET I : t = s \ {m}
    OBVIOUS
  <2>3. PICK a, b : a = H[s] /\ b = H[t]
    OBVIOUS
  <2>4. Takes(a, s) /\ Takes(b, t)
    BY <1>1, <2>3
  <2>5. \A i \in 0..n : i < m => a[i] = b[i]
    <3> DEFINE T == {i \in 0..n : i < m /\ a[i] # b[i]}
    <3>1. 0 \notin T
      BY <2>4
    <3>2. ASSUME NEW i \in T PROVE i - 1 \in T
      <4>1. i \in 1..n /\ i - 1 \in 0..n /\ i < m /\ a[i] # b[i] /\ (i \in s <=> i \in t)
        BY <2>1, <2>2, <3>1
      <4>2. a[i - 1] # b[i - 1]
        BY <2>4, <4>1
      <4> QED BY <2>1, <4>1, <4>2
    <3>3. T = {}
      <4> HIDE DEF T, Takes
      <4>1. T \in SUBSET (0..n)
        BY DEF T
      <4> QED BY <3>1, <3>2, <4>1, Upward
    <3> QED BY <3>3
  <2>6. \A i \in 0..n : i >= m => a[i] = a[m]
    <3> DEFINE T == {i \in 0..n : i >= m /\ a[i] # a[m]}
    <3>1. 0 \notin T
      BY <2>1
    <3>2. ASSUME NEW i \in T PROVE i - 1 \in T
      <4>1. i \in 1..n /\ i - 1 \in 0..n /\ i > m /\ i \notin s /\ i - 1 >= m /\ a[i] # a[m]
        BY <2>1, <3>1
      <4>2. a[i - 1] # a[m]
        BY <2>4, <4>1
      <4> QED BY <4>1, <4>2
    <3>3. T = {}
      <4> HIDE DEF T, Takes
      <4>1. T \in SUBSET (0..n)
        BY DEF T
      <4> QED BY <3>1, <3>2, <4>1, Upward
    <3> QED BY <3>3
  <2>7. \A i \in 0..n : i >= m - 1 => b[i] = b[m - 1]
    <3> DEFINE T == {i \in 0..n : i >= m - 1 /\ b[i] # b[m - 1]}
    <3>1. 0 \notin T
      BY <2>1
    <3>2. ASSUME NEW i \in T PROVE i - 1 \in T
      <4>1. i \in 1..n /\ i - 1 \in 0..n /\ i > m - 1 /\ i \notin t /\ i - 1 >= m - 1 /\ b[i] # b[m - 1]
        BY <2>1, <2>2, <3>1
      <4>2. b[i - 1] # b[m - 1]
        BY <2>4, <4>1
      <4> QED BY <4>1, <4>2
    <3>3. T = {}
      <4> HIDE DEF T, Takes
      <4>1. T \in SUBSET (0..n)
        BY DEF T
      <4> QED BY <3>1, <3>2, <4>1, Upward
    <3> QED BY <3>3
  <2>8. a[n] = G[<<m, b[m - 1]>>] /\ b[n] = b[m - 1]
    <3>1. a[n] = a[m] /\ b[n] = b[m - 1] /\ a[m - 1] = b[m - 1]
      <4> HIDE DEF Takes
      <4> QED BY <2>1, <2>5, <2>6, <2>7
    <3>2. a[m] = G[<<m, a[m - 1]>>]
      BY <2>1, <2>4
    <3> QED BY <3>1, <3>2
  <2> HIDE DEF Takes
  <2> QED BY <1>2, <2>1, <2>2, <2>3, <2>8
<1>6. FoldsLeft(f, I, base, G)
  BY <1>4, <1>5 DEF FoldsLeft
<1> QED BY <1>3, <1>6

-----------------------------------------------------------------------------
(* A sum is reached one element after the other.                            *)
Total(s) == FoldLeft(+, 0, s)

Adds(t, n, s) == t[0] = 0 /\ t[n] = Total(s) /\ \A i \in 1..n : t[i] = t[i - 1] + s[i]

LEMMA TotalAdds ==
  ASSUME NEW n \in Nat, NEW s \in [1..n -> Nat]
  PROVE  \E t \in [0..n -> Nat] : Adds(t, n, s)
<1> DEFINE I == 1..n
           E(f) == f = [u \in SUBSET DOMAIN s |->
                          IF u = {} THEN 0 ELSE f[u \ {Max(u)}] + s[Max(u)]]
           G == [p \in I \X Nat |-> p[2] + s[p[1]]]
<1>1. \E f : E(f)
  <2>1. G \in [I \X Nat -> Nat]
    OBVIOUS
  <2>2. PICK f \in [SUBSET I -> Nat] : FoldsLeft(f, I, 0, G)
    <3> HIDE DEF G
    <3> QED BY <2>1, FoldLeftExists
  <2>3. ASSUME NEW u \in SUBSET I
        PROVE  f[u] = IF u = {} THEN 0 ELSE f[u \ {Max(u)}] + s[Max(u)]
    <3>1. CASE u # {}
      <4>1. Max(u) \in I /\ f[u \ {Max(u)}] \in Nat
        BY <3>1, Greatest
      <4>2. f[u] = G[<<Max(u), f[u \ {Max(u)}]>>]
        <5> HIDE DEF G
        <5> QED BY <2>2, <3>1 DEF FoldsLeft
      <4> QED BY <3>1, <4>1, <4>2
    <3> QED BY <2>2, <3>1 DEF FoldsLeft
  <2>4. DOMAIN s = I
    OBVIOUS
  <2> QED BY <2>3, <2>4
<1>2. PICK f : E(f) /\ Total(s) = f[DOMAIN s]
  <2>1. E(CHOOSE f : E(f))
    <3> HIDE DEF E
    <3> QED BY <1>1
  <2> QED BY <2>1, Zenon DEF Total, FoldLeft, MapThenFoldSet
<1> DEFINE t == [i \in 0..n |-> f[1..i]]
<1>3. t[0] = 0 /\ t[n] = Total(s)
  <2>1. 1..0 = {} /\ DOMAIN s = 1..n
    OBVIOUS
  <2>2. f[{}] = 0
    BY <1>2
  <2>3. t[0] = f[1..0] /\ t[n] = f[1..n]
    OBVIOUS
  <2> HIDE DEF t, E
  <2> QED BY <1>2, <2>1, <2>2, <2>3
<1>4. ASSUME NEW i \in 1..n PROVE t[i] = t[i - 1] + s[i]
  <2>1. 1..i \in SUBSET DOMAIN s /\ 1..i # {} /\ i \in Nat \ {0} /\ i - 1 \in 0..n /\ i \in 0..n
    OBVIOUS
  <2>2. f[1..i] = f[(1..i) \ {Max(1..i)}] + s[Max(1..i)]
    BY <1>2, <2>1
  <2>3. f[1..i] = f[1..(i - 1)] + s[i]
    BY <2>1, <2>2, MaxOfInterval
  <2> QED BY <2>1, <2>3
<1> HIDE DEF t, E
<1>5. \A i \in 0..n : t[i] \in Nat
  <2> DEFINE T == {i \in 0..n : t[i] \notin Nat}
  <2>1. 0 \notin T
    BY <1>3
  <2>2. ASSUME NEW i \in T PROVE i - 1 \in T
    <3>1. i \in 1..n /\ i - 1 \in 0..n /\ t[i] \notin Nat
      BY <2>1
    <3>2. t[i] = t[i - 1] + s[i] /\ s[i] \in Nat
      BY <1>4, <3>1
    <3> QED BY <3>1, <3>2
  <2>3. T = {}
    <3> HIDE DEF T
    <3>1. T \in SUBSET (0..n)
      BY DEF T
    <3> QED BY <2>1, <2>2, <3>1, Upward
  <2> QED BY <2>3
<1>6. t \in [0..n -> Nat]
  BY <1>5 DEF t
<1>7. Adds(t, n, s)
  BY <1>3, <1>4 DEF Adds
<1> QED BY <1>6, <1>7

(* So is a list of lists made flat.                                         *)
Joins(g, n, s) == g[0] = <<>> /\ g[n] = FlattenSeq(s) /\ \A i \in 1..n : g[i] = g[i - 1] \o s[i]

LEMMA FlattenJoins ==
  ASSUME NEW S, NEW n \in Nat, NEW s \in Seq(Seq(S)), Len(s) = n
  PROVE  \E g \in [0..n -> Seq(S)] : Joins(g, n, s)
<1> DEFINE R == Seq(S)
           G == [p \in (1..n) \X R |-> p[2] \o s[p[1]]]
           E(f) == f = [i \in 1..Len(s) |-> IF i = 1 THEN s[i] ELSE f[i - 1] \o s[i]]
<1>1. <<>> \in R /\ \A i \in 1..n : s[i] \in R
  BY EmptySeq, ElementOfSeq
<1>2. PICK g \in [0..n -> R] : Follows(g, n, <<>>, G)
  <2>1. ASSUME NEW p \in (1..n) \X R PROVE p[2] \o s[p[1]] \in R
    BY <1>1, ConcatProperties
  <2>2. G \in [(1..n) \X R -> R]
    BY <2>1
  <2> HIDE DEF G, R
  <2> QED BY <1>1, <2>2, Iterated
<1>3. g[0] = <<>> /\ \A i \in 1..n : g[i] = g[i - 1] \o s[i]
  <2>1. ASSUME NEW i \in 1..n PROVE g[i] = g[i - 1] \o s[i]
    <3>1. g[i] = G[<<i, g[i - 1]>>]
      <4> HIDE DEF G
      <4> QED BY <1>2 DEF Follows
    <3>2. i - 1 \in 0..n /\ g[i - 1] \in R
      BY <1>2
    <3> QED BY <3>1, <3>2
  <2> QED BY <1>2, <2>1 DEF Follows
<1>4. CASE n = 0
  <2>1. FlattenSeq(s) = <<>>
    BY <1>4, LenProperties DEF FlattenSeq
  <2> QED BY <1>2, <1>3, <1>4, <2>1 DEF Joins
<1>5. CASE n # 0
  <2>1. \E f : E(f)
    <3> DEFINE f == [i \in 1..n |-> g[i]]
    <3>1. ASSUME NEW i \in 1..n PROVE f[i] = IF i = 1 THEN s[i] ELSE f[i - 1] \o s[i]
      <4>1. g[i] = g[i - 1] \o s[i] /\ f[i] = g[i]
        BY <1>3
      <4>2. CASE i = 1
        <5>1. g[i - 1] = <<>> /\ s[i] \in Seq(S)
          BY <1>1, <1>3, <4>2
        <5>2. g[i - 1] \o s[i] = s[i]
          BY <5>1, ConcatEmptySeq
        <5> QED BY <4>1, <4>2, <5>2
      <4>3. CASE i # 1
        <5>1. i - 1 \in 1..n
          BY <4>3
        <5>2. f[i - 1] = g[i - 1]
          BY <5>1
        <5> QED BY <4>1, <4>3, <5>2
      <4> QED BY <4>2, <4>3
    <3>2. E(f)
      BY <3>1
    <3> QED BY <3>2
  <2>2. PICK f : E(f) /\ FlattenSeq(s) = f[Len(s)]
    <3>1. E(CHOOSE f : E(f))
      <4> HIDE DEF E
      <4> QED BY <2>1
    <3>2. FlattenSeq(s) = (CHOOSE f : E(f))[Len(s)]
      BY <1>5, Zenon DEF FlattenSeq
    <3> QED BY <3>1, <3>2, Zenon
  <2>3. \A i \in 1..n : f[i] = IF i = 1 THEN s[i] ELSE f[i - 1] \o s[i]
    BY <2>2
  <2> DEFINE T == {i \in 0..n : i # 0 /\ f[i] # g[i]}
  <2>4. 0 \notin T
    OBVIOUS
  <2>5. ASSUME NEW i \in T PROVE i - 1 \in T
    <3>1. i \in 1..n /\ i - 1 \in 0..n /\ f[i] # g[i]
      OBVIOUS
    <3>2. i # 1
      <4> SUFFICES ASSUME i = 1 PROVE FALSE
        OBVIOUS
      <4>1. g[i - 1] = <<>> /\ s[i] \in Seq(S) /\ f[i] = s[i] /\ g[i] = g[i - 1] \o s[i]
        <5> HIDE DEF E, T
        <5>1. i - 1 = 0 /\ i \in 1..n
          BY <3>1
        <5>2. f[i] = s[i]
          BY <2>3, <5>1
        <5>3. s[i] \in Seq(S)
          BY <1>1, <5>1
        <5> QED BY <1>3, <5>1, <5>2, <5>3
      <4>2. g[i - 1] \o s[i] = s[i]
        BY <4>1, ConcatEmptySeq
      <4> QED BY <3>1, <4>1, <4>2
    <3>3. f[i] = f[i - 1] \o s[i] /\ g[i] = g[i - 1] \o s[i]
      <4> HIDE DEF E
      <4> QED BY <1>3, <2>3, <3>1, <3>2
    <3>4. f[i - 1] # g[i - 1] /\ i - 1 # 0
      <4> HIDE DEF E, T
      <4>1. i - 1 # 0
        BY <3>1, <3>2
      <4>2. f[i - 1] = g[i - 1] => f[i - 1] \o s[i] = g[i - 1] \o s[i]
        OBVIOUS
      <4> QED BY <3>1, <3>3, <4>1, <4>2, Zenon
    <3> QED BY <3>1, <3>4
  <2>6. T = {}
    <3> HIDE DEF T, E
    <3>1. T \in SUBSET (0..n)
      BY DEF T
    <3> QED BY <2>4, <2>5, <3>1, Upward
  <2>7. g[n] = FlattenSeq(s)
    <3>1. n \in 0..n /\ n \notin T
      <4> HIDE DEF T
      <4> QED BY <2>6
    <3>2. f[n] = g[n]
      <4> HIDE DEF E
      <4> QED BY <1>5, <3>1
    <3> HIDE DEF E, T
    <3> QED BY <2>2, <3>2
  <2>8. Joins(g, n, s)
    BY <1>3, <2>7 DEF Joins
  <2> QED BY <1>2, <2>8
<1> QED BY <1>4, <1>5

-----------------------------------------------------------------------------
(* Several serdeables, one after the other.                                 *)
LEMMA AppendToPrefix ==
  ASSUME NEW A, NEW v \in Seq(A), NEW k \in 1..Len(v)
  PROVE  Append(SubSeq(v, 1, k - 1), v[k]) = SubSeq(v, 1, k)
<1>1. SubSeq(v, 1, k) = SubSeq(v, 1, k - 1) \o <<v[k]>>
  <2>1. 1 \in 1..Len(v) /\ k \in 1..Len(v)
    BY LenProperties
  <2> QED BY <2>1, SubSeqRecursiveSecond
<1>2. SubSeq(v, 1, k - 1) \in Seq(A) /\ v[k] \in A
  <2>1. \A i \in 1..(k - 1) : v[i] \in A
    BY LenProperties, ElementOfSeq
  <2>2. 1 \in Int /\ k - 1 \in Int
    OBVIOUS
  <2> QED BY <2>1, <2>2, SubSeqProperties, ElementOfSeq
<1> QED BY <1>1, <1>2, AppendIsConcat

(* What is still to be read after each element.                             *)
Leaves(h, n, b, rest) == h[n] = rest /\ \A i \in 1..n : h[i - 1] = b[i] \o h[i]

LEMMA LeavesWhole ==
  ASSUME NEW n \in Nat, NEW b \in Seq(Bytes), Len(b) = n, NEW rest \in Bytes
  PROVE  \E h \in [0..n -> Bytes] : Leaves(h, n, b, rest) /\ h[0] = FlattenSeq(b) \o rest
<1> DEFINE G == [p \in (1..n) \X Bytes |-> b[n - p[1] + 1] \o p[2]]
<1>1. \A i \in 1..n : b[i] \in Bytes
  BY ElementOfSeq
<1>2. PICK k \in [0..n -> Bytes] : Follows(k, n, rest, G)
  <2>1. ASSUME NEW p \in (1..n) \X Bytes PROVE b[n - p[1] + 1] \o p[2] \in Bytes
    <3>1. n - p[1] + 1 \in 1..n /\ p[2] \in Bytes
      OBVIOUS
    <3> QED BY <1>1, <3>1, BytesJoin
  <2>2. G \in [(1..n) \X Bytes -> Bytes]
    BY <2>1
  <2> HIDE DEF G
  <2> QED BY <2>2, Iterated
<1>3. PICK h \in [0..n -> Bytes] : \A i \in 0..n : h[i] = k[n - i]
  <2>1. \A i \in 0..n : n - i \in 0..n
    OBVIOUS
  <2>2. [i \in 0..n |-> k[n - i]] \in [0..n -> Bytes]
    BY <2>1
  <2> QED BY <2>2
<1>4. ASSUME NEW i \in 1..n PROVE h[i - 1] = b[i] \o h[i]
  <2>1. n - (i - 1) \in 1..n /\ i - 1 \in 0..n /\ i \in 0..n /\ n - (i - 1) - 1 = n - i /\ n - i \in 0..n
    OBVIOUS
  <2>2. h[i - 1] = k[n - (i - 1)] /\ h[i] = k[n - i]
    BY <1>3, <2>1
  <2>3. k[n - (i - 1)] = G[<<n - (i - 1), k[n - i]>>]
    <3> HIDE DEF G
    <3> QED BY <1>2, <2>1 DEF Follows
  <2>4. n - (n - (i - 1)) + 1 = i /\ <<n - (i - 1), k[n - i]>> \in (1..n) \X Bytes
    BY <2>1
  <2> QED BY <2>2, <2>3, <2>4
<1>5. h[n] = rest
  <2>1. n \in 0..n /\ n - n = 0
    OBVIOUS
  <2>2. k[0] = rest
    BY <1>2 DEF Follows
  <2> QED BY <1>3, <2>1, <2>2
<1> HIDE DEF G
<1>6. PICK g \in [0..n -> Seq(Byte)] : Joins(g, n, b)
  BY FlattenJoins DEF Bytes
<1>7. g \in [0..n -> Bytes]
  BY <1>6 DEF Bytes
<1> DEFINE T == {i \in 0..n : g[i] \o h[i] # h[0]}
<1>8. 0 \notin T
  BY <1>6, BytesJoin DEF Joins
<1>9. ASSUME NEW i \in T PROVE i - 1 \in T
  <2>1. i # 0
    <3> HIDE DEF T
    <3> QED BY <1>8
  <2>2. i \in 1..n /\ i - 1 \in 0..n /\ g[i] \o h[i] # h[0] /\ i \in 0..n
    BY <2>1
  <2>3. g[i] = g[i - 1] \o b[i] /\ h[i - 1] = b[i] \o h[i]
    BY <1>4, <1>6, <2>2 DEF Joins
  <2>4. (g[i - 1] \o b[i]) \o h[i] = g[i - 1] \o (b[i] \o h[i])
    <3>1. g[i - 1] \in Bytes /\ b[i] \in Bytes /\ h[i] \in Bytes
      BY <1>1, <1>7, <2>2
    <3> QED BY <3>1, BytesJoin
  <2>5. g[i - 1] \o h[i - 1] = g[i] \o h[i]
    BY <2>3, <2>4, Zenon
  <2> QED BY <2>2, <2>5
<1>10. T = {}
  <2> HIDE DEF T
  <2>1. T \in SUBSET (0..n)
    BY DEF T
  <2> QED BY <1>8, <1>9, <2>1, Upward
<1>11. g[n] \o h[n] = h[0]
  <2>1. n \in 0..n /\ n \notin T
    <3> HIDE DEF T
    <3> QED BY <1>10
  <2> QED BY <2>1
<1>12. Leaves(h, n, b, rest)
  BY <1>4, <1>5 DEF Leaves
<1>13. g[n] = FlattenSeq(b)
  BY <1>6 DEF Joins
<1> QED BY <1>5, <1>11, <1>12, <1>13

LEMMA DecodeEachOf ==
  ASSUME NEW n \in Nat, NEW R, Len(R) = n, NEW A, NEW v \in Seq(A), Len(v) = n,
         NEW b \in Seq(Bytes), Len(b) = n, NEW rest \in Bytes,
         \A i \in 1..n : \A x \in Bytes : (i < n \/ x = rest) => Decode(R[i], b[i] \o x) = Ok(v[i], x)
  PROVE  DecodeEach(R, FlattenSeq(b) \o rest) = Ok(v, rest)
<1>1. PICK bytes : bytes = FlattenSeq(b) \o rest
  OBVIOUS
<1>2. PICK h \in [0..n -> Bytes] : Leaves(h, n, b, rest) /\ h[0] = bytes
  BY <1>1, LeavesWhole
<1> DEFINE Step(x, k) ==
             AndThen(x, LAMBDA values, unread :
               AndThen(Decode(R[k], unread), LAMBDA value, left : Ok(Append(values, value), left)))
           E(f) == f = [k \in 0..Len(R) |-> IF k = 0 THEN Ok(<<>>, bytes) ELSE Step(f[k - 1], k)]
           Upto(k) == Ok(SubSeq(v, 1, k), h[k])
<1>3. ASSUME NEW k \in 1..n PROVE Step(Upto(k - 1), k) = Upto(k)
  <2>1. h[k - 1] = b[k] \o h[k] /\ h[k] \in Bytes /\ (k < n \/ h[k] = rest)
    BY <1>2 DEF Leaves
  <2>2. Decode(R[k], h[k - 1]) = Ok(v[k], h[k])
    BY <2>1
  <2>3. Step(Upto(k - 1), k) = Ok(Append(SubSeq(v, 1, k - 1), v[k]), h[k])
    <3>1. PICK x, y, z : x = SubSeq(v, 1, k - 1) /\ y = h[k - 1] /\ z = Ok(v[k], h[k])
      OBVIOUS
    <3>2. Decode(R[k], y) = z /\ z.is = "ok" /\ z.value = v[k] /\ z.rest = h[k]
      BY <2>2, <3>1 DEF Ok
    <3>3. Step(Ok(x, y), k) = Ok(Append(x, v[k]), h[k])
      BY <3>2 DEF AndThen, Ok
    <3> QED BY <3>1, <3>3
  <2> QED BY <2>3, AppendToPrefix
<1>4. Upto(0) = Ok(<<>>, bytes)
  <2>1. SubSeq(v, 1, 0) = <<>>
    BY SubSeqEmpty
  <2> QED BY <1>2, <2>1
<1>5. Upto(n) = Ok(v, rest)
  <2>1. SubSeq(v, 1, n) = v
    BY SubSeqFull
  <2> QED BY <1>2, <2>1 DEF Leaves
<1> HIDE DEF Upto, Step
<1>6. \E f : E(f)
  <2> DEFINE f == [k \in 0..n |-> Upto(k)]
  <2>1. ASSUME NEW k \in 0..n PROVE f[k] = IF k = 0 THEN Ok(<<>>, bytes) ELSE Step(f[k - 1], k)
    <3>1. CASE k = 0
      BY <1>4, <3>1
    <3>2. CASE k # 0
      <4>1. k \in 1..n /\ k - 1 \in 0..n
        BY <3>2
      <4>2. f[k] = Upto(k) /\ f[k - 1] = Upto(k - 1)
        BY <4>1
      <4> HIDE DEF f
      <4> QED BY <1>3, <3>2, <4>1, <4>2
    <3> QED BY <3>1, <3>2
  <2> QED BY <2>1
<1>7. PICK f : E(f) /\ DecodeEach(R, bytes) = f[Len(R)]
  <2>1. E(CHOOSE f : E(f))
    <3> HIDE DEF E
    <3> QED BY <1>6
  <2> QED BY <2>1, Zenon DEF DecodeEach, Step
<1>8. \A k \in 0..n : f[k] = IF k = 0 THEN Ok(<<>>, bytes) ELSE Step(f[k - 1], k)
  BY <1>7
<1> DEFINE T == {k \in 0..n : f[k] # Upto(k)}
<1> HIDE DEF E
<1>9. 0 \notin T
  BY <1>4, <1>8
<1>10. ASSUME NEW k \in T PROVE k - 1 \in T
  <2>1. k \in 1..n /\ k - 1 \in 0..n /\ f[k] # Upto(k) /\ k # 0 /\ k \in 0..n
    BY <1>9
  <2>2. f[k] = Step(f[k - 1], k) /\ Upto(k) = Step(Upto(k - 1), k)
    BY <1>3, <1>8, <2>1
  <2>3. f[k - 1] # Upto(k - 1)
    <3> SUFFICES ASSUME f[k - 1] = Upto(k - 1) PROVE FALSE
      OBVIOUS
    <3>1. f[k] = Upto(k)
      BY <2>2, Zenon
    <3> QED BY <2>1, <3>1
  <2> QED BY <2>1, <2>3
<1>11. T = {}
  <2> HIDE DEF T
  <2>1. T \in SUBSET (0..n)
    BY DEF T
  <2> QED BY <1>9, <1>10, <2>1, Upward
<1>12. f[n] = Upto(n)
  <2>1. n \in 0..n /\ n \notin T
    <3> HIDE DEF T
    <3> QED BY <1>11
  <2> QED BY <2>1
<1> QED BY <1>1, <1>5, <1>7, <1>12

(* The length of lists made flat is the total of their lengths.             *)
Measures(z, n, b) == \A i \in 1..n : Len(b[i]) = z[i]

LEMMA FlattenLength ==
  ASSUME NEW S, NEW n \in Nat, NEW b \in Seq(Seq(S)), Len(b) = n, NEW z \in [1..n -> Nat],
         Measures(z, n, b)
  PROVE  FlattenSeq(b) \in Seq(S) /\ Len(FlattenSeq(b)) = Total(z) /\ Total(z) \in Nat
<1>1. PICK g \in [0..n -> Seq(S)] : Joins(g, n, b)
  BY FlattenJoins
<1>2. PICK t \in [0..n -> Nat] : Adds(t, n, z)
  BY TotalAdds
<1> DEFINE T == {i \in 0..n : Len(g[i]) # t[i]}
<1>3. 0 \notin T
  BY <1>1, <1>2, EmptySeq DEF Joins, Adds
<1>4. ASSUME NEW i \in T PROVE i - 1 \in T
  <2>1. i # 0
    <3> HIDE DEF T
    <3> QED BY <1>3
  <2>2. i \in 1..n /\ i - 1 \in 0..n /\ Len(g[i]) # t[i] /\ i \in 0..n
    BY <2>1
  <2>3. g[i] = g[i - 1] \o b[i] /\ t[i] = t[i - 1] + z[i] /\ Len(b[i]) = z[i]
    BY <1>1, <1>2, <2>2 DEF Joins, Adds, Measures
  <2>4. g[i - 1] \in Seq(S) /\ b[i] \in Seq(S)
    BY <2>2, ElementOfSeq
  <2>5. Len(g[i]) = Len(g[i - 1]) + z[i]
    <3>1. PICK x \in Seq(S), y \in Seq(S) : x = g[i - 1] /\ y = b[i]
      BY <2>4
    <3>2. Len(x \o y) = Len(x) + Len(y)
      BY ConcatProperties
    <3> QED BY <2>3, <3>1, <3>2
  <2>6. Len(g[i - 1]) # t[i - 1]
    BY <2>2, <2>3, <2>5
  <2> QED BY <2>2, <2>6
<1>5. T = {}
  <2> HIDE DEF T
  <2>1. T \in SUBSET (0..n)
    BY DEF T
  <2> QED BY <1>3, <1>4, <2>1, Upward
<1>6. n \in 0..n /\ n \notin T
  <2> HIDE DEF T
  <2> QED BY <1>5
<1> QED BY <1>1, <1>2, <1>6 DEF Joins, Adds

Parts(W, R, n, Rests) ==
  /\ DOMAIN W = 1..n /\ Len(W) = n /\ DOMAIN R = 1..n /\ Len(R) = n
  /\ \A i \in 1..n : Carries(W[i], R[i], IF i = n THEN Rests ELSE Bytes)

Fills(v, n, W) == Len(v) = n /\ \A i \in 1..n : v[i] \in W[i].values

LEMMA EachOf ==
  ASSUME NEW n \in Nat, NEW W, NEW R, NEW Rests \in SUBSET Bytes, Parts(W, R, n, Rests),
         NEW A, NEW v \in Seq(A), Fills(v, n, W)
  PROVE  /\ EncodeEach(W, v) \in Bytes /\ SizeOfEach(W, v) \in Nat
         /\ Len(EncodeEach(W, v)) = SizeOfEach(W, v)
         /\ \A rest \in Rests : DecodeEach(R, EncodeEach(W, v) \o rest) = Ok(v, rest)
<1> DEFINE b == [i \in 1..n |-> Encode(W[i], v[i])]
           z == [i \in 1..n |-> SerializedLength(W[i], v[i])]
<1>1. ASSUME NEW i \in 1..n
      PROVE  /\ Encode(W[i], v[i]) \in Bytes /\ SerializedLength(W[i], v[i]) \in Nat
             /\ Len(Encode(W[i], v[i])) = SerializedLength(W[i], v[i])
  BY DEF Parts, Fills, Carries, Writes, Encode, SerializedLength
<1>2. b \in Seq(Bytes) /\ Len(b) = n /\ z \in [1..n -> Nat] /\ \A i \in 1..n : Len(b[i]) = z[i]
  BY <1>1
<1>3. EncodeEach(W, v) = FlattenSeq(b) /\ SizeOfEach(W, v) = Total(z)
  BY DEF EncodeEach, SizeOfEach, Total, Parts
<1>4. ASSUME NEW rest \in Rests PROVE DecodeEach(R, FlattenSeq(b) \o rest) = Ok(v, rest)
  <2>1. ASSUME NEW i \in 1..n, NEW x \in Bytes, i < n \/ x = rest
        PROVE  Decode(R[i], b[i] \o x) = Ok(v[i], x)
    <3>1. x \in IF i = n THEN Rests ELSE Bytes
      BY <2>1
    <3>2. b[i] = W[i].bytes[v[i]]
      BY DEF Encode
    <3>3. v[i] \in W[i].values /\ ReadsBack(W[i], R[i], IF i = n THEN Rests ELSE Bytes)
      BY DEF Parts, Fills, Carries
    <3> QED BY <3>1, <3>2, <3>3 DEF ReadsBack, Decode
  <2>2. Len(R) = n /\ Len(v) = n
    BY DEF Parts, Fills
  <2> HIDE DEF b
  <2> QED BY <1>2, <2>1, <2>2, DecodeEachOf
<1> HIDE DEF b, z
<1>5. FlattenSeq(b) \in Bytes /\ Len(FlattenSeq(b)) = Total(z) /\ Total(z) \in Nat
  <2>1. PICK S : S = Byte
    OBVIOUS
  <2>2. b \in Seq(Seq(S)) /\ Len(b) = n /\ z \in [1..n -> Nat] /\ Measures(z, n, b)
    BY <1>2, <2>1 DEF Bytes, Measures
  <2>3. /\ FlattenSeq(b) \in Seq(S) /\ Len(FlattenSeq(b)) = Total(z) /\ Total(z) \in Nat
    BY <2>2, FlattenLength
  <2> QED BY <2>1, <2>3 DEF Bytes
<1> QED BY <1>3, <1>4, <1>5

-----------------------------------------------------------------------------
(* Tuples.                                                                  *)
LEMMA InProduct ==
  ASSUME NEW S, NEW v \in Product(S), DOMAIN S = 1..Len(S), Len(S) \in {0, 1, 2, 3, 4, 5, 8}
  PROVE  /\ \E A : v \in Seq(A)
         /\ Len(v) = Len(S) /\ \A i \in 1..Len(S) : v[i] \in S[i]
<1> DEFINE n == Len(S)
           Good == (\E A : v \in Seq(A)) /\ Len(v) = n /\ \A i \in 1..n : v[i] \in S[i]
<1>1. ASSUME n = 0 PROVE Good
  BY <1>1 DEF Product
<1>2. ASSUME n = 1 PROVE Good
  BY <1>2 DEF Product
<1>3. ASSUME n = 2 PROVE Good
  <2>1. v \in S[1] \X S[2]
    BY <1>3 DEF Product
  <2>2. PICK a \in S[1], b \in S[2] :
          v = <<a, b>>
    BY <2>1
  <2>3. v \in Seq({a, b}) /\ Len(v) = 2
    BY <2>2
  <2>4. \A i \in 1..2 : v[i] \in S[i]
    BY <2>2
  <2> QED BY <1>3, <2>3, <2>4
<1>4. ASSUME n = 3 PROVE Good
  <2>1. v \in S[1] \X S[2] \X S[3]
    BY <1>4 DEF Product
  <2>2. PICK a \in S[1], b \in S[2], c \in S[3] :
          v = <<a, b, c>>
    BY <2>1
  <2>3. v \in Seq({a, b, c}) /\ Len(v) = 3
    BY <2>2
  <2>4. \A i \in 1..3 : v[i] \in S[i]
    BY <2>2
  <2> QED BY <1>4, <2>3, <2>4
<1>5. ASSUME n = 4 PROVE Good
  <2>1. v \in S[1] \X S[2] \X S[3] \X S[4]
    BY <1>5 DEF Product
  <2>2. PICK a \in S[1], b \in S[2], c \in S[3], d \in S[4] :
          v = <<a, b, c, d>>
    BY <2>1
  <2>3. v \in Seq({a, b, c, d}) /\ Len(v) = 4
    BY <2>2
  <2>4. \A i \in 1..4 : v[i] \in S[i]
    BY <2>2
  <2> QED BY <1>5, <2>3, <2>4
<1>6. ASSUME n = 5 PROVE Good
  <2>1. v \in S[1] \X S[2] \X S[3] \X S[4] \X S[5]
    BY <1>6 DEF Product
  <2>2. PICK a \in S[1], b \in S[2], c \in S[3], d \in S[4], e \in S[5] :
          v = <<a, b, c, d, e>>
    BY <2>1
  <2>3. v \in Seq({a, b, c, d, e}) /\ Len(v) = 5
    BY <2>2
  <2>4. \A i \in 1..5 : v[i] \in S[i]
    BY <2>2
  <2> QED BY <1>6, <2>3, <2>4
<1>7. ASSUME n = 8 PROVE Good
  <2>1. v \in S[1] \X S[2] \X S[3] \X S[4] \X S[5] \X S[6] \X S[7] \X S[8]
    BY <1>7 DEF Product
  <2>2. PICK a \in S[1], b \in S[2], c \in S[3], d \in S[4], e \in S[5], f \in S[6], g \in S[7], h \in S[8] :
          v = <<a, b, c, d, e, f, g, h>>
    BY <2>1
  <2>3. v \in Seq({a, b, c, d, e, f, g, h}) /\ Len(v) = 8
    BY <2>2
  <2>4. \A i \in 1..8 : v[i] \in S[i]
    BY <2>2
  <2> QED BY <1>7, <2>3, <2>4
<1> QED BY <1>1, <1>2, <1>3, <1>4, <1>5, <1>6, <1>7

LEMMA TupleCarries ==
  ASSUME NEW n \in {0, 1, 2, 3, 4, 5, 8}, NEW W, NEW R, NEW Rests \in SUBSET Bytes, Parts(W, R, n, Rests)
  PROVE  Carries(Tuple(W), Tuple(R), Rests)
<1> DEFINE S == [i \in DOMAIN W |-> W[i].values]
<1>1. PICK w, r, V : w = Tuple(W) /\ r = Tuple(R) /\ V = Product(S)
  OBVIOUS
<1>2. /\ w.values = V /\ w.bytes = [v \in V |-> EncodeEach(W, v)] /\ w.size = [v \in V |-> SizeOfEach(W, v)]
      /\ r.read = [bytes \in Bytes |-> DecodeEach(R, bytes)]
  BY <1>1 DEF Tuple, Serdeable
<1>3. ASSUME NEW v \in V
      PROVE  /\ EncodeEach(W, v) \in Bytes /\ SizeOfEach(W, v) \in Nat
             /\ Len(EncodeEach(W, v)) = SizeOfEach(W, v)
             /\ \A rest \in Rests : DecodeEach(R, EncodeEach(W, v) \o rest) = Ok(v, rest)
  <2>1. DOMAIN S = 1..Len(S) /\ Len(S) = n /\ v \in Product(S)
    BY <1>1 DEF Parts
  <2>2. (\E A : v \in Seq(A)) /\ Len(v) = n /\ \A i \in 1..n : v[i] \in S[i]
    <3> HIDE DEF S
    <3> QED BY <2>1, InProduct
  <2>3. PICK A : v \in Seq(A)
    BY <2>2
  <2>4. Fills(v, n, W)
    BY <2>2 DEF Fills, Parts
  <2>5. n \in Nat
    OBVIOUS
  <2> QED BY <2>2, <2>3, <2>4, <2>5, EachOf
<1> HIDE DEF S
<1>4. Writes(w)
  <2>1. w.bytes \in [V -> Bytes]
    BY <1>2, <1>3
  <2>2. w.size \in [V -> Nat]
    BY <1>2, <1>3
  <2>3. \A v \in V : Len(w.bytes[v]) = w.size[v]
    BY <1>2, <1>3
  <2> QED BY <1>2, <2>1, <2>2, <2>3 DEF Writes
<1>5. ASSUME NEW v \in w.values, NEW rest \in Rests
      PROVE  r.read[w.bytes[v] \o rest] = Ok(v, rest)
  <2>1. v \in V /\ w.bytes[v] = EncodeEach(W, v)
    BY <1>2
  <2>2. PICK bytes \in Bytes : bytes = EncodeEach(W, v) \o rest
    BY <1>3, <2>1, BytesJoin
  <2>3. r.read[bytes] = DecodeEach(R, bytes)
    BY <1>2
  <2> QED BY <1>3, <2>1, <2>2, <2>3
<1> QED BY <1>1, <1>4, <1>5 DEF Carries, ReadsBack

LEMMA Tuple0 ==
  ASSUME NEW Rests \in SUBSET Bytes
  PROVE  Carries(Tuple(<<>>), Tuple(<<>>), Rests)
<1>1. PICK W : W = <<>>
  OBVIOUS
<1>2. Parts(W, W, 0, Rests)
  BY <1>1 DEF Parts
<1>3. 0 \in {0, 1, 2, 3, 4, 5, 8}
  OBVIOUS
<1> QED BY <1>1, <1>2, <1>3, TupleCarries

LEMMA Tuple1 ==
  ASSUME NEW a, NEW ar, NEW Rests \in SUBSET Bytes,
         Carries(a, ar, Rests)
  PROVE  Carries(Tuple(<<a>>), Tuple(<<ar>>), Rests)
<1>1. PICK W, R : W = <<a>> /\ R = <<ar>>
  OBVIOUS
<1>2. DOMAIN W = 1..1 /\ Len(W) = 1 /\ DOMAIN R = 1..1 /\ Len(R) = 1
  BY <1>1
<1>3. ASSUME NEW i \in 1..1 PROVE Carries(W[i], R[i], IF i = 1 THEN Rests ELSE Bytes)
  <2>1. i = 1
    OBVIOUS
  <2> QED BY <1>1, <2>1
<1>4. Parts(W, R, 1, Rests)
  BY <1>2, <1>3 DEF Parts
<1>5. 1 \in {0, 1, 2, 3, 4, 5, 8}
  OBVIOUS
<1> QED BY <1>1, <1>4, <1>5, TupleCarries

LEMMA Tuple2 ==
  ASSUME NEW a, NEW ar, NEW b, NEW br, NEW Rests \in SUBSET Bytes,
         Carries(a, ar, Bytes), Carries(b, br, Rests)
  PROVE  Carries(Tuple(<<a, b>>), Tuple(<<ar, br>>), Rests)
<1>1. PICK W, R : W = <<a, b>> /\ R = <<ar, br>>
  OBVIOUS
<1>2. DOMAIN W = 1..2 /\ Len(W) = 2 /\ DOMAIN R = 1..2 /\ Len(R) = 2
  BY <1>1
<1>3. ASSUME NEW i \in 1..2 PROVE Carries(W[i], R[i], IF i = 2 THEN Rests ELSE Bytes)
  <2>1. i = 1 \/ i = 2
    OBVIOUS
  <2> QED BY <1>1, <2>1
<1>4. Parts(W, R, 2, Rests)
  BY <1>2, <1>3 DEF Parts
<1>5. 2 \in {0, 1, 2, 3, 4, 5, 8}
  OBVIOUS
<1> QED BY <1>1, <1>4, <1>5, TupleCarries

LEMMA Tuple3 ==
  ASSUME NEW a, NEW ar, NEW b, NEW br, NEW c, NEW cr, NEW Rests \in SUBSET Bytes,
         Carries(a, ar, Bytes), Carries(b, br, Bytes), Carries(c, cr, Rests)
  PROVE  Carries(Tuple(<<a, b, c>>), Tuple(<<ar, br, cr>>), Rests)
<1>1. PICK W, R : W = <<a, b, c>> /\ R = <<ar, br, cr>>
  OBVIOUS
<1>2. DOMAIN W = 1..3 /\ Len(W) = 3 /\ DOMAIN R = 1..3 /\ Len(R) = 3
  BY <1>1
<1>3. ASSUME NEW i \in 1..3 PROVE Carries(W[i], R[i], IF i = 3 THEN Rests ELSE Bytes)
  <2>1. i = 1 \/ i = 2 \/ i = 3
    OBVIOUS
  <2> QED BY <1>1, <2>1
<1>4. Parts(W, R, 3, Rests)
  BY <1>2, <1>3 DEF Parts
<1>5. 3 \in {0, 1, 2, 3, 4, 5, 8}
  OBVIOUS
<1> QED BY <1>1, <1>4, <1>5, TupleCarries

LEMMA Tuple4 ==
  ASSUME NEW a, NEW ar, NEW b, NEW br, NEW c, NEW cr, NEW d, NEW dr, NEW Rests \in SUBSET Bytes,
         Carries(a, ar, Bytes), Carries(b, br, Bytes), Carries(c, cr, Bytes), Carries(d, dr, Rests)
  PROVE  Carries(Tuple(<<a, b, c, d>>), Tuple(<<ar, br, cr, dr>>), Rests)
<1>1. PICK W, R : W = <<a, b, c, d>> /\ R = <<ar, br, cr, dr>>
  OBVIOUS
<1>2. DOMAIN W = 1..4 /\ Len(W) = 4 /\ DOMAIN R = 1..4 /\ Len(R) = 4
  BY <1>1
<1>3. ASSUME NEW i \in 1..4 PROVE Carries(W[i], R[i], IF i = 4 THEN Rests ELSE Bytes)
  <2>1. i = 1 \/ i = 2 \/ i = 3 \/ i = 4
    OBVIOUS
  <2> QED BY <1>1, <2>1
<1>4. Parts(W, R, 4, Rests)
  BY <1>2, <1>3 DEF Parts
<1>5. 4 \in {0, 1, 2, 3, 4, 5, 8}
  OBVIOUS
<1> QED BY <1>1, <1>4, <1>5, TupleCarries

LEMMA Tuple5 ==
  ASSUME NEW a, NEW ar, NEW b, NEW br, NEW c, NEW cr, NEW d, NEW dr, NEW e, NEW er,
         NEW Rests \in SUBSET Bytes,
         Carries(a, ar, Bytes), Carries(b, br, Bytes), Carries(c, cr, Bytes), Carries(d, dr,
             Bytes), Carries(e, er, Rests)
  PROVE  Carries(Tuple(<<a, b, c, d, e>>), Tuple(<<ar, br, cr, dr, er>>), Rests)
<1>1. PICK W, R : W = <<a, b, c, d, e>> /\ R = <<ar, br, cr, dr, er>>
  OBVIOUS
<1>2. DOMAIN W = 1..5 /\ Len(W) = 5 /\ DOMAIN R = 1..5 /\ Len(R) = 5
  BY <1>1
<1>3. ASSUME NEW i \in 1..5 PROVE Carries(W[i], R[i], IF i = 5 THEN Rests ELSE Bytes)
  <2>1. i = 1 \/ i = 2 \/ i = 3 \/ i = 4 \/ i = 5
    OBVIOUS
  <2> QED BY <1>1, <2>1
<1>4. Parts(W, R, 5, Rests)
  BY <1>2, <1>3 DEF Parts
<1>5. 5 \in {0, 1, 2, 3, 4, 5, 8}
  OBVIOUS
<1> QED BY <1>1, <1>4, <1>5, TupleCarries

LEMMA Tuple8 ==
  ASSUME NEW a, NEW ar, NEW b, NEW br, NEW c, NEW cr, NEW d, NEW dr, NEW e, NEW er, NEW f, NEW fr,
         NEW g, NEW gr, NEW h, NEW hr, NEW Rests \in SUBSET Bytes,
         Carries(a, ar, Bytes), Carries(b, br, Bytes), Carries(c, cr, Bytes), Carries(d, dr,
             Bytes), Carries(e, er, Bytes), Carries(f, fr, Bytes), Carries(g, gr, Bytes),
             Carries(h, hr, Rests)
  PROVE  Carries(Tuple(<<a, b, c, d, e, f, g, h>>), Tuple(<<ar, br, cr, dr, er, fr, gr, hr>>), Rests)
<1>1. PICK W, R : W = <<a, b, c, d, e, f, g, h>> /\ R = <<ar, br, cr, dr, er, fr, gr, hr>>
  OBVIOUS
<1>2. DOMAIN W = 1..8 /\ Len(W) = 8 /\ DOMAIN R = 1..8 /\ Len(R) = 8
  BY <1>1
<1>3. ASSUME NEW i \in 1..8 PROVE Carries(W[i], R[i], IF i = 8 THEN Rests ELSE Bytes)
  <2>1. i = 1 \/ i = 2 \/ i = 3 \/ i = 4 \/ i = 5 \/ i = 6 \/ i = 7 \/ i = 8
    OBVIOUS
  <2> QED BY <1>1, <2>1
<1>4. Parts(W, R, 8, Rests)
  BY <1>2, <1>3 DEF Parts
<1>5. 8 \in {0, 1, 2, 3, 4, 5, 8}
  OBVIOUS
<1> QED BY <1>1, <1>4, <1>5, TupleCarries

LEMMA ArrayOf ==
  ASSUME NEW w, NEW r, Carries(w, r, Bytes), NEW v \in Seq(w.values)
  PROVE  /\ EncodeArray(w, v) \in Bytes /\ SizeOfEach([i \in DOMAIN v |-> w], v) \in Nat
         /\ Len(EncodeArray(w, v)) = SizeOfEach([i \in DOMAIN v |-> w], v)
         /\ \A rest \in Bytes : DecodeArray(r, Len(v), EncodeArray(w, v) \o rest) = Ok(v, rest)
<1>1. PICK n \in Nat : n = Len(v)
  BY LenProperties
<1>2. PICK W, R : n = Len(v) /\ W = [i \in DOMAIN v |-> w] /\ R = [i \in 1..n |-> r]
  BY <1>1
<1>3. DOMAIN v = 1..n
  BY <1>2, LenProperties
<1>4. Parts(W, R, n, Bytes)
  BY <1>2, <1>3 DEF Parts
<1>5. Fills(v, n, W)
  BY <1>2, <1>3, ElementOfSeq DEF Fills
<1>6. /\ EncodeEach(W, v) \in Bytes /\ SizeOfEach(W, v) \in Nat
      /\ Len(EncodeEach(W, v)) = SizeOfEach(W, v)
      /\ \A rest \in Bytes : DecodeEach(R, EncodeEach(W, v) \o rest) = Ok(v, rest)
  BY <1>4, <1>5, EachOf
<1> QED BY <1>2, <1>6 DEF EncodeArray, DecodeArray

LEMMA VectorCarries ==
  ASSUME NEW of, NEW ofr, Carries(of, ofr, Bytes), NEW length, Counts(length)
  PROVE  Carries(Vector(of, length), Vector(ofr, length), Bytes)
<1>1. PICK w, r, V : w = Vector(of, length) /\ r = Vector(ofr, length)
                     /\ V = {values \in Seq(of.values) : Len(values) \in length.values}
  OBVIOUS
<1>2. /\ w.values = V /\ w.bytes = [v \in V |-> EncodeVector(of, length, v)]
      /\ w.size = [v \in V |-> SerializedLength(length, 0) + SizeOfEach([i \in DOMAIN v |-> of], v)]
      /\ r.read = [bytes \in Bytes |-> DecodeVector(ofr, length, bytes)]
  BY <1>1 DEF Vector, Serdeable
<1>3. ASSUME NEW v \in V
      PROVE  /\ EncodeVector(of, length, v) \in Bytes
             /\ SerializedLength(length, 0) + SizeOfEach([i \in DOMAIN v |-> of], v) \in Nat
             /\ Len(EncodeVector(of, length, v)) =
                  SerializedLength(length, 0) + SizeOfEach([i \in DOMAIN v |-> of], v)
             /\ \A rest \in Bytes : DecodeVector(ofr, length, EncodeVector(of, length,
                  v) \o rest) = Ok(v, rest)
  <2>1. v \in Seq(of.values) /\ Len(v) \in length.values
    BY <1>1
  <2>2. PICK a \in Bytes, c \in Bytes, z \in Nat :
          a = Encode(length, Len(v)) /\ c = EncodeArray(of, v)
          /\ z = SizeOfEach([i \in DOMAIN v |-> of], v)
    <3>1. Encode(length, Len(v)) \in Bytes
      BY <2>1 DEF Counts, Carries, Writes, Encode
    <3> QED BY <2>1, <3>1, ArrayOf
  <2>3. Len(a) = SerializedLength(length, 0) /\ SerializedLength(length, 0) \in Nat
    BY <2>1, <2>2 DEF Counts, Carries, Writes, Encode, SerializedLength
  <2>4. Len(c) = z
    BY <2>1, <2>2, ArrayOf
  <2>5. a \o c \in Bytes /\ Len(a \o c) = Len(a) + Len(c) /\ EncodeVector(of, length, v) = a \o c
    BY <2>2, BytesJoin DEF EncodeVector
  <2>6. ASSUME NEW rest \in Bytes PROVE DecodeVector(ofr, length, (a \o c) \o rest) = Ok(v, rest)
    <3>1. (a \o c) \o rest = a \o (c \o rest) /\ c \o rest \in Bytes
      BY BytesJoin
    <3>2. Decode(length, a \o (c \o rest)) = Ok(Len(v), c \o rest)
      BY <2>1, <2>2, <3>1 DEF Counts, Carries, ReadsBack, Encode, Decode
    <3>3. DecodeArray(ofr, Len(v), c \o rest) = Ok(v, rest)
      BY <2>1, <2>2, ArrayOf
    <3> QED BY <3>1, <3>2, <3>3 DEF DecodeVector, AndThen, Ok
  <2> QED BY <2>2, <2>3, <2>4, <2>5, <2>6
<1>4. Writes(w)
  <2>1. w.bytes \in [V -> Bytes]
    BY <1>2, <1>3
  <2>2. w.size \in [V -> Nat]
    BY <1>2, <1>3
  <2>3. \A v \in V : Len(w.bytes[v]) = w.size[v]
    BY <1>2, <1>3
  <2> QED BY <1>2, <2>1, <2>2, <2>3 DEF Writes
<1>5. ASSUME NEW v \in w.values, NEW rest \in Bytes
      PROVE  r.read[w.bytes[v] \o rest] = Ok(v, rest)
  <2>1. v \in V /\ w.bytes[v] = EncodeVector(of, length, v)
    BY <1>2
  <2>2. PICK bytes \in Bytes : bytes = EncodeVector(of, length, v) \o rest
    BY <1>3, <2>1, BytesJoin
  <2>3. r.read[bytes] = DecodeVector(ofr, length, bytes)
    BY <1>2
  <2> QED BY <1>3, <2>1, <2>2, <2>3
<1> QED BY <1>1, <1>4, <1>5 DEF Carries, ReadsBack

-----------------------------------------------------------------------------
(* Optional values.                                                         *)
LEMMA BoolReads ==
  ASSUME NEW rest \in Bytes
  PROVE  Decode(Bool, <<0>> \o rest) = Ok(FALSE, rest) /\ Decode(Bool, <<1>> \o rest) = Ok(TRUE, rest)
<1>1. Bool.bytes[FALSE] = <<0>> /\ Bool.bytes[TRUE] = <<1>>
  BY DEF Bool, Serdeable
<1>2. \A v \in BOOLEAN : Bool.read[Bool.bytes[v] \o rest] = Ok(v, rest)
  BY BoolCarries DEF Carries, ReadsBack
<1>3. Bool.read[Bool.bytes[FALSE] \o rest] = Ok(FALSE, rest)
          /\ Bool.read[Bool.bytes[TRUE] \o rest] = Ok(TRUE, rest)
  BY <1>2
<1> QED BY <1>1, <1>3 DEF Decode

LEMMA OptionalCarries ==
  ASSUME NEW of, NEW ofr, NEW Rests \in SUBSET Bytes, Carries(of, ofr, Rests)
  PROVE  Carries(Optional(of), Optional(ofr), Rests)
<1>1. PICK w, r, V : w = Optional(of) /\ r = Optional(ofr) /\ V = {value \in Seq(of.values) : Len(value) <= 1}
  OBVIOUS
<1>2. /\ w.values = V /\ w.bytes = [v \in V |-> EncodeOptional(of, v)]
      /\ w.size = [v \in V |-> 1 + IF v = <<>> THEN 0 ELSE SerializedLength(of, v[1])]
      /\ r.read = [bytes \in Bytes |-> DecodeOptional(ofr, bytes)]
  BY <1>1 DEF Optional, Serdeable
<1>3. ASSUME NEW v \in V
      PROVE  /\ EncodeOptional(of, v) \in Bytes
             /\ (1 + IF v = <<>> THEN 0 ELSE SerializedLength(of, v[1])) \in Nat
             /\ Len(EncodeOptional(of, v)) = 1 + IF v = <<>> THEN 0 ELSE SerializedLength(of, v[1])
             /\ \A rest \in Rests : DecodeOptional(ofr, EncodeOptional(of, v) \o rest) = Ok(v, rest)
  <2>1. CASE v = <<>>
    <3>1. EncodeOptional(of, v) = <<0>>
      BY <2>1 DEF EncodeOptional
    <3>2. ASSUME NEW rest \in Rests PROVE DecodeOptional(ofr, <<0>> \o rest) = Ok(v, rest)
      <4>1. Decode(Bool, <<0>> \o rest) = Ok(FALSE, rest)
        BY BoolReads
      <4> QED BY <2>1, <4>1 DEF DecodeOptional, AndThen, Ok
    <3> QED BY <2>1, <3>1, <3>2, OneByte
  <2>2. CASE v # <<>>
    <3>1. PICK x \in of.values : v = <<x>>
      <4>1. v \in Seq(of.values) /\ Len(v) <= 1
        BY <1>1
      <4>2. Len(v) \in Nat \ {0}
        BY <2>2, <4>1, EmptySeq
      <4>3. PICK x : x = v[1]
        OBVIOUS
      <4>4. Len(v) = 1
        <5>1. \A m \in Nat \ {0} : m <= 1 => m = 1
          OBVIOUS
        <5> QED BY <4>1, <4>2, <5>1, Zenon
      <4>5. x \in of.values
        BY <4>1, <4>3, <4>4, ElementOfSeq
      <4>6. <<x>> \in Seq(of.values) /\ Len(<<x>>) = 1 /\ \A i \in 1..1 : v[i] = <<x>>[i]
        BY <4>3, <4>5
      <4>7. v = <<x>>
        BY <4>1, <4>4, <4>6, SeqEqual
      <4> QED BY <4>5, <4>7
    <3>2. PICK a \in Bytes : a = Encode(of, x) /\ Len(a) = SerializedLength(of, x)
              /\ SerializedLength(of, x) \in Nat
      BY DEF Carries, Writes, Encode, SerializedLength
    <3>3. EncodeOptional(of, v) = <<1>> \o a /\ v[1] = x
      BY <2>2, <3>1, <3>2 DEF EncodeOptional
    <3>4. <<1>> \o a \in Bytes /\ Len(<<1>> \o a) = 1 + Len(a)
      BY OneByte, BytesJoin
    <3>5. ASSUME NEW rest \in Rests PROVE DecodeOptional(ofr, (<<1>> \o a) \o rest) = Ok(v, rest)
      <4>1. (<<1>> \o a) \o rest = <<1>> \o (a \o rest) /\ a \o rest \in Bytes
        BY OneByte, BytesJoin
      <4>2. Decode(Bool, <<1>> \o (a \o rest)) = Ok(TRUE, a \o rest)
        BY <4>1, BoolReads
      <4>3. Decode(ofr, a \o rest) = Ok(x, rest)
        BY <3>2 DEF Carries, ReadsBack, Encode, Decode
      <4>4. PICK y, z : y = Ok(TRUE, a \o rest) /\ z = Ok(x, rest)
        OBVIOUS
      <4>5. /\ y.is = "ok" /\ y.value = TRUE /\ y.rest = a \o rest
            /\ z.is = "ok" /\ z.value = x /\ z.rest = rest
        BY <4>4 DEF Ok
      <4>6. DecodeOptional(ofr, <<1>> \o (a \o rest)) = Ok(<<x>>, rest)
        BY <4>2, <4>3, <4>4, <4>5 DEF DecodeOptional, AndThen
      <4> QED BY <3>1, <4>1, <4>6
    <3> QED BY <2>2, <3>2, <3>3, <3>4, <3>5
  <2> QED BY <2>1, <2>2
<1>4. Writes(w)
  <2>1. w.bytes \in [V -> Bytes]
    BY <1>2, <1>3
  <2>2. w.size \in [V -> Nat]
    BY <1>2, <1>3
  <2>3. \A v \in V : Len(w.bytes[v]) = w.size[v]
    BY <1>2, <1>3
  <2> QED BY <1>2, <2>1, <2>2, <2>3 DEF Writes
<1>5. ASSUME NEW v \in w.values, NEW rest \in Rests
      PROVE  r.read[w.bytes[v] \o rest] = Ok(v, rest)
  <2>1. v \in V /\ w.bytes[v] = EncodeOptional(of, v)
    BY <1>2
  <2>2. PICK bytes \in Bytes : bytes = EncodeOptional(of, v) \o rest
    BY <1>3, <2>1, BytesJoin
  <2>3. r.read[bytes] = DecodeOptional(ofr, bytes)
    BY <1>2
  <2> QED BY <1>3, <2>1, <2>2, <2>3
<1> QED BY <1>1, <1>4, <1>5 DEF Carries, ReadsBack

-----------------------------------------------------------------------------
(* Variants.                                                                *)
LEMMA SetInduction ==
  ASSUME NEW S, IsFiniteSet(S), NEW T \in SUBSET SUBSET S, {} \notin T,
         \A s \in T : \E x \in s : s \ {x} \in T
  PROVE  T = {}
<1> SUFFICES ASSUME T # {} PROVE FALSE
  OBVIOUS
<1> DEFINE sizes == {Cardinality(s) : s \in T}
<1>1. \A s \in T : IsFiniteSet(s) /\ Cardinality(s) \in Nat
  BY FS_Subset, FS_CardinalityType
<1>2. sizes \in SUBSET Nat /\ sizes # {}
  BY <1>1
<1>3. PICK n \in sizes : \A k \in sizes : n <= k
  BY <1>2, Least
<1>4. PICK s \in T : Cardinality(s) = n
  OBVIOUS
<1>5. PICK x \in s : s \ {x} \in T
  OBVIOUS
<1>6. Cardinality(s \ {x}) = n - 1 /\ n \in Nat
  BY <1>1, <1>4, <1>5, FS_RemoveElement
<1>7. n <= n - 1
  BY <1>3, <1>5, <1>6
<1> QED BY <1>6, <1>7

ValuesOf(of, s) == UNION {{i} \X of[i].values : i \in s}

WithValuesOf(of, index, values) == ({index} \X of[index].values) \cup values
AnyOf(s) == CHOOSE x \in s : TRUE

LEMMA AnyOfIs == \A s : s # {} => AnyOf(s) \in s
  BY DEF AnyOf

LEMMA VariantValues ==
  ASSUME NEW of, IsFiniteSet(DOMAIN of), NEW unknown
  PROVE  VariantOf(of, unknown).values = ValuesOf(of, DOMAIN of)
<1> DEFINE D == DOMAIN of
           E(f) == f = [s \in SUBSET D |->
                          IF s = {} THEN {}
                          ELSE WithValuesOf(of, AnyOf(s), f[s \ {AnyOf(s)}])]
<1>1. \A s \in SUBSET D : \A x \in s :
        ValuesOf(of, s) = WithValuesOf(of, x, ValuesOf(of, s \ {x}))
  BY DEF ValuesOf, WithValuesOf
<1>2. ValuesOf(of, {}) = {}
  BY DEF ValuesOf
<1>3. \E f : E(f)
  <2> DEFINE f == [s \in SUBSET D |-> ValuesOf(of, s)]
  <2>1. ASSUME NEW s \in SUBSET D
        PROVE  f[s] = IF s = {} THEN {}
                      ELSE WithValuesOf(of, AnyOf(s), f[s \ {AnyOf(s)}])
    <3>1. CASE s # {}
      <4>1. PICK x \in s : x = AnyOf(s)
        BY <3>1, AnyOfIs
      <4>2. f[s] = ValuesOf(of, s) /\ f[s \ {x}] = ValuesOf(of, s \ {x})
        OBVIOUS
      <4>3. f[s] = WithValuesOf(of, x, f[s \ {x}])
        <5> HIDE DEF f
        <5> QED BY <1>1, <4>2, Zenon
      <4> HIDE DEF f
      <4> QED BY <3>1, <4>1, <4>3
    <3> QED BY <1>2, <3>1
  <2>2. f = [s \in SUBSET D |-> IF s = {} THEN {}
                                ELSE WithValuesOf(of, AnyOf(s), f[s \ {AnyOf(s)}])]
    BY <2>1, Zenon
  <2> QED BY <2>2
<1>4. PICK f : E(f) /\ VariantOf(of, unknown).values = f[D]
  <2>1. E(CHOOSE f : E(f))
    <3> HIDE DEF E
    <3> QED BY <1>3
  <2>2. VariantOf(of, unknown).values =
          FoldSet(LAMBDA index, values : ({index} \X of[index].values) \cup values, {}, D)
    BY DEF VariantOf, Serdeable
  <2> QED BY <2>1, <2>2, Zenon DEF FoldSet, MapThenFoldSet, AnyOf, WithValuesOf
<1> DEFINE T == {s \in SUBSET D : f[s] # ValuesOf(of, s)}
<1>5. {} \notin T
  BY <1>2, <1>4
<1>6. ASSUME NEW s \in T PROVE \E x \in s : s \ {x} \in T
  <2>1. s \in SUBSET D /\ s # {} /\ f[s] # ValuesOf(of, s)
    <3>1. s # {}
      <4> HIDE DEF T
      <4> QED BY <1>5
    <3> QED BY <3>1
  <2>2. PICK x \in s : x = AnyOf(s)
    BY <2>1, AnyOfIs
  <2>3. f[s] = WithValuesOf(of, x, f[s \ {x}])
    BY <1>4, <2>1, <2>2
  <2> HIDE DEF E
  <2>4. f[s \ {x}] # ValuesOf(of, s \ {x})
    <3>1. ValuesOf(of, s) = WithValuesOf(of, x, ValuesOf(of, s \ {x}))
      BY <1>1, <2>1, <2>2, Zenon
    <3> QED BY <2>1, <2>3, <3>1, Zenon
  <2> QED BY <2>1, <2>4
<1>7. T = {}
  <2> HIDE DEF T, E
  <2>1. T \in SUBSET SUBSET D
    BY DEF T
  <2> QED BY <1>5, <1>6, <2>1, SetInduction
<1>8. f[D] = ValuesOf(of, D)
  <2>1. D \in SUBSET D /\ D \notin T
    <3> HIDE DEF T
    <3> QED BY <1>7
  <2> HIDE DEF E
  <2> QED BY <2>1
<1> QED BY <1>4, <1>8

Alternatives(of, ofr, Rests) ==
  /\ DOMAIN of \subseteq Byte /\ DOMAIN ofr = DOMAIN of
  /\ \A i \in DOMAIN of : Carries(of[i], ofr[i], Rests)

LEMMA ByteFinite == \A s \in SUBSET Byte : IsFiniteSet(s)
<1>1. PICK n \in Nat : Byte = 0..n
  <2>1. PICK k \in Nat : k = 255
    OBVIOUS
  <2>2. Byte = 0..k
    BY <2>1 DEF Byte
  <2> QED BY <2>2
<1>2. IsFiniteSet(0..n)
  BY FS_Interval
<1> QED BY <1>1, <1>2, FS_Subset

VariantTables(of, unknown, w, V) ==
  /\ \A v : v \in V <=> \E i \in DOMAIN of : \E x \in of[i].values : v = <<i, x>>
  /\ w.values = V
  /\ w.bytes = [v \in V |-> EncodeVariant(of, v)]
  /\ w.size = [v \in V |-> 1 + SerializedLength(of[v[1]], v[2])]
  /\ w.read = [bytes \in Bytes |-> DecodeVariant(of, unknown, bytes)]

LEMMA VariantIs ==
  ASSUME NEW of, DOMAIN of \subseteq Byte, NEW unknown
  PROVE  \E w, V : w = VariantOf(of, unknown) /\ VariantTables(of, unknown, w, V)
<1>1. PICK w : w = VariantOf(of, unknown)
  OBVIOUS
<1>2. IsFiniteSet(DOMAIN of)
  BY ByteFinite
<1>3. w.values = ValuesOf(of, DOMAIN of)
  BY <1>1, <1>2, VariantValues
<1>4. \A v : v \in ValuesOf(of, DOMAIN of) <=> \E i \in DOMAIN of : \E x \in of[i].values : v = <<i, x>>
  BY DEF ValuesOf
<1>5. \A v : v \in w.values <=> \E i \in DOMAIN of : \E x \in of[i].values : v = <<i, x>>
  BY <1>3, <1>4, Zenon
<1>6. PICK V : V = FoldSet(LAMBDA index, values : ({index} \X of[index].values) \cup values, {}, DOMAIN of)
  OBVIOUS
<1>7. /\ w.values = V
      /\ w.bytes = [v \in V |-> EncodeVariant(of, v)]
      /\ w.size = [v \in V |-> 1 + SerializedLength(of[v[1]], v[2])]
      /\ w.read = [bytes \in Bytes |-> DecodeVariant(of, unknown, bytes)]
  BY <1>1, <1>6 DEF VariantOf, Serdeable
<1>8. \A v : v \in V <=> \E i \in DOMAIN of : \E x \in of[i].values : v = <<i, x>>
  BY <1>5, <1>7, Zenon
<1>9. VariantTables(of, unknown, w, V)
  BY <1>7, <1>8, Zenon DEF VariantTables
<1> QED BY <1>1, <1>9

LEMMA VariantCarries ==
  ASSUME NEW of, NEW ofr, NEW Rests \in SUBSET Bytes, Alternatives(of, ofr, Rests), NEW unknown, NEW unknownr
  PROVE  Carries(VariantOf(of, unknown), VariantOf(ofr, unknownr), Rests)
<1>1. DOMAIN of \subseteq Byte /\ DOMAIN ofr \subseteq Byte
  BY DEF Alternatives
<1>2. PICK w, V : w = VariantOf(of, unknown) /\ VariantTables(of, unknown, w, V)
  BY <1>1, VariantIs
<1>3. PICK r, Vr : r = VariantOf(ofr, unknownr) /\ VariantTables(ofr, unknownr, r, Vr)
  BY <1>1, VariantIs
<1>4. /\ \A v : v \in V <=> \E i \in DOMAIN of : \E x \in of[i].values : v = <<i, x>>
      /\ w.values = V
      /\ w.bytes = [v \in V |-> EncodeVariant(of, v)]
      /\ w.size = [v \in V |-> 1 + SerializedLength(of[v[1]], v[2])]
  BY <1>2, Zenon DEF VariantTables
<1>5. r.read = [bytes \in Bytes |-> DecodeVariant(ofr, unknownr, bytes)]
  BY <1>3, Zenon DEF VariantTables
<1>6. ASSUME NEW v \in V
      PROVE  /\ EncodeVariant(of, v) \in Bytes /\ 1 + SerializedLength(of[v[1]], v[2]) \in Nat
             /\ Len(EncodeVariant(of, v)) = 1 + SerializedLength(of[v[1]], v[2])
             /\ \A rest \in Rests : DecodeVariant(ofr, unknownr, EncodeVariant(of, v) \o rest) = Ok(v, rest)
  <2>1. PICK i \in DOMAIN of : \E x \in of[i].values : v = <<i, x>>
    BY <1>4
  <2>2. PICK x \in of[i].values : v = <<i, x>>
    BY <2>1
  <2>3. Carries(of[i], ofr[i], Rests) /\ i \in Byte /\ i \in DOMAIN ofr
    BY DEF Alternatives
  <2>4. PICK a \in Bytes : a = Encode(of[i], x) /\ Len(a) = SerializedLength(of[i], x)
                           /\ SerializedLength(of[i], x) \in Nat
    BY <2>3 DEF Carries, Writes, Encode, SerializedLength
  <2>5. EncodeVariant(of, v) = <<i>> \o a /\ v[1] = i /\ v[2] = x
    BY <2>2, <2>4 DEF EncodeVariant
  <2>6. <<i>> \in Bytes /\ Len(<<i>>) = 1
    BY <2>3, OneByte
  <2>7. <<i>> \o a \in Bytes /\ Len(<<i>> \o a) = 1 + Len(a)
    BY <2>6, BytesJoin
  <2>8. ASSUME NEW rest \in Rests PROVE DecodeVariant(ofr, unknownr, (<<i>> \o a) \o rest) = Ok(v, rest)
    <3>1. PICK left \in Bytes : left = a \o rest
      BY BytesJoin
    <3>2. (<<i>> \o a) \o rest = <<i>> \o left
      BY <2>6, <3>1, JoinAssociates
    <3>3. Decode(Uint8, <<i>> \o left) = Ok(i, left)
      <4>1. i \in Uint8.values /\ Uint8.bytes[i] = <<i>>
        BY <2>3, Uints, UintSizes
      <4> QED BY <4>1, Uints DEF Carries, ReadsBack, Decode
    <3>4. Decode(ofr[i], left) = Ok(x, rest)
      BY <2>3, <2>4, <3>1 DEF Carries, ReadsBack, Encode, Decode
    <3>5. PICK y, z : y = Ok(i, left) /\ z = Ok(x, rest)
      OBVIOUS
    <3>6. /\ y.is = "ok" /\ y.value = i /\ y.rest = left
          /\ z.is = "ok" /\ z.value = x /\ z.rest = rest
      BY <3>5 DEF Ok
    <3>7. DecodeVariant(ofr, unknownr, <<i>> \o left) = Ok(<<i, x>>, rest)
      BY <2>3, <3>3, <3>4, <3>5, <3>6 DEF DecodeVariant, AndThen
    <3> QED BY <2>2, <3>2, <3>7
  <2> QED BY <2>4, <2>5, <2>7, <2>8
<1>7. Writes(w)
  <2>1. w.bytes \in [V -> Bytes]
    BY <1>4, <1>6
  <2>2. w.size \in [V -> Nat]
    BY <1>4, <1>6
  <2>3. \A v \in V : Len(w.bytes[v]) = w.size[v]
    BY <1>4, <1>6
  <2> QED BY <1>4, <2>1, <2>2, <2>3 DEF Writes
<1>8. ASSUME NEW v \in w.values, NEW rest \in Rests
      PROVE  r.read[w.bytes[v] \o rest] = Ok(v, rest)
  <2>1. v \in V /\ w.bytes[v] = EncodeVariant(of, v)
    BY <1>4
  <2>2. PICK bytes \in Bytes : bytes = EncodeVariant(of, v) \o rest
    BY <1>6, <2>1, BytesJoin
  <2>3. r.read[bytes] = DecodeVariant(ofr, unknownr, bytes)
    BY <1>5
  <2> QED BY <1>6, <2>1, <2>2, <2>3
<1> QED BY <1>2, <1>3, <1>7, <1>8 DEF Carries, ReadsBack

-----------------------------------------------------------------------------
(* Texts.                                                                   *)

WithByte(text, byte) ==
  IF text = <<>> \/ Len(Last(text)) = CharLength(Last(text)[1])
  THEN Append(text, <<byte>>)
  ELSE Append(Front(text), Append(Last(text), byte))

ReadsText(c, n, bytes) ==
  c[0] = <<>> /\ c[n] = Characters(bytes) /\ \A i \in 1..n : c[i] = WithByte(c[i - 1], bytes[i])

(* A text is read byte by byte.                                             *)
LEMMA CharactersRead ==
  ASSUME NEW n \in Nat, NEW bytes \in Bytes, Len(bytes) = n
  PROVE  \E c \in [0..n -> Seq(Bytes)] : ReadsText(c, n, bytes)
<1> DEFINE I == 1..n
           R == Seq(Bytes)
           E(f) == f = [u \in SUBSET DOMAIN bytes |->
                          IF u = {} THEN <<>> ELSE WithByte(f[u \ {Max(u)}], bytes[Max(u)])]
           G == [p \in I \X R |-> WithByte(p[2], bytes[p[1]])]
<1>1. DOMAIN bytes = I /\ \A i \in I : bytes[i] \in Byte
  BY DEF Bytes
<1>2. ASSUME NEW t \in R, NEW byte \in Byte PROVE WithByte(t, byte) \in R
  <2>1. <<byte>> \in Bytes
    BY OneByte
  <2>2. CASE t = <<>> \/ Len(Last(t)) = CharLength(Last(t)[1])
    BY <2>1, <2>2 DEF WithByte
  <2>3. CASE ~(t = <<>> \/ Len(Last(t)) = CharLength(Last(t)[1]))
    <3>1. Last(t) \in Bytes
      BY <2>3 DEF Last
    <3>2. Front(t) \in R
      BY <2>3 DEF Front
    <3>3. Append(Last(t), byte) \in Bytes
      BY <3>1 DEF Bytes
    <3> QED BY <2>3, <3>2, <3>3 DEF WithByte
  <2> QED BY <2>2, <2>3
<1>3. \E f \in [SUBSET I -> R] : E(f)
  <2>1. G \in [I \X R -> R]
    <3>1. \A p \in I \X R : WithByte(p[2], bytes[p[1]]) \in R
      BY <1>1, <1>2
    <3> QED BY <3>1
  <2>2. PICK f \in [SUBSET I -> R] : FoldsLeft(f, I, <<>>, G)
    <3>1. <<>> \in R
      OBVIOUS
    <3> HIDE DEF G, R
    <3> QED BY <2>1, <3>1, FoldLeftExists
  <2>3. ASSUME NEW u \in SUBSET I
        PROVE  f[u] = IF u = {} THEN <<>> ELSE WithByte(f[u \ {Max(u)}], bytes[Max(u)])
    <3>1. CASE u # {}
      <4>1. Max(u) \in I /\ f[u \ {Max(u)}] \in R
        BY <3>1, Greatest
      <4>2. f[u] = G[<<Max(u), f[u \ {Max(u)}]>>]
        <5> HIDE DEF G
        <5> QED BY <2>2, <3>1 DEF FoldsLeft
      <4> QED BY <3>1, <4>1, <4>2
    <3> QED BY <2>2, <3>1 DEF FoldsLeft
  <2> QED BY <1>1, <2>3
<1>4. PICK f : E(f) /\ Characters(bytes) = f[DOMAIN bytes]
  <2>1. E(CHOOSE f : E(f))
    <3> HIDE DEF E
    <3> QED BY <1>3
  <2> QED BY <2>1, Zenon DEF Characters, FoldLeft, MapThenFoldSet, WithByte
<1> DEFINE c == [i \in 0..n |-> f[1..i]]
<1>5. c[0] = <<>> /\ c[n] = Characters(bytes)
  <2>1. 1..0 = {}
    OBVIOUS
  <2>2. f[{}] = <<>>
    BY <1>4
  <2>3. c[0] = f[1..0] /\ c[n] = f[1..n]
    OBVIOUS
  <2> HIDE DEF c, E
  <2> QED BY <1>1, <1>4, <2>1, <2>2, <2>3
<1>6. ASSUME NEW i \in 1..n PROVE c[i] = WithByte(c[i - 1], bytes[i])
  <2>1. 1..i \in SUBSET DOMAIN bytes /\ 1..i # {} /\ i \in Nat \ {0} /\ i - 1 \in 0..n /\ i \in 0..n
    <3>1. 1..i \in SUBSET I /\ 1..i # {} /\ i \in Nat \ {0} /\ i - 1 \in 0..n /\ i \in 0..n
      <4> HIDE DEF E, c
      <4>1. i \in 1..i /\ i \in Nat \ {0} /\ i - 1 \in 0..n /\ i \in 0..n
        OBVIOUS
      <4>2. \A x \in 1..i : x \in 1..n
        OBVIOUS
      <4> QED BY <4>1, <4>2
    <3> QED BY <1>1, <3>1, Zenon
  <2>2. f[1..i] = WithByte(f[(1..i) \ {Max(1..i)}], bytes[Max(1..i)])
    BY <1>4, <2>1
  <2>3. f[1..i] = WithByte(f[1..(i - 1)], bytes[i])
    BY <2>1, <2>2, MaxOfInterval
  <2> QED BY <2>1, <2>3
<1>7. c \in [0..n -> Seq(Bytes)]
  <2> DEFINE T == {i \in 0..n : c[i] \notin R}
  <2>1. 0 \notin T
    <3> HIDE DEF c, E
    <3>1. <<>> \in R
      OBVIOUS
    <3> QED BY <1>5, <3>1
  <2>2. ASSUME NEW i \in T PROVE i - 1 \in T
    <3> HIDE DEF c, E
    <3>1. i \in 1..n /\ i - 1 \in 0..n /\ c[i] \notin R
      BY <2>1
    <3>2. c[i] = WithByte(c[i - 1], bytes[i]) /\ bytes[i] \in Byte
      BY <1>1, <1>6, <3>1
    <3>3. c[i - 1] \notin R
      <4> HIDE DEF R, T
      <4> QED BY <1>2, <3>1, <3>2
    <3> QED BY <3>1, <3>3
  <2>3. T = {}
    <3> HIDE DEF T
    <3>1. T \in SUBSET (0..n)
      BY DEF T
    <3> QED BY <2>1, <2>2, <3>1, Upward
  <2>4. \A i \in 0..n : c[i] \in R
    BY <2>3
  <2> QED BY <2>4
<1>8. ReadsText(c, n, bytes)
  BY <1>5, <1>6 DEF ReadsText
<1> QED BY <1>7, <1>8

LEMMA CharacterIs ==
  ASSUME NEW char \in Character
  PROVE  char \in Bytes /\ Len(char) \in Nat \ {0} /\ Len(char) = CharLength(char[1])
  BY DEF Character, Bytes

(* What comes before a part of a flat list, and what comes after.           *)
LEMMA Between ==
  ASSUME NEW n \in Nat, NEW b \in Seq(Bytes), Len(b) = n
  PROVE  \E g, h \in [0..n -> Bytes] :
           /\ g[0] = <<>> /\ g[n] = FlattenSeq(b) /\ h[n] = <<>>
           /\ \A j \in 1..n : g[j] = g[j - 1] \o b[j] /\ h[j - 1] = b[j] \o h[j]
           /\ \A j \in 0..n : g[j] \o h[j] = FlattenSeq(b)
<1>1. PICK g \in [0..n -> Bytes] : Joins(g, n, b)
  BY FlattenJoins DEF Bytes
<1>2. <<>> \in Bytes
  BY BytesJoin
<1>3. PICK h \in [0..n -> Bytes] : Leaves(h, n, b, <<>>) /\ h[0] = FlattenSeq(b) \o <<>>
  BY <1>2, LeavesWhole
<1>4. FlattenSeq(b) \in Bytes
  BY <1>1 DEF Joins
<1>5. h[0] = FlattenSeq(b)
  BY <1>3, <1>4, BytesJoin
<1> DEFINE T == {j \in 0..n : g[j] \o h[j] # FlattenSeq(b)}
<1>6. 0 \notin T
  BY <1>1, <1>4, <1>5, BytesJoin DEF Joins
<1>7. ASSUME NEW j \in T PROVE j - 1 \in T
  <2>1. j \in 1..n /\ j - 1 \in 0..n /\ g[j] \o h[j] # FlattenSeq(b)
    <3>1. j \in 0..n /\ g[j] \o h[j] # FlattenSeq(b)
      OBVIOUS
    <3>2. j # 0
      BY <1>6
    <3> HIDE DEF T
    <3> QED BY <3>1, <3>2
  <2>2. g[j] = g[j - 1] \o b[j] /\ h[j - 1] = b[j] \o h[j]
    BY <1>1, <1>3, <2>1 DEF Joins, Leaves
  <2>3. (g[j - 1] \o b[j]) \o h[j] = g[j - 1] \o (b[j] \o h[j])
    <3>1. g[j - 1] \in Bytes /\ b[j] \in Bytes /\ h[j] \in Bytes
      BY <2>1
    <3> QED BY <3>1, BytesJoin
  <2>4. g[j - 1] \o h[j - 1] # FlattenSeq(b)
    BY <2>1, <2>2, <2>3, Zenon
  <2> QED BY <2>1, <2>4
<1>8. T = {}
  <2> HIDE DEF T
  <2>1. T \in SUBSET (0..n)
    BY DEF T
  <2> QED BY <1>6, <1>7, <2>1, Upward
<1>9. \A j \in 0..n : g[j] \o h[j] = FlattenSeq(b)
  BY <1>8
<1> HIDE DEF T
<1>10. \A j \in 1..n : g[j] = g[j - 1] \o b[j] /\ h[j - 1] = b[j] \o h[j]
  BY <1>1, <1>3 DEF Joins, Leaves
<1>11. g[0] = <<>> /\ g[n] = FlattenSeq(b) /\ h[n] = <<>>
  BY <1>1, <1>3 DEF Joins, Leaves
<1> QED BY <1>9, <1>10, <1>11

(* One character more.                                                      *)
Placed(bytes, n, c, prior, char, before, after) ==
  /\ bytes \in Bytes /\ n = Len(bytes) /\ c \in [0..n -> Seq(Bytes)] /\ ReadsText(c, n, bytes)
  /\ prior \in Seq(Character) /\ char \in Character /\ before \in Bytes /\ after \in Bytes
  /\ bytes = before \o (char \o after) /\ c[Len(before)] = prior

LEMMA CharacterRead ==
  ASSUME NEW bytes, NEW n, NEW c, NEW prior, NEW char, NEW before, NEW after,
         Placed(bytes, n, c, prior, char, before, after)
  PROVE  c[Len(before) + Len(char)] = Append(prior, char)
<1>1. /\ prior \in Seq(Character) /\ char \in Character /\ before \in Bytes /\ after \in Bytes
       /\ bytes = before \o (char \o after) /\ c[Len(before)] = prior
  BY DEF Placed
<1> DEFINE p == Len(before)
           k == Len(char)
<1>2. char \in Bytes /\ k \in Nat \ {0} /\ k = CharLength(char[1]) /\ p \in Nat
  BY <1>1, CharacterIs, BytesJoin
<1>3. bytes \in Bytes /\ n = Len(bytes) /\ n \in Nat /\ c \in [0..n -> Seq(Bytes)] /\ ReadsText(c, n, bytes)
  BY BytesJoin DEF Placed
<1>4. n = p + k + Len(after) /\ Len(after) \in Nat
  <2> HIDE DEF p, k
  <2>1. PICK left \in Bytes : left = char \o after /\ Len(left) = Len(char) + Len(after)
    BY <1>2, <1>1, BytesJoin
  <2>2. Len(bytes) = Len(before) + Len(left)
    BY <1>1, <2>1, BytesJoin
  <2>3. Len(after) \in Nat
    BY <1>1, BytesJoin
  <2> QED BY <1>2, <1>3, <2>1, <2>2, <2>3 DEF p, k
<1>5. \A o \in 1..k : bytes[p + o] = char[o]
  BY <1>2, <1>4, <1>1 DEF Bytes
<1> DEFINE T == {o \in 0..k - 1 : c[p + o + 1] # Append(prior, SubSeq(char, 1, o + 1))}
<1>6. 0 \notin T
  <2>1. c[p + 1] = WithByte(c[p], bytes[p + 1]) /\ bytes[p + 1] = char[1]
    <3> HIDE DEF p, k, T
    <3>1. PICK i \in 1..n : i = p + 1 /\ i - 1 = p /\ 1 \in 1..k
      BY <1>2, <1>4
    <3>2. c[i] = WithByte(c[i - 1], bytes[i])
      BY <1>3 DEF ReadsText
    <3>3. bytes[p + 1] = char[1]
      BY <1>5, <3>1
    <3> QED BY <3>1, <3>2, <3>3
  <2>2. prior = <<>> \/ Len(Last(prior)) = CharLength(Last(prior)[1])
    <3>1. CASE prior # <<>>
      <4>1. Last(prior) \in Character
        BY <1>1, <3>1 DEF Last
      <4> QED BY <4>1, CharacterIs
    <3> QED BY <3>1
  <2>3. c[p + 1] = Append(prior, <<char[1]>>)
    BY <1>1, <2>1, <2>2 DEF WithByte
  <2>4. <<char[1]>> = SubSeq(char, 1, 1)
    BY <1>2 DEF Bytes
  <2> QED BY <1>2, <2>3, <2>4
<1>7. ASSUME NEW o \in T PROVE o - 1 \in T
  <2>1. o \in 1..k - 1 /\ o - 1 \in 0..k - 1 /\ o \in Nat /\ c[p + o + 1] # Append(prior,
            SubSeq(char, 1, o + 1))
    <3>1. o \in 0..k - 1 /\ c[p + o + 1] # Append(prior, SubSeq(char, 1, o + 1))
      OBVIOUS
    <3>2. o # 0
      BY <1>6
    <3> HIDE DEF T, p, k
    <3> QED BY <1>2, <3>1, <3>2
  <2>2. c[p + o + 1] = WithByte(c[p + o], bytes[p + o + 1]) /\ bytes[p + o + 1] = char[o + 1]
    <3> HIDE DEF p, k, T
    <3>1. PICK i \in 1..n : i = p + o + 1 /\ i - 1 = p + o /\ o + 1 \in 1..k /\ i = p + (o + 1)
      BY <1>2, <1>4, <2>1
    <3>2. c[i] = WithByte(c[i - 1], bytes[i])
      BY <1>3 DEF ReadsText
    <3>3. bytes[p + (o + 1)] = char[o + 1]
      BY <1>5, <3>1
    <3> QED BY <3>1, <3>2, <3>3
  <2>3. PICK part : part = SubSeq(char, 1, o)
    OBVIOUS
  <2>4. part \in Bytes /\ Len(part) = o /\ part[1] = char[1] /\ Append(part,
            char[o + 1]) = SubSeq(char, 1, o + 1)
    <3> HIDE DEF T
    <3>1. o \in 1..Len(char) /\ o + 1 \in 1..Len(char) /\ char \in Seq(Byte)
      <4>1. char \in Seq(Byte)
        BY <1>2 DEF Bytes
      <4>2. o \in 1..k /\ o + 1 \in 1..k
        <5> HIDE DEF k
        <5> QED BY <1>2, <2>1
      <4> QED BY <4>1, <4>2
    <3>2. part \in Seq(Byte) /\ Len(part) = o /\ part[1] = char[1]
      BY <2>3, <3>1
    <3>3. Append(SubSeq(char, 1, (o + 1) - 1), char[o + 1]) = SubSeq(char, 1, o + 1)
      BY <3>1, AppendToPrefix
    <3>4. (o + 1) - 1 = o
      BY <2>1
    <3> QED BY <2>3, <3>2, <3>3, <3>4 DEF Bytes
  <2>5. PICK text : text = Append(prior, part)
    OBVIOUS
  <2>6. text # <<>> /\ Last(text) = part /\ Front(text) = prior
    <3>1. prior \in Seq(Bytes)
      BY <1>1, CharacterIs
    <3>2. text \in Seq(Bytes) /\ Len(text) = Len(prior) + 1 /\ text[Len(prior) + 1] = part
      BY <2>4, <2>5, <3>1
    <3>3. SubSeq(text, 1, Len(prior)) = prior
      BY <2>4, <2>5, <3>1
    <3> QED BY <3>1, <3>2, <3>3 DEF Last, Front
  <2>7. WithByte(text, char[o + 1]) = Append(prior, SubSeq(char, 1, o + 1))
    <3>1. Len(Last(text)) # CharLength(Last(text)[1])
      BY <1>2, <2>1, <2>4, <2>6
    <3> QED BY <2>4, <2>6, <3>1, Zenon DEF WithByte
  <2>8. c[p + (o - 1) + 1] # Append(prior, SubSeq(char, 1, (o - 1) + 1))
    <3>1. p + (o - 1) + 1 = p + o /\ (o - 1) + 1 = o
      BY <1>2, <2>1
    <3>2. c[p + o] # text
      BY <2>1, <2>2, <2>7, Zenon
    <3> QED BY <2>3, <2>5, <3>1, <3>2
  <2> QED BY <2>1, <2>8
<1>8. T = {}
  <2>1. T \in SUBSET (0..k - 1) /\ k - 1 \in Nat
    BY <1>2
  <2> HIDE DEF T, k, p
  <2> QED BY <1>6, <1>7, <2>1, Upward
<1>9. c[p + (k - 1) + 1] = Append(prior, SubSeq(char, 1, (k - 1) + 1))
  <2>1. k - 1 \in 0..k - 1
    BY <1>2
  <2> QED BY <1>8, <2>1
<1>10. p + (k - 1) + 1 = p + k /\ SubSeq(char, 1, (k - 1) + 1) = char
  BY <1>2 DEF Bytes
<1> QED BY <1>9, <1>10

LEMMA TextIsRead ==
  ASSUME NEW text \in Seq(Character)
  PROVE  Characters(FlattenSeq(text)) = text
<1>1. text \in Seq(Bytes)
  BY CharacterIs
<1>2. PICK m \in Nat : m = Len(text)
  BY <1>1
<1>3. PICK g, h \in [0..m -> Bytes] :
           /\ g[0] = <<>> /\ g[m] = FlattenSeq(text) /\ h[m] = <<>>
           /\ \A j \in 1..m : g[j] = g[j - 1] \o text[j] /\ h[j - 1] = text[j] \o h[j]
           /\ \A j \in 0..m : g[j] \o h[j] = FlattenSeq(text)
  BY <1>1, <1>2, Between
<1>4. PICK bytes \in Bytes : bytes = FlattenSeq(text)
  BY <1>3
<1>5. PICK n \in Nat : n = Len(bytes)
  BY BytesJoin
<1>6. PICK c \in [0..n -> Seq(Bytes)] : ReadsText(c, n, bytes)
  BY <1>5, CharactersRead
<1> DEFINE T == {j \in 0..m : c[Len(g[j])] # SubSeq(text, 1, j)}
<1>7. 0 \notin T
  <2>1. SubSeq(text, 1, 0) = <<>> /\ Len(g[0]) = 0
    BY <1>1, <1>3
  <2> QED BY <1>6, <2>1 DEF ReadsText
<1>8. ASSUME NEW j \in T PROVE j - 1 \in T
  <2>1. j \in 1..m /\ j - 1 \in 0..m /\ c[Len(g[j])] # SubSeq(text, 1, j)
    <3>1. j \in 0..m /\ c[Len(g[j])] # SubSeq(text, 1, j)
      OBVIOUS
    <3>2. j # 0
      BY <1>7
    <3> HIDE DEF T
    <3> QED BY <3>1, <3>2
  <2>2. SUFFICES ASSUME c[Len(g[j - 1])] = SubSeq(text, 1, j - 1) PROVE FALSE
    BY <2>1
  <2>3. PICK before, after \in Bytes : before = g[j - 1] /\ after = h[j]
    BY <2>1
  <2>4. PICK char \in Character : char = text[j] /\ char \in Bytes
    BY <1>2, <2>1, CharacterIs
  <2>5. PICK prior \in Seq(Character) : prior = SubSeq(text, 1, j - 1)
    <3> HIDE DEF T
    <3>1. \A i \in 1..j - 1 : text[i] \in Character
      BY <1>2, <2>1
    <3>2. SubSeq(text, 1, j - 1) \in Seq(Character)
      BY <1>2, <2>1, <3>1
    <3> QED BY <3>2
  <2>6. bytes = before \o (char \o after)
    <3>1. g[j - 1] \o h[j - 1] = FlattenSeq(text) /\ h[j - 1] = text[j] \o h[j]
      BY <1>3, <2>1
    <3> QED BY <1>4, <2>3, <2>4, <3>1, Zenon
  <2>7. c[Len(before)] = prior
    BY <2>2, <2>3, <2>5
  <2>8. c[Len(before) + Len(char)] = Append(prior, char)
    <3> HIDE DEF T
    <3>1. Placed(bytes, n, c, prior, char, before, after)
      BY <1>5, <1>6, <2>6, <2>7 DEF Placed
    <3> QED BY <3>1, CharacterRead
  <2>9. Len(g[j]) = Len(before) + Len(char)
    <3>1. g[j] = before \o char
      BY <1>3, <2>1, <2>3, <2>4
    <3> QED BY <2>4, <3>1, BytesJoin
  <2>10. Append(prior, char) = SubSeq(text, 1, j)
    BY <1>2, <2>1, <2>4, <2>5, AppendToPrefix
  <2> QED BY <2>1, <2>8, <2>9, <2>10
<1>9. T = {}
  <2>1. T \in SUBSET (0..m)
    OBVIOUS
  <2> HIDE DEF T
  <2> QED BY <1>7, <1>8, <2>1, Upward
<1>10. c[Len(g[m])] = SubSeq(text, 1, m)
  <2>1. m \in 0..m /\ m \notin T
    <3> HIDE DEF T
    <3> QED BY <1>9
  <2> QED BY <2>1
<1>11. SubSeq(text, 1, m) = text
  BY <1>2
<1> HIDE DEF T
<1>12. c[n] = Characters(bytes)
  BY <1>6 DEF ReadsText
<1> QED BY <1>3, <1>4, <1>5, <1>10, <1>11, <1>12

LEMMA TextBytes ==
  ASSUME NEW text \in Seq(Character)
  PROVE  FlattenSeq(text) \in Bytes /\ Len(FlattenSeq(text)) \in Nat
<1>1. text \in Seq(Bytes)
  BY CharacterIs
<1>2. PICK n \in Nat : n = Len(text)
  BY <1>1
<1>3. PICK g \in [0..n -> Bytes] : Joins(g, n, text)
  BY <1>1, <1>2, FlattenJoins DEF Bytes
<1>4. FlattenSeq(text) \in Bytes
  BY <1>3 DEF Joins
<1> QED BY <1>4, BytesJoin

LEMMA VariableBytesIs ==
  ASSUME NEW length, Counts(length), NEW v \in Bytes, Len(v) \in length.values
  PROVE  /\ Encode(VariableBytes(length), v) = Encode(length, Len(v)) \o v
         /\ Encode(length, Len(v)) \o v \in Bytes
         /\ SerializedLength(length, 0) \in Nat
         /\ Len(Encode(length, Len(v)) \o v) = SerializedLength(length, 0) + Len(v)
<1>1. PICK w, V : w = VariableBytes(length) /\ V = {value \in Bytes : Len(value) \in length.values}
  OBVIOUS
<1>2. w.bytes = [value \in V |-> Encode(length, Len(value)) \o value]
  BY <1>1 DEF VariableBytes, Serdeable
<1>3. w.bytes[v] = Encode(length, Len(v)) \o v
  BY <1>1, <1>2
<1>4. PICK head \in Bytes : head = Encode(length, Len(v)) /\ Len(head) = SerializedLength(length, 0)
                            /\ SerializedLength(length, 0) \in Nat
  BY DEF Counts, Carries, Writes, Encode, SerializedLength
<1>5. head \o v \in Bytes /\ Len(head \o v) = Len(head) + Len(v)
  BY BytesJoin
<1> QED BY <1>1, <1>3, <1>4, <1>5 DEF Encode

LEMMA DecodeTextOf ==
  ASSUME NEW length, Counts(length), NEW text \in TextValues(length), NEW rest \in Bytes
  PROVE  DecodeText(length, Encode(VariableBytes(length), FlattenSeq(text)) \o rest) = Ok(text, rest)
<1>1. PICK v \in Bytes : v = FlattenSeq(text) /\ Len(v) \in length.values /\ Characters(v) = text
  BY TextBytes, TextIsRead DEF TextValues
<1>2. Encode(VariableBytes(length), v) = Encode(length, Len(v)) \o v
  BY <1>1, VariableBytesIs
<1>3. DecodeVariableBytes(length, (Encode(length, Len(v)) \o v) \o rest) = Ok(v, rest)
  BY <1>1, DecodeVariableBytesOf
<1>4. PICK y : y = Ok(v, rest)
  OBVIOUS
<1>5. y.is = "ok" /\ y.value = v /\ y.rest = rest
  BY <1>4 DEF Ok
<1>6. DecodeText(length, (Encode(length, Len(v)) \o v) \o rest) = Ok(Characters(v), rest)
  BY <1>3, <1>5, <1>4 DEF DecodeText, AndThen
<1> QED BY <1>1, <1>2, <1>6

LEMMA TextCarriesTo ==
  ASSUME NEW length, Counts(length), NEW r, r.read = [bytes \in Bytes |-> DecodeText(length, bytes)]
  PROVE  Carries(Text(length), r, Bytes)
<1>1. PICK w, V : w = Text(length) /\ V = TextValues(length)
  OBVIOUS
<1>2. /\ w.values = V
      /\ w.bytes = [text \in V |-> Encode(VariableBytes(length), FlattenSeq(text))]
      /\ w.size = [text \in V |-> SerializedLength(length, 0) + Len(FlattenSeq(text))]
  BY <1>1 DEF Text, Serdeable
<1>3. ASSUME NEW text \in V
      PROVE  /\ Encode(VariableBytes(length), FlattenSeq(text)) \in Bytes
             /\ SerializedLength(length, 0) + Len(FlattenSeq(text)) \in Nat
             /\ Len(Encode(VariableBytes(length), FlattenSeq(text)))
                  = SerializedLength(length, 0) + Len(FlattenSeq(text))
  <2>1. PICK v \in Bytes : v = FlattenSeq(text) /\ Len(v) \in length.values /\ Len(v) \in Nat
    BY <1>1, TextBytes DEF TextValues
  <2>2. PICK e \in Bytes : e = Encode(VariableBytes(length), v)
            /\ Len(e) = SerializedLength(length, 0) + Len(v)
    BY <2>1, VariableBytesIs
  <2>3. SerializedLength(length, 0) \in Nat
    BY <2>1, VariableBytesIs
  <2>4. SerializedLength(length, 0) + Len(v) \in Nat
    BY <2>1, <2>3
  <2> QED BY <2>1, <2>2, <2>4
<1>4. Writes(w)
  <2>1. w.bytes \in [V -> Bytes]
    BY <1>2, <1>3
  <2>2. w.size \in [V -> Nat]
    BY <1>2, <1>3
  <2>3. \A text \in V : Len(w.bytes[text]) = w.size[text]
    BY <1>2, <1>3
  <2> QED BY <1>2, <2>1, <2>2, <2>3 DEF Writes
<1>5. ASSUME NEW text \in w.values, NEW rest \in Bytes
      PROVE  r.read[w.bytes[text] \o rest] = Ok(text, rest)
  <2>1. text \in V /\ w.bytes[text] = Encode(VariableBytes(length), FlattenSeq(text))
    BY <1>2
  <2>2. PICK bytes \in Bytes : bytes = w.bytes[text] \o rest
    BY <1>3, <2>1, BytesJoin
  <2>3. r.read[bytes] = DecodeText(length, bytes)
    OBVIOUS
  <2>4. DecodeText(length, Encode(VariableBytes(length), FlattenSeq(text)) \o rest) = Ok(text, rest)
    BY <1>1, <2>1, DecodeTextOf
  <2> QED BY <2>1, <2>2, <2>3, <2>4
<1> QED BY <1>1, <1>4, <1>5 DEF Carries, ReadsBack

(* A text is read by the program as by a node.                              *)
LEMMA TextCarries ==
  ASSUME NEW length, Counts(length)
  PROVE  Carries(Text(length), Text(length), Bytes) /\ Carries(Text(length), PyUtf8(length), Bytes)
<1>1. Text(length).read = [bytes \in Bytes |-> DecodeText(length, bytes)]
  BY DEF Text, Serdeable
<1>2. PyUtf8(length).read = [bytes \in Bytes |-> DecodeText(length, bytes)]
  BY DEF PyUtf8, Serdeable
<1> QED BY <1>1, <1>2, TextCarriesTo

Whole(f) == Carries(f, f, Bytes)
Closing(f) == Carries(f, f, {<<>>})

LEMMA RestsAre == Bytes \in SUBSET Bytes /\ {<<>>} \in SUBSET Bytes
  BY BytesJoin

LEMMA WholeCloses ==
  ASSUME NEW f, Whole(f)
  PROVE  Closing(f)
  BY CarriesLast, RestsAre DEF Whole, Closing

LEMMA WholeTuples ==
  /\ Whole(Tuple(<<>>))
  /\ \A a : Whole(a) => Whole(Tuple(<<a>>))
  /\ \A a, b : Whole(a) /\ Whole(b) => Whole(Tuple(<<a, b>>))
  /\ \A a, b, c : Whole(a) /\ Whole(b) /\ Whole(c) => Whole(Tuple(<<a, b, c>>))
  /\ \A a, b, c, d : Whole(a) /\ Whole(b) /\ Whole(c) /\ Whole(d) => Whole(Tuple(<<a, b, c, d>>))
  /\ \A a, b, c, d, e : Whole(a) /\ Whole(b) /\ Whole(c) /\ Whole(d) /\ Whole(e) =>
       Whole(Tuple(<<a, b, c, d, e>>))
<1> USE RestsAre DEF Whole
<1>1. Whole(Tuple(<<>>))
  BY Tuple0
<1>2. ASSUME NEW a, Whole(a) PROVE Whole(Tuple(<<a>>))
  BY <1>2, Tuple1
<1>3. ASSUME NEW a, NEW b, Whole(a), Whole(b) PROVE Whole(Tuple(<<a, b>>))
  BY <1>3, Tuple2
<1>4. ASSUME NEW a, NEW b, NEW c, Whole(a), Whole(b), Whole(c) PROVE Whole(Tuple(<<a, b, c>>))
  BY <1>4, Tuple3
<1>5. ASSUME NEW a, NEW b, NEW c, NEW d, Whole(a), Whole(b), Whole(c), Whole(d)
      PROVE  Whole(Tuple(<<a, b, c, d>>))
  BY <1>5, Tuple4
<1>6. ASSUME NEW a, NEW b, NEW c, NEW d, NEW e, Whole(a), Whole(b), Whole(c), Whole(d), Whole(e)
      PROVE  Whole(Tuple(<<a, b, c, d, e>>))
  BY <1>6, Tuple5
<1> HIDE DEF Whole
<1> QED BY <1>1, <1>2, <1>3, <1>4, <1>5, <1>6, Zenon

LEMMA ClosingTuples ==
  /\ \A a, b : Whole(a) /\ Closing(b) => Closing(Tuple(<<a, b>>))
  /\ \A a, b, c : Whole(a) /\ Whole(b) /\ Closing(c) => Closing(Tuple(<<a, b, c>>))
  /\ \A a, b, c, d : Whole(a) /\ Whole(b) /\ Whole(c) /\ Closing(d) => Closing(Tuple(<<a, b, c, d>>))
  /\ \A a, b, c, d, e : Whole(a) /\ Whole(b) /\ Whole(c) /\ Whole(d) /\ Closing(e) =>
       Closing(Tuple(<<a, b, c, d, e>>))
<1> USE RestsAre DEF Whole, Closing
<1>1. ASSUME NEW a, NEW b, Whole(a), Closing(b) PROVE Closing(Tuple(<<a, b>>))
  BY <1>1, Tuple2
<1>2. ASSUME NEW a, NEW b, NEW c, Whole(a), Whole(b), Closing(c) PROVE Closing(Tuple(<<a, b, c>>))
  BY <1>2, Tuple3
<1>3. ASSUME NEW a, NEW b, NEW c, NEW d, Whole(a), Whole(b), Whole(c), Closing(d)
      PROVE  Closing(Tuple(<<a, b, c, d>>))
  BY <1>3, Tuple4
<1>4. ASSUME NEW a, NEW b, NEW c, NEW d, NEW e, Whole(a), Whole(b), Whole(c), Whole(d), Closing(e)
      PROVE  Closing(Tuple(<<a, b, c, d, e>>))
  BY <1>4, Tuple5
<1> HIDE DEF Whole, Closing
<1> QED BY <1>1, <1>2, <1>3, <1>4, Zenon

(* A variant over the indices from one on.                                  *)
LEMMA VariantsFromOne ==
  ASSUME NEW n \in 1..8, NEW of, NEW ofr, NEW Rests \in SUBSET Bytes,
         DOMAIN of = 1..n, DOMAIN ofr = 1..n, \A i \in 1..n : Carries(of[i], ofr[i], Rests)
  PROVE  Carries(Variant(of), Variant(ofr), Rests)
<1>1. Alternatives(of, ofr, Rests)
  <2>1. 1..n \subseteq Byte
    BY ByteIs
  <2> QED BY <2>1 DEF Alternatives
<1> QED BY <1>1, VariantCarries DEF Variant

LEMMA Variants ==
  /\ \A a, b : Whole(a) /\ Whole(b) => Whole(Variant(<<a, b>>))
  /\ \A a, b : Closing(a) /\ Closing(b) => Closing(Variant(<<a, b>>))
  /\ \A a, b, c, d : Whole(a) /\ Whole(b) /\ Whole(c) /\ Whole(d) => Whole(Variant(<<a, b, c, d>>))
  /\ \A a, b, c, d, e : Whole(a) /\ Whole(b) /\ Whole(c) /\ Whole(d) /\ Whole(e) =>
       Whole(Variant(<<a, b, c, d, e>>))
  /\ \A a, b, c, d, e, f :
       Closing(a) /\ Closing(b) /\ Closing(c) /\ Closing(d) /\ Closing(e) /\ Closing(f) =>
       Closing(Variant(<<a, b, c, d, e, f>>))
<1>1. ASSUME NEW a, NEW b, Whole(a), Whole(b) PROVE Whole(Variant(<<a, b>>))
  <2>1. PICK of : of = <<a, b>>
    OBVIOUS
  <2>2. DOMAIN of = 1..2 /\ \A i \in 1..2 : Carries(of[i], of[i], Bytes)
    BY <1>1, <2>1 DEF Whole
  <2> QED BY <2>1, <2>2, VariantsFromOne, RestsAre DEF Whole
<1>2. ASSUME NEW a, NEW b, Closing(a), Closing(b) PROVE Closing(Variant(<<a, b>>))
  <2>1. PICK of : of = <<a, b>>
    OBVIOUS
  <2>2. DOMAIN of = 1..2 /\ \A i \in 1..2 : Carries(of[i], of[i], {<<>>})
    BY <1>2, <2>1 DEF Closing
  <2> QED BY <2>1, <2>2, VariantsFromOne, RestsAre DEF Closing
<1>3. ASSUME NEW a, NEW b, NEW c, NEW d, Whole(a), Whole(b), Whole(c), Whole(d)
      PROVE  Whole(Variant(<<a, b, c, d>>))
  <2>1. PICK of : of = <<a, b, c, d>>
    OBVIOUS
  <2>2. DOMAIN of = 1..4 /\ \A i \in 1..4 : Carries(of[i], of[i], Bytes)
    BY <1>3, <2>1 DEF Whole
  <2> QED BY <2>1, <2>2, VariantsFromOne, RestsAre DEF Whole
<1>4. ASSUME NEW a, NEW b, NEW c, NEW d, NEW e, Whole(a), Whole(b), Whole(c), Whole(d), Whole(e)
      PROVE  Whole(Variant(<<a, b, c, d, e>>))
  <2>1. PICK of : of = <<a, b, c, d, e>>
    OBVIOUS
  <2>2. DOMAIN of = 1..5 /\ \A i \in 1..5 : Carries(of[i], of[i], Bytes)
    BY <1>4, <2>1 DEF Whole
  <2> QED BY <2>1, <2>2, VariantsFromOne, RestsAre DEF Whole
<1>5. ASSUME NEW a, NEW b, NEW c, NEW d, NEW e, NEW f,
             Closing(a), Closing(b), Closing(c), Closing(d), Closing(e), Closing(f)
      PROVE  Closing(Variant(<<a, b, c, d, e, f>>))
  <2>1. PICK of : of = <<a, b, c, d, e, f>>
    OBVIOUS
  <2>2. DOMAIN of = 1..6 /\ \A i \in 1..6 : Carries(of[i], of[i], {<<>>})
    BY <1>5, <2>1 DEF Closing
  <2> QED BY <2>1, <2>2, VariantsFromOne, RestsAre DEF Closing
<1> QED BY <1>1, <1>2, <1>3, <1>4, <1>5, Zenon

LEMMA Basics ==
  /\ Whole(Uint8) /\ Whole(Uint16) /\ Whole(Uint32) /\ Whole(Bool) /\ Whole(Constant)
  /\ Closing(Remaining) /\ \A n \in Nat : Whole(Fixed(n))
  BY Uints, BoolCarries, ConstantIs, RemainingCarries, FixedCarries DEF Whole, Closing

LEMMA Composed ==
  /\ \A f : Whole(f) => Whole(Vector(f, Uint8)) /\ Whole(Optional(f))
  /\ Whole(VariableBytes(Uint8)) /\ Whole(Text(Uint8)) /\ Whole(Text(Uint32))
  BY VectorCarries, OptionalCarries, VariableBytesCarries, TextCarries, UintsCount, RestsAre
     DEF Whole

LEMMA SomeOf ==
  ASSUME NEW of, Whole(of), NEW accepted \in SUBSET of.values, NEW form
  PROVE  Whole(Restricted(form, of, accepted))
  BY RestrictedCarries, RestsAre DEF Whole

LEMMA Enums ==
  ASSUME NEW values, \A v \in values : v \in Nat /\ v <= 255
  PROVE  Whole(Enum(values, Uint8))
<1>1. values \subseteq Uint8.values
  BY Uints, ByteIs
<1> QED BY <1>1, Basics, SomeOf DEF Enum

LEMMA LowFlags ==
  ASSUME NEW all \in Nat, all <= 255
  PROVE  Whole(Flags(all, Uint8))
<1>1. 0..all \subseteq Uint8.values
  BY Uints, ByteIs
<1> QED BY <1>1, Basics, SomeOf DEF Flags

(* A variant over some bytes.                                               *)
LEMMA VariantsOverBytes ==
  ASSUME NEW of, NEW ofr, DOMAIN ofr = DOMAIN of, \A i \in DOMAIN of : i \in Nat /\ i <= 255,
         \A i \in DOMAIN of : Carries(of[i], ofr[i], Bytes), NEW unknown, NEW unknownr
  PROVE  Carries(VariantOf(of, unknown), VariantOf(ofr, unknownr), Bytes)
<1>1. DOMAIN of \subseteq Byte
  BY ByteIs
<1>2. Alternatives(of, ofr, Bytes)
  BY <1>1 DEF Alternatives
<1> QED BY <1>2, VariantCarries, RestsAre

-----------------------------------------------------------------------------
(* Addresses and nodes.                                                     *)
LEMMA AddressTypes == \A type \in AddressType : type \in Nat /\ type <= 127 /\ type # 255
  BY DEF AddressType

LEMMA Addresses ==
  /\ Whole(IpV4Address) /\ Whole(Address)
  /\ Carries(PyAddress, Address, Bytes)
<1>1. Whole(IpV4Address)
  BY Basics, WholeTuples DEF IpV4Address
<1>2. \A type \in AddressType : Whole(AddressOfType[type])
  BY <1>1, Basics DEF AddressOfType, AddressType, LoopbackAddress, SerialAddress, UhfAddress,
     UdpAddress,
    WebSocketAddress, SingleByteAddress
<1>3. DOMAIN AddressOfType = AddressType /\ \A type \in AddressType : type \in Nat /\ type <= 255
  BY AddressTypes DEF AddressOfType
<1>4. Whole(Address)
  BY <1>2, <1>3, VariantsOverBytes DEF Whole, Address, ManualVariant
<1>5. PICK of : of = [type \in AddressType |->
    CASE type = 127 -> PyLoopbackAddress
      [] type \in {1, 2} -> PySingleByteAddress
      [] type \in {3, 4} -> PyIPv4AndPortAddress]
  OBVIOUS
<1>6. PyIPv4AndPortAddress = IpV4Address
  <2>1. 16 \div 8 = 2
    OBVIOUS
  <2> QED BY <2>1 DEF PyIPv4AndPortAddress, IpV4Address, PyFixedBytes, PyUInt16, PyUInt, Uint16
<1>7. \A type \in AddressType : of[type] = AddressOfType[type]
  BY <1>5, <1>6 DEF AddressOfType, AddressType, LoopbackAddress, SerialAddress, UhfAddress,
     UdpAddress,
    WebSocketAddress, SingleByteAddress, PyLoopbackAddress, PySingleByteAddress
<1>8. DOMAIN of = AddressType
  BY <1>5
<1>9. Carries(VariantOf(of, "error"), VariantOf(AddressOfType, "throws"), Bytes)
  BY <1>2, <1>3, <1>7, <1>8, VariantsOverBytes DEF Whole
<1>10. PyAddress = VariantOf(of, "error")
  BY <1>5 DEF PyAddress, PyVariant, Variant
<1> QED BY <1>1, <1>4, <1>9, <1>10 DEF Address, ManualVariant

LEMMA Nodes ==
  /\ Whole(NodeId) /\ Whole(Destination) /\ Whole(Source)
  /\ Carries(PyNodeId, NodeId, Bytes) /\ Carries(NodeId, PyNodeId, Bytes)
<1>1. PICK N, P, S : /\ N = [type \in NodeIdType |-> Fixed(BodyBytesSizeOf(type))]
                     /\ P = [type \in PyNodeIdType |-> Fixed(PyBodyBytesSize(type))]
                     /\ S = [type \in AddressType |-> Fixed(BodyBytesSizeOf(type))]
  OBVIOUS
<1>2. /\ NodeId = VariantOf(N, "throws") /\ PyNodeId = VariantOf(P, "error")
      /\ Source = Tuple(<<VariantOf(S, "throws"), ClusterId>>)
  BY <1>1 DEF NodeId, PyNodeId, Source, ManualVariant, PyVariant, Variant
<1>3. /\ DOMAIN N = NodeIdType /\ DOMAIN P = NodeIdType /\ DOMAIN S = AddressType
      /\ \A type \in NodeIdType : type \in Nat /\ type <= 255
  BY <1>1 DEF NodeIdType, AddressType, PyNodeIdType, Broadcast
<1>4. \A type \in NodeIdType : BodyBytesSizeOf(type) \in Nat /\ PyBodyBytesSize(type) = BodyBytesSizeOf(type)
  BY DEF NodeIdType, AddressType, Broadcast, BodyBytesSizeOf, BodyBytesSize, PyBodyBytesSize
<1>5. PyNodeIdType = NodeIdType /\ AddressType \subseteq NodeIdType
  BY DEF NodeIdType, AddressType, PyNodeIdType, Broadcast
<1>6. \A type \in NodeIdType : Whole(N[type]) /\ P[type] = N[type]
  BY <1>1, <1>4, <1>5, Basics
<1>7. \A type \in AddressType : Whole(S[type])
  BY <1>1, <1>4, <1>5, Basics
<1>8. Whole(NodeId) /\ Carries(PyNodeId, NodeId, Bytes) /\ Carries(NodeId, PyNodeId, Bytes)
  BY <1>2, <1>3, <1>6, VariantsOverBytes DEF Whole
<1>9. Whole(VariantOf(S, "throws"))
  BY <1>3, <1>5, <1>7, VariantsOverBytes DEF Whole
<1>10. Whole(ClusterId)
  BY Basics DEF ClusterId
<1> QED BY <1>2, <1>8, <1>9, <1>10, WholeTuples DEF Destination

-----------------------------------------------------------------------------
(* Neighbor, discovery, routing, tunnel, trusted, stream.                   *)
LEMMA LowerFormats ==
  /\ Whole(NeighborControlFrame) /\ Whole(DiscoveryFrame) /\ Closing(RoutingFrame)
  /\ Closing(TunnelFrame) /\ Closing(TrustedFrame) /\ Closing(StreamFrame) /\ Whole(PseudoHeader)
  /\ Closing(DataFrameBody)
<1>1. Whole(Cost) /\ Whole(FrameId) /\ Whole(TunnelPortId) /\ Whole(SequenceNumber)
      /\ Whole(AcknowledgementNumber) /\ Whole(ChecksumSerdeable)
  BY Basics DEF Cost, FrameId, TunnelPortId, SequenceNumber, AcknowledgementNumber,
     ChecksumSerdeable
<1>2. Whole(NeighborControlFrame)
  BY <1>1, Nodes, LowFlags, WholeTuples DEF NeighborControlFrame, Object
<1>3. Whole(Enum({1, 2}, Uint8))
  BY Enums
<1>4. Whole(DiscoveryFrame)
  BY <1>1, <1>3, Nodes, WholeTuples DEF DiscoveryFrame
<1>5. Closing(RoutingFrame)
  BY <1>1, Nodes, Basics, ClosingTuples DEF RoutingFrame
<1>6. Closing(TunnelFrame)
  BY <1>1, Basics, ClosingTuples DEF TunnelFrame, Object
<1>7. Closing(DataFrameBody)
  BY <1>1, Basics, ClosingTuples DEF DataFrameBody, Object
<1>8. Closing(Constant) /\ Closing(DataAckFrameBody)
  BY <1>1, Basics, WholeCloses DEF DataAckFrameBody
<1>9. Closing(TrustedFrame)
  BY <1>1, <1>7, <1>8, Variants, ClosingTuples
  DEF TrustedFrame, Object, SynFrameBody, SynAckFrameBody, FinFrameBody, FinAckFrameBody
<1>10. Closing(StreamFrame)
  BY Basics, ClosingTuples DEF StreamFrame, Object
<1>11. Whole(PseudoHeader)
  BY <1>1, Nodes, Basics, WholeTuples DEF PseudoHeader, Object
<1> QED BY <1>2, <1>4, <1>5, <1>6, <1>7, <1>9, <1>10, <1>11

-----------------------------------------------------------------------------
(* Observer.                                                                *)
LEMMA ObserverFormats ==
  /\ Whole(NetworkNodeUpdatedEntry) /\ Whole(NetworkLinkUpdatedEntry)
  /\ Whole(NetworkLinkRemovedEntry) /\ Whole(NetworkFrameReceivedEntry)
  /\ Whole(NetworkNotificationEntry) /\ Whole(NetworkNotificationFrame) /\ Whole(ObserverFrame)
<1>1. Whole(Cost) /\ Whole(ClusterId)
  BY Basics DEF Cost, ClusterId
<1>2. Whole(SelfUpdatedEntry) /\ Whole(NeighborUpdatedEntry) /\ Whole(NeighborRemovedEntry)
  BY <1>1, Nodes, WholeTuples DEF SelfUpdatedEntry, NeighborUpdatedEntry, NeighborRemovedEntry,
     Object
<1>3. Whole(NodeNotificationEntry)
  BY <1>2, Basics, Variants DEF NodeNotificationEntry, FrameReceivedEntry
<1>4. Whole(NodeNotificationFrame)
  BY <1>3, Composed, WholeTuples DEF NodeNotificationFrame, Object
<1>5. Whole(NodeSyncFrame)
  BY <1>1, Nodes, Composed, WholeTuples DEF NodeSyncFrame, NeighborSerdeable, Object
<1>6. Whole(NetworkNodeUpdatedEntry) /\ Whole(NetworkLinkUpdatedEntry) /\ Whole(NetworkLinkRemovedEntry)
      /\ Whole(NetworkFrameReceivedEntry)
  BY <1>1, Nodes, Composed, WholeTuples
  DEF NetworkNodeUpdatedEntry, NetworkLinkUpdatedEntry, NetworkLinkRemovedEntry,
      NetworkFrameReceivedEntry, Object
<1>7. Whole(NetworkNotificationEntry)
  BY <1>6, Variants DEF NetworkNotificationEntry
<1>8. Whole(NetworkNotificationFrame) /\ Whole(NetworkSubscriptionFrame)
  BY <1>7, Basics, Composed, WholeTuples DEF NetworkNotificationFrame, NetworkSubscriptionFrame,
     Object
<1>9. Whole(ObserverFrame)
  BY <1>4, <1>5, <1>8, Basics, Variants DEF ObserverFrame, NodeSubscriptionFrame
<1> QED BY <1>6, <1>7, <1>8, <1>9

-----------------------------------------------------------------------------
(* Remote procedures.                                                       *)
LEMMA RpcFormats ==
  /\ Closing(RpcFrame) /\ Whole(BlinkParam) /\ Whole(GetMediaListResult)
  /\ Whole(ConnectToAccessPointParam) /\ Whole(StartServerParam) /\ Whole(CloseServerParam)
  /\ Whole(SetAddressParam) /\ Whole(SetEthernetIpAddressParam) /\ Whole(SetEthernetSubnetMaskParam)
  /\ Whole(Config) /\ Whole(SendHelloParam) /\ Whole(ResolveAddressParam)
  /\ Whole(ResolveAddressResult) /\ Whole(GetVRoutersResult) /\ Whole(DeleteVRouterParam)
<1>1. Whole(ProcedureSerdeable)
  <2>1. \A v \in Procedure : v \in Nat /\ v < Weight[3]
    BY WeightIs, SMT DEF Procedure
  <2>2. Procedure \subseteq Uint16.values
    BY <2>1, Uints
  <2> QED BY <2>2, Basics, SomeOf DEF ProcedureSerdeable, Enum
<1>2. Whole(RpcStatusSerdeable)
  <2>1. \A v \in RpcStatus : v \in Nat /\ v <= 255
    BY DEF RpcStatus
  <2> QED BY <2>1, Enums DEF RpcStatusSerdeable
<1>3. Closing(RequestFrame) /\ Closing(ResponseFrame)
  BY <1>1, <1>2, Basics, ClosingTuples DEF RequestFrame, ResponseFrame, RequestId
<1>4. Closing(RpcFrame)
  BY <1>3, Variants DEF RpcFrame
<1>5. Whole(Enum({1, 2}, Uint8)) /\ Whole(Enum(AddressType, Uint8))
  BY Enums, AddressTypes
<1>6. Whole(MediaPortNumber) /\ Whole(Cost)
  BY Basics DEF MediaPortNumber, Cost
<1>7. Whole(GetMediaListResult)
  <2>1. Whole(MediaInfo)
    BY <1>5, Addresses, Composed, WholeTuples DEF MediaInfo, Object
  <2> QED BY <2>1, Composed DEF GetMediaListResult
<1>8. Whole(ConnectToAccessPointParam)
  BY <1>6, Composed, WholeTuples DEF ConnectToAccessPointParam, Object
<1>9. Whole(StartServerParam) /\ Whole(CloseServerParam) /\ Whole(SetAddressParam)
  BY <1>6, Addresses, Basics, WholeTuples DEF StartServerParam, CloseServerParam, SetAddressParam,
     Object
<1>10. Whole(SetEthernetIpAddressParam) /\ Whole(SetEthernetSubnetMaskParam)
  BY <1>6, Basics, WholeTuples DEF SetEthernetIpAddressParam, SetEthernetSubnetMaskParam, Object
<1>11. Whole(SendHelloParam)
  BY <1>6, Addresses, Composed, WholeTuples DEF SendHelloParam, Object
<1>12. Whole(ResolveAddressParam) /\ Whole(ResolveAddressResult)
  BY Nodes, Addresses, Composed, WholeTuples DEF ResolveAddressParam, ResolveAddressResult, Object
<1>13. Whole(GetVRoutersResult) /\ Whole(DeleteVRouterParam)
  BY Basics, Composed, WholeTuples DEF VRouter, GetVRoutersResult, DeleteVRouterParam, Object
<1>14. Whole(Config)
  BY LowFlags DEF Config
<1> QED BY <1>4, <1>5, <1>7, <1>8, <1>9, <1>10, <1>11, <1>12, <1>13, <1>14 DEF BlinkParam

-----------------------------------------------------------------------------
(* Applications.                                                            *)
LEMMA OneCharacter == <<108>> \in Character
<1>1. 108 \in Byte
  BY ByteIs
<1> QED BY <1>1, OneByte DEF Character, CharLength

LEMMA AlignmentFits == Alignment \subseteq ShortText.values
<1>1. ASSUME NEW text \in Alignment PROVE text \in TextValues(Uint8)
  <2>1. PICK char : char = <<108>> /\ char \in Character /\ Len(char) = 1
    BY OneCharacter
  <2>2. text \in {<<char>>, <<char, char>>, <<char, char, char>>}
    BY <2>1 DEF Alignment
  <2>3. PICK n \in 1..3 : Len(text) = n
    BY <2>2
  <2>4. text \in Seq(Character) /\ \A i \in 1..n : text[i] = char
    <3>1. CASE text = <<char>>
      BY <2>1, <2>3, <3>1
    <3>2. CASE text = <<char, char>>
      BY <2>1, <2>3, <3>2
    <3>3. CASE text = <<char, char, char>>
      BY <2>1, <2>3, <3>3
    <3> QED BY <2>2, <3>1, <3>2, <3>3
  <2>5. text \in Seq(Bytes)
    BY <2>4, CharacterIs
  <2>6. PICK z : z = [i \in 1..n |-> 1]
    OBVIOUS
  <2>7. z \in [1..n -> Nat] /\ Measures(z, n, text)
    BY <2>1, <2>4, <2>6 DEF Measures
  <2>8. Len(FlattenSeq(text)) = Total(z) /\ Total(z) \in Nat
    BY <2>3, <2>5, <2>7, FlattenLength DEF Bytes
  <2>9. PICK t \in [0..n -> Nat] : Adds(t, n, z)
    BY <2>7, TotalAdds
  <2>10. Total(z) <= 3
    <3>1. t[0] = 0 /\ t[n] = Total(z) /\ \A i \in 1..n : t[i] = t[i - 1] + 1
      BY <2>6, <2>9 DEF Adds
    <3>2. t[1] = 1
      BY <3>1
    <3>3. n >= 2 => t[2] = 2
      BY <3>1, <3>2
    <3>4. n >= 3 => t[3] = 3
      BY <3>1, <3>3
    <3>5. n = 1 \/ n = 2 \/ n = 3
      OBVIOUS
    <3>6. t[n] \in {1, 2, 3}
      BY <3>2, <3>3, <3>4, <3>5
    <3> QED BY <3>1, <3>6
  <2>11. Len(FlattenSeq(text)) \in Uint8.values
    BY <2>8, <2>10, Uints, ByteIs
  <2> QED BY <2>4, <2>11 DEF TextValues
<1>2. ShortText.values = TextValues(Uint8)
  BY DEF ShortText, Text, Serdeable
<1> QED BY <1>1, <1>2

LEMMA ApplicationFormats ==
  /\ Whole(AiImagePacket) /\ Whole(ParamsFrame) /\ Whole(CaptionResult) /\ Whole(MessagePacket)
  /\ Closing(FilePacket) /\ Whole(PostingPacket)
<1>1. Whole(ShortText) /\ Whole(LongText)
  BY Composed DEF ShortText, LongText
<1>2. Whole(AiImagePacket) /\ Whole(PostingPacket)
  BY <1>1, WholeTuples DEF AiImagePacket, PostingPacket, Object
<1>3. Whole(Accepting(ShortText, Alignment))
  BY <1>1, AlignmentFits, SomeOf DEF Accepting
<1>4. Whole(CaptionRenderOptions)
  BY <1>1, <1>3, Basics, Tuple8, RestsAre DEF Whole, CaptionRenderOptions, Object
<1>5. Whole(ServerInfo)
  BY <1>1, Basics, WholeTuples DEF ServerInfo, Object
<1>6. Whole(ParamsFrame)
  BY <1>4, <1>5, WholeTuples, Variants DEF ShowCaption, ClearCaption, ParamsFrame, Object
<1>7. Whole(CaptionResult)
  BY Enums DEF CaptionResult
<1>8. Whole(Date)
  BY Basics DEF Date
<1>9. Whole(MessagePacket)
  BY <1>1, <1>8, Basics, WholeTuples, Variants DEF MessageData, MessagePacket, Object
<1>10. Closing(FilePacket)
  BY <1>1, Basics, ClosingTuples DEF FilePacket, Object
<1> QED BY <1>2, <1>6, <1>7, <1>9, <1>10

Understood(w, r) == Carries(w, r, Bytes)
UnderstoodLast(w, r) == Carries(w, r, {<<>>})

LEMMA UnderstoodTuples ==
  /\ \A a, b, c, ar, br, cr : Understood(a, ar) /\ Understood(b, br) /\ Understood(c, cr) =>
       Understood(Tuple(<<a, b, c>>), Tuple(<<ar, br, cr>>))
  /\ \A a, b, ar, br : Understood(a, ar) /\ Understood(b, br) =>
       Understood(Tuple(<<a, b>>), Tuple(<<ar, br>>))
  /\ \A a, b, c, d, ar, br, cr, dr :
       Understood(a, ar) /\ Understood(b, br) /\ Understood(c, cr) /\ Understood(d, dr) =>
       Understood(Tuple(<<a, b, c, d>>), Tuple(<<ar, br, cr, dr>>))
  /\ \A a, b, c, d, e, ar, br, cr, dr, er :
       Understood(a, ar) /\ Understood(b, br) /\ Understood(c, cr) /\ Understood(d, dr)
           /\ Understood(e, er) =>
       Understood(Tuple(<<a, b, c, d, e>>), Tuple(<<ar, br, cr, dr, er>>))
<1> USE RestsAre DEF Understood
<1>1. ASSUME NEW a, NEW b, NEW c, NEW ar, NEW br, NEW cr, Understood(a, ar), Understood(b, br),
             Understood(c, cr)
      PROVE  Understood(Tuple(<<a, b, c>>), Tuple(<<ar, br, cr>>))
  BY <1>1, Tuple3
<1>2. ASSUME NEW a, NEW b, NEW ar, NEW br, Understood(a, ar), Understood(b, br)
      PROVE  Understood(Tuple(<<a, b>>), Tuple(<<ar, br>>))
  BY <1>2, Tuple2
<1>3. ASSUME NEW a, NEW b, NEW c, NEW d, NEW ar, NEW br, NEW cr, NEW dr,
             Understood(a, ar), Understood(b, br), Understood(c, cr), Understood(d, dr)
      PROVE  Understood(Tuple(<<a, b, c, d>>), Tuple(<<ar, br, cr, dr>>))
  BY <1>3, Tuple4
<1> HIDE DEF Understood
<1>4. \A a, b, c, ar, br, cr : Understood(a, ar) /\ Understood(b, br) /\ Understood(c, cr) =>
       Understood(Tuple(<<a, b, c>>), Tuple(<<ar, br, cr>>))
  BY <1>1
<1>5. \A a, b, ar, br : Understood(a, ar) /\ Understood(b, br) =>
       Understood(Tuple(<<a, b>>), Tuple(<<ar, br>>))
  BY <1>2
<1>6. \A a, b, c, d, ar, br, cr, dr :
       Understood(a, ar) /\ Understood(b, br) /\ Understood(c, cr) /\ Understood(d, dr) =>
       Understood(Tuple(<<a, b, c, d>>), Tuple(<<ar, br, cr, dr>>))
  BY <1>3
<1>7. \A a, b, c, d, e, ar, br, cr, dr, er :
       Understood(a, ar) /\ Understood(b, br) /\ Understood(c, cr) /\ Understood(d, dr)
           /\ Understood(e, er) =>
       Understood(Tuple(<<a, b, c, d, e>>), Tuple(<<ar, br, cr, dr, er>>))
  <2> TAKE a, b, c, d, e, ar, br, cr, dr, er
  <2> HAVE Understood(a, ar) /\ Understood(b, br) /\ Understood(c, cr) /\ Understood(d, dr)
          /\ Understood(e, er)
  <2> QED BY Tuple5, RestsAre DEF Understood
<1> QED BY <1>4, <1>5, <1>6, <1>7

LEMMA WholeUnderstood == \A f : Whole(f) => Understood(f, f)
  BY DEF Whole, Understood
LEMMA ClosingUnderstood == \A f : Closing(f) => UnderstoodLast(f, f)
  BY DEF Closing, UnderstoodLast
LEMMA UnderstoodCloses == \A w, r : Understood(w, r) => UnderstoodLast(w, r)
  BY CarriesLast, RestsAre DEF Understood, UnderstoodLast

LEMMA PyNumbers == PyUInt16 = Uint16 /\ PyUInt32 = Uint32
<1>1. 16 \div 8 = 2 /\ 32 \div 8 = 4
  OBVIOUS
<1> QED BY <1>1 DEF PyUInt16, PyUInt32, PyUInt, Uint16, Uint32

(* What the program asks is what the node reads, and what the node answers  *)
(* is what the program reads.                                               *)
LEMMA IpcParts ==
  /\ Whole(MessageDescriptor) /\ Whole(ServerDescriptor) /\ Whole(SocketDescriptor)
  /\ Whole(SocketProtocol) /\ Whole(TunnelPortId) /\ Whole(Cost)
  /\ PyMessageDescriptor = MessageDescriptor /\ PyServerDescriptor = ServerDescriptor
  /\ PySocketDescriptor = SocketDescriptor /\ PySocketProtocol = SocketProtocol
  /\ PyTunnelPort = TunnelPortId /\ PyCost = Cost
<1>1. Whole(Enum({1, 2, 3}, Uint8))
  BY Enums
<1> QED BY <1>1, Basics, PyNumbers
  DEF MessageDescriptor, ServerDescriptor, SocketDescriptor, SocketProtocol, TunnelPortId, Cost,
    PyMessageDescriptor, PyServerDescriptor, PySocketDescriptor, PySocketProtocol, PyTunnelPort,
        PyCost, PyEnumSerde

LEMMA RequestUnderstood == UnderstoodLast(PyRequestMessage, RequestMessage)
<1>1. Understood(PySendHello, SendHello)
  BY IpcParts, Addresses, WholeUnderstood, UnderstoodTuples DEF PySendHello, SendHello,
     PyDeriveSerde, Object, Understood
<1>2. PyStartServer = StartServer /\ PyCloseServer = CloseServer /\ PyCloseSocket = CloseSocket
  BY IpcParts DEF PyStartServer, StartServer, PyCloseServer, CloseServer, PyCloseSocket,
     CloseSocket, PyDeriveSerde, Object
<1>3. Whole(StartServer) /\ Whole(CloseServer) /\ Whole(CloseSocket)
  BY IpcParts, WholeTuples DEF StartServer, CloseServer, CloseSocket, Object
<1>4. Understood(PyConnectSocket, ConnectSocket)
  <2>1. Understood(PyNodeId, NodeId) /\ Understood(MessageDescriptor, MessageDescriptor)
        /\ Understood(SocketProtocol, SocketProtocol) /\ Understood(TunnelPortId, TunnelPortId)
    BY IpcParts, Nodes, WholeUnderstood DEF Understood
  <2> QED BY <2>1, IpcParts, UnderstoodTuples DEF PyConnectSocket, ConnectSocket, PyDeriveSerde,
             Object
<1>5. PySendData = SendData /\ Closing(SendData)
  BY IpcParts, Basics, ClosingTuples DEF PySendData, SendData, PyRemainingBytes, PyDeriveSerde,
     Object
<1>6. Carries(PyTerminate, Terminate, {<<>>})
  <2>1. PICK w, r : w = Tuple(<<>>) /\ r = Constant
    OBVIOUS
  <2>2. w.values = {<<>>} /\ w.bytes = [v \in {<<>>} |-> EncodeEach(<<>>, v)]
        /\ w.size = [v \in {<<>>} |-> SizeOfEach(<<>>, v)]
    <3>1. Product([i \in DOMAIN <<>> |-> <<>>[i].values]) = {<<>>}
      <4>1. Len([i \in DOMAIN <<>> |-> <<>>[i].values]) = 0
        OBVIOUS
      <4> QED BY <4>1 DEF Product
    <3> QED BY <2>1, <3>1 DEF Tuple, Serdeable
  <2>3. EncodeEach(<<>>, <<>>) = <<>>
    BY DEF EncodeEach, FlattenSeq
  <2>4. Carries(w, w, {<<>>})
    BY <2>1, Tuple0, RestsAre
  <2>5. w.bytes[<<>>] = <<>>
    BY <2>2, <2>3
  <2>6. r.read[<<>> \o <<>>] = Ok(<<>>, <<>>)
    BY <2>1, ConstantIs, RestsAre DEF Carries, ReadsBack
  <2>7. ReadsBack(w, r, {<<>>})
    BY <2>2, <2>5, <2>6 DEF ReadsBack
  <2> QED BY <2>1, <2>4, <2>7 DEF Carries, PyTerminate, PyDeriveSerde, Terminate, Empty
<1>7. PICK of, ofr :
        /\ of = <<PySendHello, PyStartServer, PyCloseServer, PyConnectSocket, PyCloseSocket,
             PySendData, PyTerminate>>
        /\ ofr = <<SendHello, StartServer, CloseServer, ConnectSocket, CloseSocket, SendData, Terminate>>
  OBVIOUS
<1>8. /\ UnderstoodLast(PySendHello, SendHello) /\ UnderstoodLast(PyStartServer, StartServer)
      /\ UnderstoodLast(PyCloseServer, CloseServer) /\ UnderstoodLast(PyConnectSocket, ConnectSocket)
      /\ UnderstoodLast(PyCloseSocket, CloseSocket) /\ UnderstoodLast(PySendData, SendData)
      /\ UnderstoodLast(PyTerminate, Terminate)
  BY <1>1, <1>2, <1>3, <1>4, <1>5, <1>6, WholeUnderstood, ClosingUnderstood, UnderstoodCloses
     DEF UnderstoodLast
<1>9. DOMAIN of = 1..7 /\ DOMAIN ofr = 1..7 /\ \A i \in 1..7 : UnderstoodLast(of[i], ofr[i])
  BY <1>7, <1>8
<1>10. Carries(Variant(of), Variant(ofr), {<<>>})
  BY <1>9, VariantsFromOne, RestsAre DEF UnderstoodLast
<1> QED BY <1>7, <1>10 DEF UnderstoodLast, PyRequestMessage, RequestMessage, PyVariant

LEMMA ResponseUnderstood == UnderstoodLast(ResponseMessage, PyResponseMessage)
<1>1. /\ PyOperationSuccess = OperationSuccess /\ PyServerStarted = ServerStarted
      /\ PyServerClosed = ServerClosed /\ PySocketReceived = SocketReceived /\ PySocketClosed = SocketClosed
  BY IpcParts DEF PyOperationSuccess, OperationSuccess, PyServerStarted, ServerStarted,
     PyServerClosed, ServerClosed,
    PySocketReceived, SocketReceived, PySocketClosed, SocketClosed, PyDeriveSerde, PyRemainingBytes, Object
<1>2. Whole(OperationSuccess) /\ Whole(ServerStarted) /\ Whole(ServerClosed) /\ Whole(SocketClosed)
  BY IpcParts, WholeTuples DEF OperationSuccess, ServerStarted, ServerClosed, SocketClosed, Object
<1>3. Closing(SocketReceived)
  BY IpcParts, Basics, ClosingTuples DEF SocketReceived, Object
<1>4. Understood(OperationFailure, PyOperationFailure)
  <2>1. Understood(LongText, PyTraceStr) /\ Understood(MessageDescriptor, MessageDescriptor)
    BY TextCarries, UintsCount, PyNumbers, IpcParts, WholeUnderstood DEF Understood, LongText,
       PyTraceStr
  <2> QED BY <2>1, IpcParts, UnderstoodTuples DEF OperationFailure, PyOperationFailure,
             PyDeriveSerde, Object
<1>5. Understood(ServerSocketConnected, PyServerSocketConnected) /\ Understood(SocketConnected,
          PySocketConnected)
  <2>1. /\ Understood(NodeId, PyNodeId) /\ Understood(MessageDescriptor, MessageDescriptor)
        /\ Understood(SocketProtocol, SocketProtocol) /\ Understood(TunnelPortId, TunnelPortId)
        /\ Understood(ServerDescriptor, ServerDescriptor) /\ Understood(SocketDescriptor, SocketDescriptor)
    BY IpcParts, Nodes, WholeUnderstood DEF Understood
  <2> QED BY <2>1, IpcParts, UnderstoodTuples
      DEF ServerSocketConnected, PyServerSocketConnected, SocketConnected, PySocketConnected,
          PyDeriveSerde, Object
<1>6. PICK of, ofr :
        /\ of = <<OperationSuccess, OperationFailure, ServerStarted, ServerClosed,
                  ServerSocketConnected, SocketConnected, SocketReceived, SocketClosed>>
        /\ ofr = <<PyOperationSuccess, PyOperationFailure, PyServerStarted, PyServerClosed,
                   PyServerSocketConnected, PySocketConnected, PySocketReceived, PySocketClosed>>
  OBVIOUS
<1>7. /\ UnderstoodLast(OperationSuccess, PyOperationSuccess) /\ UnderstoodLast(OperationFailure,
           PyOperationFailure)
      /\ UnderstoodLast(ServerStarted, PyServerStarted) /\ UnderstoodLast(ServerClosed, PyServerClosed)
      /\ UnderstoodLast(ServerSocketConnected, PyServerSocketConnected)
      /\ UnderstoodLast(SocketConnected, PySocketConnected)
      /\ UnderstoodLast(SocketReceived, PySocketReceived) /\ UnderstoodLast(SocketClosed, PySocketClosed)
  BY <1>1, <1>2, <1>3, <1>4, <1>5, WholeUnderstood, ClosingUnderstood, UnderstoodCloses
<1>8. DOMAIN of = 1..8 /\ DOMAIN ofr = 1..8 /\ \A i \in 1..8 : UnderstoodLast(of[i], ofr[i])
  BY <1>6, <1>7
<1>9. Carries(Variant(of), Variant(ofr), {<<>>})
  BY <1>8, VariantsFromOne, RestsAre DEF UnderstoodLast
<1> QED BY <1>6, <1>9 DEF UnderstoodLast, PyResponseMessage, ResponseMessage, PyVariant

LEMMA KindsUnderstood ==
  \A kind \in DOMAIN Kinds : UnderstoodLast(Kinds[kind].writer, Kinds[kind].reader)
<1>1. /\ Closing(NeighborControlFrame) /\ Closing(DiscoveryFrame) /\ Closing(RoutingFrame)
      /\ Closing(TunnelFrame) /\ Closing(TrustedFrame) /\ Closing(StreamFrame) /\ Closing(ObserverFrame)
  BY LowerFormats, ObserverFormats, WholeCloses
<1>2. /\ Closing(RpcFrame) /\ Closing(BlinkParam) /\ Closing(GetMediaListResult)
      /\ Closing(ConnectToAccessPointParam) /\ Closing(StartServerParam) /\ Closing(CloseServerParam)
      /\ Closing(SetAddressParam) /\ Closing(SetEthernetIpAddressParam) /\ Closing(SetEthernetSubnetMaskParam)
      /\ Closing(Config) /\ Closing(SendHelloParam) /\ Closing(ResolveAddressParam)
      /\ Closing(ResolveAddressResult) /\ Closing(GetVRoutersResult) /\ Closing(DeleteVRouterParam)
  BY RpcFormats, WholeCloses
<1>3. /\ Closing(AiImagePacket) /\ Closing(ParamsFrame) /\ Closing(CaptionResult) /\ Closing(MessagePacket)
      /\ Closing(FilePacket) /\ Closing(PostingPacket)
  BY ApplicationFormats, WholeCloses
<1>4. \A f : Closing(f) => UnderstoodLast(Same(f).writer, Same(f).reader)
  BY ClosingUnderstood DEF Same
<1>5. \A kind \in DOMAIN Kinds :
        \/ \E f : Closing(f) /\ Kinds[kind] = Same(f)
        \/ Kinds[kind] = [writer |-> PyRequestMessage, reader |-> RequestMessage]
        \/ Kinds[kind] = [writer |-> ResponseMessage, reader |-> PyResponseMessage]
  BY <1>1, <1>2, <1>3 DEF Kinds
<1> QED BY <1>4, <1>5, RequestUnderstood, ResponseUnderstood

-----------------------------------------------------------------------------
(* Nothing has happened yet.                                                *)
Fresh ==
  way = "none" =>
    /\ sent = <<>> /\ wire = <<>> /\ received = <<>> /\ failed = "ok"
    /\ parser = NewParser /\ starts = <<>> /\ dropped = 0 /\ consumed = 0

LEMMA FreshInductive ==
  /\ Init => Fresh
  /\ Fresh /\ [Next]_vars => Fresh'
<1>1. Init => Fresh
  BY DEF Init, Fresh
<1>2. ASSUME Fresh, Next PROVE way' # "none"
  <2>1. ASSUME NEW i \in DOMAIN Messages, SendMessage(Messages[i]) PROVE way' # "none"
    BY <2>1 DEF SendMessage
  <2>2. ASSUME ReceiveMessage PROVE way' # "none"
    BY <2>2 DEF ReceiveMessage
  <2>3. ASSUME NEW i \in DOMAIN Streams, SendStream(Streams[i]) PROVE way' # "none"
    BY <2>3 DEF SendStream
  <2>4. ASSUME ReceiveStream PROVE way' # "none"
    BY <2>4 DEF ReceiveStream
  <2>5. ASSUME NEW i \in DOMAIN Updates, SendUpdates(Updates[i]) PROVE way' # "none"
    BY <2>5 DEF SendUpdates
  <2>6. ASSUME ReceiveUpdates PROVE way' # "none"
    BY <2>6 DEF ReceiveUpdates
  <2>7. ASSUME NEW frame \in SerialFrames, SendSerial(frame) PROVE way' # "none"
    BY <2>7 DEF SendSerial
  <2>8. ASSUME NEW byte \in NoiseBytes, Noise(byte) PROVE way' # "none"
    BY <2>8 DEF Noise
  <2>9. ASSUME NEW length \in 1..Len(wire), ReceiveSerial(length) PROVE way' # "none"
    BY <2>9 DEF ReceiveSerial
  <2> QED BY <1>2, <2>1, <2>2, <2>3, <2>4, <2>5, <2>6, <2>7, <2>8, <2>9 DEF Next
<1>3. Fresh /\ UNCHANGED vars => Fresh'
  BY DEF Fresh, vars
<1> QED BY <1>1, <1>2, <1>3 DEF Fresh

(* Which action each way takes.                                             *)
LEMMA Ways ==
  ASSUME Next
  PROVE  /\ way' = "message" =>
              \/ way = "none" /\ \E i \in DOMAIN Messages : SendMessage(Messages[i])
              \/ way = "message" /\ ReceiveMessage
         /\ way' = "stream" =>
              \/ way = "none" /\ \E i \in DOMAIN Streams : SendStream(Streams[i])
              \/ way = "stream" /\ ReceiveStream
         /\ way' = "updates" =>
              \/ way \in {"none", "updates"} /\ \E i \in DOMAIN Updates : SendUpdates(Updates[i])
              \/ way = "updates" /\ ReceiveUpdates
         /\ way' = "serial" =>
              \/ way \in {"none", "serial"} /\ \E frame \in SerialFrames : SendSerial(frame)
              \/ way = "serial" /\ \E byte \in NoiseBytes : Noise(byte)
              \/ way = "serial" /\ \E length \in 1..Len(wire) : ReceiveSerial(length)
<1>1. ASSUME NEW i \in DOMAIN Messages, SendMessage(Messages[i]) PROVE way = "none" /\ way' = "message"
  BY <1>1 DEF SendMessage
<1>2. ASSUME ReceiveMessage PROVE way = "message" /\ way' = "message"
  BY <1>2 DEF ReceiveMessage
<1>3. ASSUME NEW i \in DOMAIN Streams, SendStream(Streams[i]) PROVE way = "none" /\ way' = "stream"
  BY <1>3 DEF SendStream
<1>4. ASSUME ReceiveStream PROVE way = "stream" /\ way' = "stream"
  BY <1>4 DEF ReceiveStream
<1>5. ASSUME NEW i \in DOMAIN Updates, SendUpdates(Updates[i]) PROVE way \in {"none", "updates"}
             /\ way' = "updates"
  BY <1>5 DEF SendUpdates
<1>6. ASSUME ReceiveUpdates PROVE way = "updates" /\ way' = "updates"
  BY <1>6 DEF ReceiveUpdates
<1>7. ASSUME NEW frame \in SerialFrames, SendSerial(frame) PROVE way \in {"none", "serial"} /\ way' = "serial"
  BY <1>7 DEF SendSerial
<1>8. ASSUME NEW byte \in NoiseBytes, Noise(byte) PROVE way = "serial" /\ way' = "serial"
  BY <1>8 DEF Noise
<1>9. ASSUME NEW length \in 1..Len(wire), ReceiveSerial(length) PROVE way = "serial" /\ way' = "serial"
  BY <1>9 DEF ReceiveSerial
<1> QED BY <1>1, <1>2, <1>3, <1>4, <1>5, <1>6, <1>7, <1>8, <1>9 DEF Next

-----------------------------------------------------------------------------
(* Single messages.                                                         *)
MessageInv ==
  way = "message" =>
    \E i \in DOMAIN Messages :
      /\ sent = <<Messages[i]>> /\ failed = "ok"
      /\ \/ /\ wire = <<Encode(Kinds[Messages[i].kind].writer, Messages[i].value)>>
            /\ received = <<>>
         \/ wire = <<>> /\ received = <<Ok(Messages[i].value, <<>>)>>

LEMMA MessageUnderstood ==
  ASSUME NEW i \in DOMAIN Messages
  PROVE  /\ Serialize(Kinds[Messages[i].kind].writer, Messages[i].value)
              = [is |-> "ok", bytes |-> Encode(Kinds[Messages[i].kind].writer, Messages[i].value)]
         /\ Decode(Kinds[Messages[i].kind].reader, Encode(Kinds[Messages[i].kind].writer, Messages[i].value))
              = Ok(Messages[i].value, <<>>)
<1>1. PICK kind \in DOMAIN Kinds : kind = Messages[i].kind /\ Messages[i].value \in Kinds[kind].writer.values
  BY MessagesAssumption
<1>2. PICK w, r, v : w = Kinds[kind].writer /\ r = Kinds[kind].reader /\ v = Messages[i].value
  OBVIOUS
<1>3. Carries(w, r, {<<>>}) /\ v \in w.values
  BY <1>1, <1>2, KindsUnderstood DEF UnderstoodLast
<1>4. PICK e \in Bytes : e = w.bytes[v] /\ Len(e) = w.size[v]
  BY <1>3 DEF Carries, Writes
<1>5. r.read[e \o <<>>] = Ok(v, <<>>) /\ e \o <<>> = e
  BY <1>3, <1>4, BytesJoin DEF Carries, ReadsBack
<1>6. Serialize(w, v) = [is |-> "ok", bytes |-> e]
  BY <1>4 DEF Serialize, Encode, SerializedLength
<1> QED BY <1>1, <1>2, <1>4, <1>5, <1>6 DEF Encode, Decode

LEMMA MessageInductive ==
  /\ Init => MessageInv
  /\ Fresh /\ MessageInv /\ [Next]_vars => MessageInv'
<1>1. Init => MessageInv
  BY DEF Init, MessageInv
<1>2. ASSUME Fresh, MessageInv, Next, way' = "message" PROVE MessageInv'
  <2>1. ASSUME way = "none", NEW i \in DOMAIN Messages, SendMessage(Messages[i]) PROVE MessageInv'
    <3>1. received' = <<>> /\ sent' = <<Messages[i]>>
      BY <1>2, <2>1 DEF SendMessage, Fresh
    <3>2. failed' = "ok" /\ wire' = <<Encode(Kinds[Messages[i].kind].writer, Messages[i].value)>>
      <4>1. PICK e, result : /\ e = Encode(Kinds[Messages[i].kind].writer, Messages[i].value)
                             /\ result = Serialize(Kinds[Messages[i].kind].writer, Messages[i].value)
        OBVIOUS
      <4>2. result = [is |-> "ok", bytes |-> e]
        BY <4>1, MessageUnderstood
      <4>3. failed' = result.is /\ wire' = IF result.is = "ok" THEN <<result.bytes>> ELSE <<>>
        BY <2>1, <4>1 DEF SendMessage
      <4> QED BY <4>1, <4>2, <4>3
    <3> QED BY <3>1, <3>2 DEF MessageInv
  <2>2. ASSUME way = "message", ReceiveMessage PROVE MessageInv'
    <3>1. PICK i \in DOMAIN Messages :
            /\ sent = <<Messages[i]>> /\ failed = "ok"
            /\ wire = <<Encode(Kinds[Messages[i].kind].writer, Messages[i].value)>> /\ received = <<>>
      BY <1>2, <2>2 DEF MessageInv, ReceiveMessage
    <3>2. PICK e : e = Encode(Kinds[Messages[i].kind].writer, Messages[i].value)
      OBVIOUS
    <3>3. sent' = sent /\ failed' = failed /\ wire' = Tail(wire) /\ sent[1] = Messages[i]
          /\ received' = Append(received, Decode(Kinds[sent[1].kind].reader, Head(wire)))
      BY <2>2, <3>1 DEF ReceiveMessage
    <3>4. Tail(wire) = <<>> /\ Head(wire) = e
      BY <3>1, <3>2
    <3>5. received' = <<Ok(Messages[i].value, <<>>)>>
      <4>1. PICK x : x = Decode(Kinds[Messages[i].kind].reader, e)
        OBVIOUS
      <4>2. x = Ok(Messages[i].value, <<>>)
        BY <3>2, <4>1, MessageUnderstood
      <4>3. received' = Append(<<>>, x)
        BY <3>1, <3>3, <3>4, <4>1
      <4> QED BY <4>2, <4>3
    <3> QED BY <3>1, <3>3, <3>4, <3>5 DEF MessageInv
  <2> QED BY <1>2, <2>1, <2>2, Ways
<1>3. MessageInv /\ UNCHANGED vars => MessageInv'
  BY DEF MessageInv, vars
<1> QED BY <1>1, <1>2, <1>3 DEF MessageInv

(* Every message of every kind is read as it was written, whatever its      *)
(* value.                                                                   *)
THEOREM RoundTripHolds == Spec => []RoundTrip
<1>1. Fresh /\ MessageInv => RoundTrip
  BY DEF MessageInv, RoundTrip
<1>2. Init => Fresh /\ MessageInv
  BY FreshInductive, MessageInductive
<1>3. Fresh /\ MessageInv /\ [Next]_vars => Fresh' /\ MessageInv'
  BY FreshInductive, MessageInductive
<1> QED BY <1>1, <1>2, <1>3, PTL DEF Spec

-----------------------------------------------------------------------------
(* What the bytes of a composed value are, and how many.                    *)
Written(f, x, e, s) ==
  /\ x \in f.values /\ e = Encode(f, x) /\ s = SerializedLength(f, x)
  /\ e \in Bytes /\ s \in Nat /\ Len(e) = s

LEMMA EncodesAs ==
  ASSUME NEW f, NEW x, NEW e, NEW s, Written(f, x, e, s)
  PROVE  Encode(f, x) = e /\ SerializedLength(f, x) = s /\ e \in Bytes /\ s \in Nat /\ Len(e) = s
  BY DEF Written

LEMMA WritesValues ==
  ASSUME NEW f, NEW r, NEW Rests, Carries(f, r, Rests), NEW x \in f.values
  PROVE  Written(f, x, Encode(f, x), SerializedLength(f, x))
  BY DEF Carries, Writes, Encode, SerializedLength, Written

LEMMA Flatten2 ==
  ASSUME NEW e1 \in Bytes, NEW e2 \in Bytes
  PROVE  FlattenSeq(<<e1, e2>>) = e1 \o e2
<1>1. PICK S, s : S = Byte /\ s = <<e1, e2>>
  OBVIOUS
<1>2. s \in Seq(Seq(S)) /\ Len(s) = 2
  BY <1>1 DEF Bytes
<1>3. PICK g \in [0..2 -> Seq(S)] : Joins(g, 2, s)
  BY <1>2, FlattenJoins
<1>4. g[0] = <<>> /\ g[2] = FlattenSeq(s) /\ g[1] = g[0] \o e1 /\ g[2] = g[1] \o e2
  <2>1. \A i \in 1..2 : g[i] = g[i - 1] \o s[i]
    BY <1>3 DEF Joins
  <2>2. g[1] = g[0] \o e1
    BY <1>1, <2>1
  <2>3. g[2] = g[1] \o e2
    BY <1>1, <2>1
  <2> QED BY <1>3, <2>2, <2>3 DEF Joins
<1>5. <<>> \o e1 = e1
  BY BytesJoin
<1> QED BY <1>1, <1>4, <1>5

LEMMA Total2 ==
  ASSUME NEW s1 \in Nat, NEW s2 \in Nat
  PROVE  Total(<<s1, s2>>) = s1 + s2
<1>1. PICK s : s = <<s1, s2>>
  OBVIOUS
<1>2. s \in [1..2 -> Nat] /\ s[1] = s1 /\ s[2] = s2
  BY <1>1
<1>3. PICK t \in [0..2 -> Nat] : Adds(t, 2, s)
  <2>1. PICK n \in Nat : n = 2
    OBVIOUS
  <2>2. s \in [1..n -> Nat]
    BY <1>2, <2>1
  <2>3. \E t \in [0..n -> Nat] : Adds(t, n, s)
    BY <2>2, TotalAdds
  <2> QED BY <2>1, <2>3
<1>4. t[0] = 0 /\ t[2] = Total(s) /\ \A i \in 1..2 : t[i] = t[i - 1] + s[i]
  BY <1>3 DEF Adds
<1>5. t[1] = t[0] + s1
  BY <1>2, <1>4
<1>6. t[2] = t[1] + s2
  BY <1>2, <1>4
<1> QED BY <1>1, <1>2, <1>4, <1>5, <1>6

LEMMA Written2 ==
  ASSUME NEW a, NEW v1, NEW e1, NEW s1, NEW b, NEW v2, NEW e2, NEW s2,
         Written(a, v1, e1, s1), Written(b, v2, e2, s2)
  PROVE  Written(Tuple(<<a, b>>), <<v1, v2>>, e1 \o e2, s1 + s2)
<1>1. PICK P, v, w : P = <<a, b>> /\ v = <<v1, v2>> /\ w = Tuple(P)
  OBVIOUS
<1>2. PICK V : V = Product([i \in DOMAIN P |-> P[i].values])
  OBVIOUS
<1>3. /\ w.values = V /\ w.bytes = [u \in V |-> EncodeEach(P, u)] /\ w.size = [u \in V |-> SizeOfEach(P, u)]
  BY <1>1, <1>2 DEF Tuple, Serdeable
<1>4. v \in V
  <2>1. PICK S : S = [i \in DOMAIN P |-> P[i].values]
    OBVIOUS
  <2>2. Len(S) = 2 /\ S[1] = a.values /\ S[2] = b.values
    BY <1>1, <2>1
  <2>3. Product(S) = S[1] \X S[2]
    BY <2>2 DEF Product
  <2>4. v1 \in a.values /\ v2 \in b.values
    BY DEF Written
  <2> QED BY <1>1, <1>2, <2>1, <2>2, <2>3, <2>4
<1>5. EncodeEach(P, v) = FlattenSeq(<<e1, e2>>)
  <2>1. [i \in DOMAIN P |-> Encode(P[i], v[i])] = <<e1, e2>>
    BY <1>1 DEF Written
  <2> QED BY <2>1 DEF EncodeEach
<1>6. SizeOfEach(P, v) = Total(<<s1, s2>>)
  <2>1. [i \in DOMAIN P |-> SerializedLength(P[i], v[i])] = <<s1, s2>>
    BY <1>1 DEF Written
  <2> QED BY <2>1 DEF SizeOfEach, Total
<1>7. EncodeEach(P, v) = e1 \o e2
  <2>1. e1 \in Bytes /\ e2 \in Bytes
    BY DEF Written
  <2> QED BY <1>5, <2>1, Flatten2
<1>8. SizeOfEach(P, v) = s1 + s2
  <2>1. s1 \in Nat /\ s2 \in Nat
    BY DEF Written
  <2> QED BY <1>6, <2>1, Total2
<1>9. /\ e1 \o e2 \in Bytes /\ Len(e1 \o e2) = s1 + s2
      /\ s1 + s2 \in Nat
  <2>1. e1 \in Bytes /\ s1 \in Nat /\ Len(e1) = s1 /\ e2 \in Bytes /\ s2 \in Nat /\ Len(e2) = s2
    BY DEF Written
  <2>2. PICK f2 : f2 = e1 \o e2
    OBVIOUS
  <2>3. f2 \in Bytes /\ Len(f2) = Len(e1) + Len(e2)
    BY <2>1, <2>2,  BytesJoin
  <2>4. Len(f2) = s1 + s2
    BY <2>1, <2>3
  <2> QED BY <2>2, <2>3, <2>4, <2>1
<1>10. w.bytes[v] = e1 \o e2 /\ w.size[v] = s1 + s2
  BY <1>3, <1>4, <1>7, <1>8
<1> QED BY <1>1, <1>3, <1>4, <1>9, <1>10 DEF Written, Encode, SerializedLength

LEMMA Flatten3 ==
  ASSUME NEW e1 \in Bytes, NEW e2 \in Bytes, NEW e3 \in Bytes
  PROVE  FlattenSeq(<<e1, e2, e3>>) = (e1 \o e2) \o e3
<1>1. PICK S, s : S = Byte /\ s = <<e1, e2, e3>>
  OBVIOUS
<1>2. s \in Seq(Seq(S)) /\ Len(s) = 3
  BY <1>1 DEF Bytes
<1>3. PICK g \in [0..3 -> Seq(S)] : Joins(g, 3, s)
  BY <1>2, FlattenJoins
<1>4. g[0] = <<>> /\ g[3] = FlattenSeq(s) /\ g[1] = g[0] \o e1 /\ g[2] = g[1] \o e2 /\ g[3] = g[2] \o e3
  <2>1. \A i \in 1..3 : g[i] = g[i - 1] \o s[i]
    BY <1>3 DEF Joins
  <2>indices. /\ 1 \in 1..3 /\ 2 \in 1..3 /\ 3 \in 1..3
              /\ 1 - 1 = 0 /\ 2 - 1 = 1 /\ 3 - 1 = 2
    OBVIOUS
  <2>items. s[1] = e1 /\ s[2] = e2 /\ s[3] = e3
    BY <1>1
  <2>2. g[1] = g[0] \o e1
    BY <2>1, <2>indices, <2>items
  <2>3. g[2] = g[1] \o e2
    BY <2>1, <2>indices, <2>items
  <2>4. g[3] = g[2] \o e3
    BY <2>1, <2>indices, <2>items
  <2> QED BY <1>3, <2>2, <2>3, <2>4 DEF Joins
<1>5. <<>> \o e1 = e1
  BY BytesJoin
<1> QED BY <1>1, <1>4, <1>5

LEMMA Total3 ==
  ASSUME NEW s1 \in Nat, NEW s2 \in Nat, NEW s3 \in Nat
  PROVE  Total(<<s1, s2, s3>>) = s1 + s2 + s3
<1>1. PICK s : s = <<s1, s2, s3>>
  OBVIOUS
<1>2. s \in [1..3 -> Nat]
  BY <1>1
<1>items. s[1] = s1 /\ s[2] = s2 /\ s[3] = s3
  BY <1>1
<1>3. PICK t \in [0..3 -> Nat] : Adds(t, 3, s)
  <2>1. PICK n \in Nat : n = 3
    OBVIOUS
  <2>2. s \in [1..n -> Nat]
    BY <1>2, <2>1
  <2>3. \E t \in [0..n -> Nat] : Adds(t, n, s)
    BY <2>2, TotalAdds
  <2> QED BY <2>1, <2>3
<1>4. t[0] = 0 /\ t[3] = Total(s) /\ \A i \in 1..3 : t[i] = t[i - 1] + s[i]
  BY <1>3 DEF Adds
<1>adds. \A i \in 1..3 : t[i] = t[i - 1] + s[i]
  BY <1>4
<1>indices. /\ 1 \in 1..3 /\ 2 \in 1..3 /\ 3 \in 1..3
            /\ 1 - 1 = 0 /\ 2 - 1 = 1 /\ 3 - 1 = 2
  OBVIOUS
<1>5. t[1] = t[0] + s1
  BY <1>adds, <1>indices, <1>items, Zenon
<1>6. t[2] = t[1] + s2
  BY <1>adds, <1>indices, <1>items, Zenon
<1>7. t[3] = t[2] + s3
  BY <1>adds, <1>indices, <1>items, Zenon
<1> QED BY <1>1, <1>2, <1>4, <1>5, <1>6, <1>7

LEMMA Written3 ==
  ASSUME NEW a, NEW v1, NEW e1, NEW s1, NEW b, NEW v2, NEW e2, NEW s2, NEW c, NEW v3, NEW e3, NEW s3,
         Written(a, v1, e1, s1), Written(b, v2, e2, s2), Written(c, v3, e3, s3)
  PROVE  Written(Tuple(<<a, b, c>>), <<v1, v2, v3>>, (e1 \o e2) \o e3, s1 + s2 + s3)
<1>1. PICK P, v, w : P = <<a, b, c>> /\ v = <<v1, v2, v3>> /\ w = Tuple(P)
  OBVIOUS
<1>2. PICK V : V = Product([i \in DOMAIN P |-> P[i].values])
  OBVIOUS
<1>3. /\ w.values = V /\ w.bytes = [u \in V |-> EncodeEach(P, u)] /\ w.size = [u \in V |-> SizeOfEach(P, u)]
  BY <1>1, <1>2 DEF Tuple, Serdeable
<1>4. v \in V
  <2>1. PICK S : S = [i \in DOMAIN P |-> P[i].values]
    OBVIOUS
  <2>2. Len(S) = 3 /\ S[1] = a.values /\ S[2] = b.values /\ S[3] = c.values
    BY <1>1, <2>1
  <2>3. Product(S) = S[1] \X S[2] \X S[3]
    BY <2>2 DEF Product
  <2>4. v1 \in a.values /\ v2 \in b.values /\ v3 \in c.values
    BY DEF Written
  <2> QED BY <1>1, <1>2, <2>1, <2>2, <2>3, <2>4
<1>5. EncodeEach(P, v) = FlattenSeq(<<e1, e2, e3>>)
  <2>1. [i \in DOMAIN P |-> Encode(P[i], v[i])] = <<e1, e2, e3>>
    BY <1>1 DEF Written
  <2> QED BY <2>1 DEF EncodeEach
<1>6. SizeOfEach(P, v) = Total(<<s1, s2, s3>>)
  <2>1. [i \in DOMAIN P |-> SerializedLength(P[i], v[i])] = <<s1, s2, s3>>
    BY <1>1 DEF Written
  <2> QED BY <2>1 DEF SizeOfEach, Total
<1>7. EncodeEach(P, v) = (e1 \o e2) \o e3
  <2>1. e1 \in Bytes /\ e2 \in Bytes /\ e3 \in Bytes
    BY DEF Written
  <2> QED BY <1>5, <2>1, Flatten3
<1>8. SizeOfEach(P, v) = s1 + s2 + s3
  <2>1. s1 \in Nat /\ s2 \in Nat /\ s3 \in Nat
    BY DEF Written
  <2> QED BY <1>6, <2>1, Total3
<1>9. /\ (e1 \o e2) \o e3 \in Bytes /\ Len((e1 \o e2) \o e3) = s1 + s2 + s3
      /\ s1 + s2 + s3 \in Nat
  <2>1. e1 \in Bytes /\ s1 \in Nat /\ Len(e1) = s1 /\ e2 \in Bytes /\ s2 \in Nat /\ Len(e2) = s2
            /\ e3 \in Bytes /\ s3 \in Nat /\ Len(e3) = s3
    BY DEF Written
  <2>2. PICK f2 : f2 = e1 \o e2
    OBVIOUS
  <2>3. f2 \in Bytes /\ Len(f2) = Len(e1) + Len(e2)
    BY <2>1, <2>2,  BytesJoin
  <2>4. Len(f2) = s1 + s2
    BY <2>1, <2>3
  <2>5. PICK f3 : f3 = f2 \o e3
    OBVIOUS
  <2>6. f3 \in Bytes /\ Len(f3) = Len(f2) + Len(e3)
    BY <2>1, <2>5, <2>3, BytesJoin
  <2>7. Len(f3) = s1 + s2 + s3
    BY <2>1, <2>4, <2>6
  <2> QED BY <2>2, <2>3, <2>4, <2>5, <2>6, <2>7, <2>1
<1>10. w.bytes[v] = (e1 \o e2) \o e3 /\ w.size[v] = s1 + s2 + s3
  BY <1>3, <1>4, <1>7, <1>8
<1> QED BY <1>1, <1>3, <1>4, <1>9, <1>10 DEF Written, Encode, SerializedLength

LEMMA Flatten4 ==
  ASSUME NEW b \in Seq(Bytes), Len(b) = 4
  PROVE  FlattenSeq(b) = ((b[1] \o b[2]) \o b[3]) \o b[4]
<1>1. PICK e1, e2, e3, e4 : e1 = b[1] /\ e2 = b[2] /\ e3 = b[3] /\ e4 = b[4]
  OBVIOUS
<1>2. b = <<e1, e2, e3, e4>> /\ e1 \in Bytes /\ e2 \in Bytes /\ e3 \in Bytes /\ e4 \in Bytes
  <2>1. e1 \in Bytes /\ e2 \in Bytes /\ e3 \in Bytes /\ e4 \in Bytes
    <3>1. \A i \in 1..4 : b[i] \in Bytes
      BY ElementOfSeq
    <3> QED BY <1>1, <3>1
  <2>2. PICK d : d = <<e1, e2, e3, e4>>
    OBVIOUS
  <2>3. d \in Seq(Bytes) /\ Len(d) = 4
    BY <2>1, <2>2
  <2>4. \A i \in 1..4 : d[i] = b[i]
    BY <1>1, <2>2
  <2>5. d = b
    BY <2>3, <2>4
  <2> QED BY <2>1, <2>2, <2>5
<1>3. PICK S, s : S = Byte /\ s = <<e1, e2, e3, e4>>
  OBVIOUS
<1>4. s \in Seq(Seq(S)) /\ Len(s) = 4
  BY <1>2, <1>3 DEF Bytes
<1>5. PICK g \in [0..4 -> Seq(S)] : Joins(g, 4, s)
  BY <1>4, FlattenJoins
<1>6. g[0] = <<>> /\ g[4] = FlattenSeq(s) /\ g[1] = g[0] \o e1 /\ g[2] = g[1] \o e2
          /\ g[3] = g[2] \o e3 /\ g[4] = g[3] \o e4
  <2>1. \A i \in 1..4 : g[i] = g[i - 1] \o s[i]
    BY <1>5 DEF Joins
  <2>indices. /\ 1 \in 1..4 /\ 2 \in 1..4 /\ 3 \in 1..4 /\ 4 \in 1..4
              /\ 1 - 1 = 0 /\ 2 - 1 = 1 /\ 3 - 1 = 2 /\ 4 - 1 = 3
    OBVIOUS
  <2>items. s[1] = e1 /\ s[2] = e2 /\ s[3] = e3 /\ s[4] = e4
    BY <1>3
  <2>2. g[1] = g[0] \o e1
    BY <2>1, <2>indices, <2>items
  <2>3. g[2] = g[1] \o e2
    BY <2>1, <2>indices, <2>items
  <2>4. g[3] = g[2] \o e3
    BY <2>1, <2>indices, <2>items
  <2>5. g[4] = g[3] \o e4
    BY <2>1, <2>indices, <2>items
  <2> QED BY <1>5, <2>2, <2>3, <2>4, <2>5 DEF Joins
<1>7. <<>> \o e1 = e1
  BY <1>2, BytesJoin
<1> QED BY <1>1, <1>2, <1>3, <1>6, <1>7

LEMMA Total4 ==
  ASSUME NEW s1 \in Nat, NEW s2 \in Nat, NEW s3 \in Nat, NEW s4 \in Nat
  PROVE  Total(<<s1, s2, s3, s4>>) = s1 + s2 + s3 + s4
<1>1. PICK s : s = <<s1, s2, s3, s4>>
  OBVIOUS
<1>2. s \in [1..4 -> Nat]
  BY <1>1
<1>items. s[1] = s1 /\ s[2] = s2 /\ s[3] = s3 /\ s[4] = s4
  BY <1>1
<1>3. PICK t \in [0..4 -> Nat] : Adds(t, 4, s)
  <2>1. PICK n \in Nat : n = 4
    OBVIOUS
  <2>2. s \in [1..n -> Nat]
    BY <1>2, <2>1
  <2>3. \E t \in [0..n -> Nat] : Adds(t, n, s)
    BY <2>2, TotalAdds
  <2> QED BY <2>1, <2>3
<1>4. t[0] = 0 /\ t[4] = Total(s) /\ \A i \in 1..4 : t[i] = t[i - 1] + s[i]
  BY <1>3 DEF Adds
<1>adds. \A i \in 1..4 : t[i] = t[i - 1] + s[i]
  BY <1>4
<1>indices. /\ 1 \in 1..4 /\ 2 \in 1..4 /\ 3 \in 1..4 /\ 4 \in 1..4
            /\ 1 - 1 = 0 /\ 2 - 1 = 1 /\ 3 - 1 = 2 /\ 4 - 1 = 3
  OBVIOUS
<1>5. t[1] = t[0] + s1
  BY <1>adds, <1>indices, <1>items, ZenonT(40)
<1>6. t[2] = t[1] + s2
  BY <1>adds, <1>indices, <1>items, ZenonT(40)
<1>7. t[3] = t[2] + s3
  BY <1>adds, <1>indices, <1>items, ZenonT(40)
<1>8. t[4] = t[3] + s4
  BY <1>adds, <1>indices, <1>items, ZenonT(40)
<1> QED BY <1>1, <1>2, <1>4, <1>5, <1>6, <1>7, <1>8

LEMMA Written4 ==
  ASSUME NEW a, NEW v1, NEW e1, NEW s1, NEW b, NEW v2, NEW e2, NEW s2, NEW c, NEW v3, NEW e3,
         NEW s3, NEW d, NEW v4, NEW e4, NEW s4,
         Written(a, v1, e1, s1), Written(b, v2, e2, s2), Written(c, v3, e3, s3), Written(d, v4, e4, s4)
  PROVE  Written(Tuple(<<a, b, c, d>>), <<v1, v2, v3, v4>>, ((e1 \o e2) \o e3) \o e4, s1 + s2 + s3 + s4)
<1>1. PICK P, v, w : P = <<a, b, c, d>> /\ v = <<v1, v2, v3, v4>> /\ w = Tuple(P)
  OBVIOUS
<1>2. PICK V : V = Product([i \in DOMAIN P |-> P[i].values])
  OBVIOUS
<1>3. /\ w.values = V /\ w.bytes = [u \in V |-> EncodeEach(P, u)] /\ w.size = [u \in V |-> SizeOfEach(P, u)]
  BY <1>1, <1>2 DEF Tuple, Serdeable
<1>4. v \in V
  <2>1. PICK S : S = [i \in DOMAIN P |-> P[i].values]
    OBVIOUS
  <2>2. Len(S) = 4 /\ S[1] = a.values /\ S[2] = b.values /\ S[3] = c.values /\ S[4] = d.values
    BY <1>1, <2>1
  <2>3. Product(S) = S[1] \X S[2] \X S[3] \X S[4]
    BY <2>2 DEF Product
  <2>4. v1 \in a.values /\ v2 \in b.values /\ v3 \in c.values /\ v4 \in d.values
    BY DEF Written
  <2> QED BY <1>1, <1>2, <2>1, <2>2, <2>3, <2>4
<1>5. EncodeEach(P, v) = FlattenSeq(<<e1, e2, e3, e4>>)
  <2>1. [i \in DOMAIN P |-> Encode(P[i], v[i])] = <<e1, e2, e3, e4>>
    BY <1>1 DEF Written
  <2> QED BY <2>1 DEF EncodeEach
<1>6. SizeOfEach(P, v) = Total(<<s1, s2, s3, s4>>)
  <2>1. [i \in DOMAIN P |-> SerializedLength(P[i], v[i])] = <<s1, s2, s3, s4>>
    BY <1>1 DEF Written
  <2> QED BY <2>1 DEF SizeOfEach, Total
<1>7. EncodeEach(P, v) = ((e1 \o e2) \o e3) \o e4
  <2>1. e1 \in Bytes /\ e2 \in Bytes /\ e3 \in Bytes /\ e4 \in Bytes
    BY DEF Written
  <2>2. FlattenSeq(<<e1, e2, e3, e4>>) = ((e1 \o e2) \o e3) \o e4
    <3>1. PICK bb : bb = <<e1, e2, e3, e4>>
      OBVIOUS
    <3>2. bb \in Seq(Bytes) /\ Len(bb) = 4 /\ bb[1] = e1 /\ bb[2] = e2 /\ bb[3] = e3 /\ bb[4] = e4
      BY <2>1, <3>1
    <3> QED BY <3>1, <3>2, Flatten4
  <2> QED BY <1>5, <2>2
<1>8. SizeOfEach(P, v) = s1 + s2 + s3 + s4
  <2>1. s1 \in Nat /\ s2 \in Nat /\ s3 \in Nat /\ s4 \in Nat
    BY DEF Written
  <2> QED BY <1>6, <2>1, Total4
<1>9. /\ ((e1 \o e2) \o e3) \o e4 \in Bytes /\ Len(((e1 \o e2) \o e3) \o e4) = s1 + s2 + s3 + s4
      /\ s1 + s2 + s3 + s4 \in Nat
  <2>1. e1 \in Bytes /\ s1 \in Nat /\ Len(e1) = s1 /\ e2 \in Bytes /\ s2 \in Nat /\ Len(e2) = s2
            /\ e3 \in Bytes /\ s3 \in Nat /\ Len(e3) = s3 /\ e4 \in Bytes /\ s4 \in Nat /\ Len(e4) = s4
    BY DEF Written
  <2>2. PICK f2 : f2 = e1 \o e2
    OBVIOUS
  <2>3. f2 \in Bytes /\ Len(f2) = Len(e1) + Len(e2)
    BY <2>1, <2>2,  BytesJoin
  <2>4. Len(f2) = s1 + s2
    BY <2>1, <2>3
  <2>5. PICK f3 : f3 = f2 \o e3
    OBVIOUS
  <2>6. f3 \in Bytes /\ Len(f3) = Len(f2) + Len(e3)
    BY <2>1, <2>5, <2>3, BytesJoin
  <2>7. Len(f3) = s1 + s2 + s3
    BY <2>1, <2>4, <2>6
  <2>8. PICK f4 : f4 = f3 \o e4
    OBVIOUS
  <2>9. f4 \in Bytes /\ Len(f4) = Len(f3) + Len(e4)
    BY <2>1, <2>8, <2>6, BytesJoin
  <2>10. Len(f4) = s1 + s2 + s3 + s4
    BY <2>1, <2>7, <2>9
  <2> QED BY <2>2, <2>3, <2>4, <2>5, <2>6, <2>7, <2>8, <2>9, <2>10, <2>1
<1>10. w.bytes[v] = ((e1 \o e2) \o e3) \o e4 /\ w.size[v] = s1 + s2 + s3 + s4
  BY <1>3, <1>4, <1>7, <1>8
<1> QED BY <1>1, <1>3, <1>4, <1>9, <1>10 DEF Written, Encode, SerializedLength

LEMMA Flatten5 ==
  ASSUME NEW b \in Seq(Bytes), Len(b) = 5
  PROVE  FlattenSeq(b) = (((b[1] \o b[2]) \o b[3]) \o b[4]) \o b[5]
<1>1. PICK e1, e2, e3, e4, e5 : e1 = b[1] /\ e2 = b[2] /\ e3 = b[3] /\ e4 = b[4] /\ e5 = b[5]
  OBVIOUS
<1>2. b = <<e1, e2, e3, e4, e5>> /\ e1 \in Bytes /\ e2 \in Bytes /\ e3 \in Bytes /\ e4 \in Bytes
          /\ e5 \in Bytes
  <2>1. e1 \in Bytes /\ e2 \in Bytes /\ e3 \in Bytes /\ e4 \in Bytes /\ e5 \in Bytes
    <3>1. \A i \in 1..5 : b[i] \in Bytes
      BY ElementOfSeq
    <3> QED BY <1>1, <3>1
  <2>2. PICK d : d = <<e1, e2, e3, e4, e5>>
    OBVIOUS
  <2>3. d \in Seq(Bytes) /\ Len(d) = 5
    BY <2>1, <2>2
  <2>4. \A i \in 1..5 : d[i] = b[i]
    BY <1>1, <2>2
  <2>5. d = b
    BY <2>3, <2>4
  <2> QED BY <2>1, <2>2, <2>5
<1>3. PICK S, s : S = Byte /\ s = <<e1, e2, e3, e4, e5>>
  OBVIOUS
<1>4. s \in Seq(Seq(S)) /\ Len(s) = 5
  BY <1>2, <1>3 DEF Bytes
<1>5. PICK g \in [0..5 -> Seq(S)] : Joins(g, 5, s)
  BY <1>4, FlattenJoins
<1>6. g[0] = <<>> /\ g[5] = FlattenSeq(s) /\ g[1] = g[0] \o e1 /\ g[2] = g[1] \o e2
          /\ g[3] = g[2] \o e3 /\ g[4] = g[3] \o e4 /\ g[5] = g[4] \o e5
  <2>1. \A i \in 1..5 : g[i] = g[i - 1] \o s[i]
    BY <1>5 DEF Joins
  <2>indices. /\ 1 \in 1..5 /\ 2 \in 1..5 /\ 3 \in 1..5 /\ 4 \in 1..5 /\ 5 \in 1..5
              /\ 1 - 1 = 0 /\ 2 - 1 = 1 /\ 3 - 1 = 2 /\ 4 - 1 = 3 /\ 5 - 1 = 4
    OBVIOUS
  <2>items. s[1] = e1 /\ s[2] = e2 /\ s[3] = e3 /\ s[4] = e4 /\ s[5] = e5
    BY <1>3
  <2>2. g[1] = g[0] \o e1
    BY <2>1, <2>indices, <2>items
  <2>3. g[2] = g[1] \o e2
    BY <2>1, <2>indices, <2>items
  <2>4. g[3] = g[2] \o e3
    BY <2>1, <2>indices, <2>items
  <2>5. g[4] = g[3] \o e4
    BY <2>1, <2>indices, <2>items
  <2>6. g[5] = g[4] \o e5
    BY <2>1, <2>indices, <2>items
  <2> QED BY <1>5, <2>2, <2>3, <2>4, <2>5, <2>6 DEF Joins
<1>7. <<>> \o e1 = e1
  BY <1>2, BytesJoin
<1> QED BY <1>1, <1>2, <1>3, <1>6, <1>7

LEMMA Total5 ==
  ASSUME NEW s1 \in Nat, NEW s2 \in Nat, NEW s3 \in Nat, NEW s4 \in Nat, NEW s5 \in Nat
  PROVE  Total(<<s1, s2, s3, s4, s5>>) = s1 + s2 + s3 + s4 + s5
<1>1. PICK s : s = <<s1, s2, s3, s4, s5>>
  OBVIOUS
<1>2. s \in [1..5 -> Nat]
  BY <1>1
<1>items. s[1] = s1 /\ s[2] = s2 /\ s[3] = s3 /\ s[4] = s4 /\ s[5] = s5
  BY <1>1
<1>3. PICK t \in [0..5 -> Nat] : Adds(t, 5, s)
  <2>1. PICK n \in Nat : n = 5
    OBVIOUS
  <2>2. s \in [1..n -> Nat]
    BY <1>2, <2>1
  <2>3. \E t \in [0..n -> Nat] : Adds(t, n, s)
    BY <2>2, TotalAdds
  <2> QED BY <2>1, <2>3
<1>4. t[0] = 0 /\ t[5] = Total(s) /\ \A i \in 1..5 : t[i] = t[i - 1] + s[i]
  BY <1>3 DEF Adds
<1>adds. \A i \in 1..5 : t[i] = t[i - 1] + s[i]
  BY <1>4
<1>indices. /\ 1 \in 1..5 /\ 2 \in 1..5 /\ 3 \in 1..5 /\ 4 \in 1..5 /\ 5 \in 1..5
            /\ 1 - 1 = 0 /\ 2 - 1 = 1 /\ 3 - 1 = 2 /\ 4 - 1 = 3 /\ 5 - 1 = 4
  OBVIOUS
<1>5. t[1] = t[0] + s1
  BY <1>adds, <1>indices, <1>items, ZenonT(40)
<1>6. t[2] = t[1] + s2
  BY <1>adds, <1>indices, <1>items, ZenonT(40)
<1>7. t[3] = t[2] + s3
  BY <1>adds, <1>indices, <1>items, ZenonT(40)
<1>8. t[4] = t[3] + s4
  BY <1>adds, <1>indices, <1>items, ZenonT(40)
<1>9. t[5] = t[4] + s5
  BY <1>adds, <1>indices, <1>items, ZenonT(40)
<1> QED BY <1>1, <1>2, <1>4, <1>5, <1>6, <1>7, <1>8, <1>9

LEMMA Written5 ==
  ASSUME NEW a, NEW v1, NEW e1, NEW s1, NEW b, NEW v2, NEW e2, NEW s2, NEW c, NEW v3, NEW e3,
         NEW s3, NEW d, NEW v4, NEW e4, NEW s4, NEW e, NEW v5, NEW e5, NEW s5,
         Written(a, v1, e1, s1), Written(b, v2, e2, s2), Written(c, v3, e3, s3), Written(d, v4, e4,
             s4), Written(e, v5, e5, s5)
  PROVE  Written(Tuple(<<a, b, c, d, e>>), <<v1, v2, v3, v4, v5>>,
      (((e1 \o e2) \o e3) \o e4) \o e5, s1 + s2 + s3 + s4 + s5)
<1>1. PICK P, v, w : P = <<a, b, c, d, e>> /\ v = <<v1, v2, v3, v4, v5>> /\ w = Tuple(P)
  OBVIOUS
<1>2. PICK V : V = Product([i \in DOMAIN P |-> P[i].values])
  OBVIOUS
<1>3. /\ w.values = V /\ w.bytes = [u \in V |-> EncodeEach(P, u)] /\ w.size = [u \in V |-> SizeOfEach(P, u)]
  BY <1>1, <1>2 DEF Tuple, Serdeable
<1>4. v \in V
  <2>1. PICK S : S = [i \in DOMAIN P |-> P[i].values]
    OBVIOUS
  <2>2. Len(S) = 5 /\ S[1] = a.values /\ S[2] = b.values /\ S[3] = c.values /\ S[4] = d.values
            /\ S[5] = e.values
    BY <1>1, <2>1
  <2>3. Product(S) = S[1] \X S[2] \X S[3] \X S[4] \X S[5]
    BY <2>2 DEF Product
  <2>4. v1 \in a.values /\ v2 \in b.values /\ v3 \in c.values /\ v4 \in d.values /\ v5 \in e.values
    BY DEF Written
  <2> QED BY <1>1, <1>2, <2>1, <2>2, <2>3, <2>4
<1>5. EncodeEach(P, v) = FlattenSeq(<<e1, e2, e3, e4, e5>>)
  <2>1. [i \in DOMAIN P |-> Encode(P[i], v[i])] = <<e1, e2, e3, e4, e5>>
    BY <1>1 DEF Written
  <2> QED BY <2>1 DEF EncodeEach
<1>6. SizeOfEach(P, v) = Total(<<s1, s2, s3, s4, s5>>)
  <2>1. [i \in DOMAIN P |-> SerializedLength(P[i], v[i])] = <<s1, s2, s3, s4, s5>>
    BY <1>1 DEF Written
  <2> QED BY <2>1 DEF SizeOfEach, Total
<1>7. EncodeEach(P, v) = (((e1 \o e2) \o e3) \o e4) \o e5
  <2>1. e1 \in Bytes /\ e2 \in Bytes /\ e3 \in Bytes /\ e4 \in Bytes /\ e5 \in Bytes
    BY DEF Written
  <2>2. FlattenSeq(<<e1, e2, e3, e4, e5>>) = (((e1 \o e2) \o e3) \o e4) \o e5
    <3>1. PICK bb : bb = <<e1, e2, e3, e4, e5>>
      OBVIOUS
    <3>2. bb \in Seq(Bytes) /\ Len(bb) = 5 /\ bb[1] = e1 /\ bb[2] = e2 /\ bb[3] = e3
              /\ bb[4] = e4 /\ bb[5] = e5
      BY <2>1, <3>1
    <3> QED BY <3>1, <3>2, Flatten5
  <2> QED BY <1>5, <2>2
<1>8. SizeOfEach(P, v) = s1 + s2 + s3 + s4 + s5
  <2>1. s1 \in Nat /\ s2 \in Nat /\ s3 \in Nat /\ s4 \in Nat /\ s5 \in Nat
    BY DEF Written
  <2> QED BY <1>6, <2>1, Total5
<1>9. /\ (((e1 \o e2) \o e3) \o e4) \o e5 \in Bytes
           /\ Len((((e1 \o e2) \o e3) \o e4) \o e5) = s1 + s2 + s3 + s4 + s5
      /\ s1 + s2 + s3 + s4 + s5 \in Nat
  <2>1. e1 \in Bytes /\ s1 \in Nat /\ Len(e1) = s1 /\ e2 \in Bytes /\ s2 \in Nat /\ Len(e2) = s2
            /\ e3 \in Bytes /\ s3 \in Nat /\ Len(e3) = s3 /\ e4 \in Bytes /\ s4 \in Nat
            /\ Len(e4) = s4 /\ e5 \in Bytes /\ s5 \in Nat /\ Len(e5) = s5
    BY DEF Written
  <2>2. PICK f2 : f2 = e1 \o e2
    OBVIOUS
  <2>3. f2 \in Bytes /\ Len(f2) = Len(e1) + Len(e2)
    BY <2>1, <2>2,  BytesJoin
  <2>4. Len(f2) = s1 + s2
    BY <2>1, <2>3
  <2>5. PICK f3 : f3 = f2 \o e3
    OBVIOUS
  <2>6. f3 \in Bytes /\ Len(f3) = Len(f2) + Len(e3)
    BY <2>1, <2>5, <2>3, BytesJoin
  <2>7. Len(f3) = s1 + s2 + s3
    BY <2>1, <2>4, <2>6
  <2>8. PICK f4 : f4 = f3 \o e4
    OBVIOUS
  <2>9. f4 \in Bytes /\ Len(f4) = Len(f3) + Len(e4)
    BY <2>1, <2>8, <2>6, BytesJoin
  <2>10. Len(f4) = s1 + s2 + s3 + s4
    BY <2>1, <2>7, <2>9
  <2>11. PICK f5 : f5 = f4 \o e5
    OBVIOUS
  <2>12. f5 \in Bytes /\ Len(f5) = Len(f4) + Len(e5)
    BY <2>1, <2>11, <2>9, BytesJoin
  <2>13. Len(f5) = s1 + s2 + s3 + s4 + s5
    BY <2>1, <2>10, <2>12
  <2> QED BY <2>2, <2>3, <2>4, <2>5, <2>6, <2>7, <2>8, <2>9, <2>10, <2>11, <2>12, <2>13, <2>1
<1>10. w.bytes[v] = (((e1 \o e2) \o e3) \o e4) \o e5 /\ w.size[v] = s1 + s2 + s3 + s4 + s5
  BY <1>3, <1>4, <1>7, <1>8
<1> QED BY <1>1, <1>3, <1>4, <1>9, <1>10 DEF Written, Encode, SerializedLength

LEMMA WrittenNumbers ==
  /\ \A v \in Byte : Written(Uint8, v, <<v>>, 1)
  /\ \A v \in Uint16.values : Written(Uint16, v, EncodeUint(2, v), 2)
<1>1. ASSUME NEW v \in Byte PROVE Written(Uint8, v, <<v>>, 1)
  <2>1. v \in Uint8.values /\ Uint8.bytes[v] = <<v>> /\ Uint8.size[v] = 1 /\ <<v>> \in Bytes /\ Len(<<v>>) = 1
    BY Uints, UintSizes, OneByte
  <2> QED BY <2>1 DEF Written, Encode, SerializedLength
<1>2. ASSUME NEW v \in Uint16.values PROVE Written(Uint16, v, EncodeUint(2, v), 2)
  <2>1. Uint16.bytes[v] = EncodeUint(2, v) /\ Uint16.size[v] = 2 /\ v \in Nat
    BY Uints, UintSizes
  <2>2. EncodeUint(2, v) \in Bytes /\ Len(EncodeUint(2, v)) = 2
    BY <2>1, EncodeUintType
  <2> QED BY <2>1, <2>2 DEF Written, Encode, SerializedLength
<1> QED BY <1>1, <1>2

LEMMA WrittenBasics ==
  /\ \A v \in Bytes : Written(Remaining, v, v, Len(v))
  /\ Written(Constant, <<>>, <<>>, 0)
  /\ Written(Bool, TRUE, <<1>>, 1) /\ Written(Bool, FALSE, <<0>>, 1)
<1>1. \A v \in Bytes : Written(Remaining, v, v, Len(v))
  BY RemainingIs, BytesJoin DEF Written, Encode, SerializedLength
<1>2. Written(Constant, <<>>, <<>>, 0)
  BY ConstantIs, BytesJoin DEF Written, Encode, SerializedLength
<1>3. PICK w : w = Bool
  OBVIOUS
<1>4. /\ w.values = BOOLEAN /\ w.size = [v \in BOOLEAN |-> 1]
      /\ w.bytes = [v \in BOOLEAN |-> IF v THEN <<1>> ELSE <<0>>]
  BY <1>3 DEF Bool, Serdeable
<1>5. Written(w, TRUE, <<1>>, 1)
  BY <1>4, OneByte DEF Written, Encode, SerializedLength
<1>6. Written(w, FALSE, <<0>>, 1)
  BY <1>4, OneByte DEF Written, Encode, SerializedLength
<1> QED BY <1>1, <1>2, <1>5, <1>6, <1>3

LEMMA WrittenVariant ==
  ASSUME NEW of, DOMAIN of \subseteq Byte, NEW i \in DOMAIN of, NEW unknown,
         NEW x, NEW e, NEW s, Written(of[i], x, e, s)
  PROVE  Written(VariantOf(of, unknown), <<i, x>>, <<i>> \o e, 1 + s)
<1>1. PICK w, V : w = VariantOf(of, unknown) /\ VariantTables(of, unknown, w, V)
  BY VariantIs
<1>2. PICK v : v = <<i, x>>
  OBVIOUS
<1>3. /\ \A u : u \in V <=> \E j \in DOMAIN of : \E y \in of[j].values : u = <<j, y>>
      /\ w.values = V
      /\ w.bytes = [u \in V |-> EncodeVariant(of, u)]
      /\ w.size = [u \in V |-> 1 + SerializedLength(of[u[1]], u[2])]
  BY <1>1, Zenon DEF VariantTables
<1>4. x \in of[i].values /\ e = Encode(of[i], x) /\ s = SerializedLength(of[i], x)
          /\ e \in Bytes /\ s \in Nat /\ Len(e) = s
  BY DEF Written
<1>5. v \in V
  BY <1>2, <1>3, <1>4
<1>6. v[1] = i /\ v[2] = x
  BY <1>2
<1>7. w.bytes[v] = <<i>> \o e /\ w.size[v] = 1 + s
  BY <1>3, <1>4, <1>5, <1>6 DEF EncodeVariant
<1>8. <<i>> \in Bytes /\ Len(<<i>>) = 1
  BY OneByte
<1>9. PICK h : h = <<i>> /\ h \in Bytes /\ Len(h) = 1
  BY <1>8
<1>10. h \o e \in Bytes /\ Len(h \o e) = 1 + s
  BY <1>4, <1>9, BytesJoin
<1>11. Written(w, v, h \o e, 1 + s)
  <2>1. w.bytes[v] = h \o e /\ w.size[v] = 1 + s /\ v \in w.values /\ 1 + s \in Nat
    BY <1>3, <1>4, <1>5, <1>7, <1>9
  <2> QED BY <1>10, <2>1 DEF Written, Encode, SerializedLength
<1> QED BY <1>1, <1>2, <1>9, <1>11

-----------------------------------------------------------------------------
(* The layers of a stream.                                                  *)
(* The numbers a small run uses: each fits in two bytes.                    *)
Small == {n \in Nat : n <= 1024}

LEMMA SmallNumbers == \A v \in Small : v \in Uint16.values
<1>1. \A v \in Nat : v <= 1024 => v < Weight[3]
  BY WeightIs, SMT
<1> QED BY <1>1, Uints DEF Small

LEMMA SmallAre == 0 \in Small /\ 1 \in Small /\ 2 \in Small /\ 7 \in Small /\ 102 \in Small /\ 1024 \in Small
  BY DEF Small

LEMMA WrittenStream ==
  ASSUME NEW data \in Bytes
  PROVE  /\ Written(StreamFrame, <<TRUE, data>>, <<1>> \o data, 1 + Len(data))
         /\ Written(StreamFrame, <<FALSE, data>>, <<0>> \o data, 1 + Len(data))
  BY WrittenBasics, Written2 DEF StreamFrame, Object

Number(n) == EncodeUint(2, n)

(* The values of frames with two numbers and a payload, and of a routing    *)
(* frame.                                                                   *)
Numbered(m, n, payload) == <<m, n, payload>>
Packet(source, destination, id, payload) == <<source, destination, id, payload>>

LEMMA WrittenData ==
  ASSUME NEW m \in Small, NEW n \in Small, NEW payload \in Bytes, NEW s, s = 2 + 2 + Len(payload)
  PROVE  Written(DataFrameBody, Numbered(m, n, payload), (Number(m) \o Number(n)) \o payload, s)
<1>1. m \in Uint16.values /\ n \in Uint16.values
  BY SmallNumbers
<1>2. Written(Uint16, m, Number(m), 2) /\ Written(Uint16, n, Number(n), 2)
  BY <1>1, WrittenNumbers DEF Number
<1>3. Written(Remaining, payload, payload, Len(payload))
  BY WrittenBasics
<1> QED BY <1>2, <1>3, Written3 DEF DataFrameBody, Object, SequenceNumber, AcknowledgementNumber, Numbered

TrustedBodies ==
  <<SynFrameBody, SynAckFrameBody, FinFrameBody, FinAckFrameBody, DataFrameBody, DataAckFrameBody>>

LEMMA WrittenTrusted ==
  ASSUME NEW c \in Uint16.values, NEW i \in 1..6, NEW x, NEW e, NEW s, Written(TrustedBodies[i], x, e, s)
  PROVE  Written(TrustedFrame, <<c, <<i, x>>>>, Number(c) \o (<<i>> \o e), 2 + (1 + s))
<1>1. DOMAIN TrustedBodies \subseteq Byte /\ i \in DOMAIN TrustedBodies
  BY ByteIs DEF TrustedBodies
<1>2. Written(VariantOf(TrustedBodies, "error"), <<i, x>>, <<i>> \o e, 1 + s)
  BY <1>1, WrittenVariant
<1>3. Written(Uint16, c, Number(c), 2)
  BY WrittenNumbers DEF Number
<1> QED BY <1>2, <1>3, Written2 DEF TrustedFrame, Object, ChecksumSerdeable, TrustedBodies, Variant

LEMMA WrittenTunnel ==
  ASSUME NEW m \in Small, NEW n \in Small, NEW payload \in Bytes, NEW s, s = 2 + 2 + Len(payload)
  PROVE  Written(TunnelFrame, Numbered(m, n, payload), (Number(m) \o Number(n)) \o payload, s)
<1>1. m \in Uint16.values /\ n \in Uint16.values
  BY SmallNumbers
<1>2. Written(Uint16, m, Number(m), 2) /\ Written(Uint16, n, Number(n), 2)
  BY <1>1, WrittenNumbers DEF Number
<1>3. Written(Remaining, payload, payload, Len(payload))
  BY WrittenBasics
<1> QED BY <1>2, <1>3, Written3 DEF TunnelFrame, Object, TunnelPortId, Numbered

LEMMA WrittenEnds ==
  ASSUME NEW source \in Source.values, NEW destination \in Destination.values
  PROVE  /\ Written(Source, source, Encode(Source, source), SerializedLength(Source, source))
         /\ Written(Destination, destination, Encode(Destination, destination),
                    SerializedLength(Destination, destination))
  BY Nodes, WritesValues DEF Whole

LEMMA WrittenRouting ==
  ASSUME NEW source, NEW es, NEW ss, Written(Source, source, es, ss),
         NEW destination, NEW ed, NEW sd, Written(Destination, destination, ed, sd),
         NEW id \in Small, NEW payload \in Bytes, NEW s, s = ss + sd + 2 + Len(payload)
  PROVE  Written(RoutingFrame, Packet(source, destination, id, payload),
                 ((es \o ed) \o Number(id)) \o payload, s)
<1>1. id \in Uint16.values
  BY SmallNumbers
<1>2. Written(Uint16, id, Number(id), 2)
  BY <1>1, WrittenNumbers DEF Number
<1>3. Written(Remaining, payload, payload, Len(payload))
  BY WrittenBasics
<1> QED BY <1>2, <1>3, Written4 DEF RoutingFrame, FrameId, Packet

-----------------------------------------------------------------------------
(* When the checksum of trusted frames verifies at their receiver.          *)

(* The words of a frame of FRAME_MTU bytes add up to far less.              *)
MaxSum == Word * Word

LEMMA WordType == Word \in Nat /\ Word > 0
BY DEF Word

LEMMA LowBits == \A sum \in Nat : sum % Word \in Nat /\ sum % Word < Word
BY WordType

(* A sum is its carries and its low bits.                                   *)
LEMMA SumParts ==
  ASSUME NEW sum \in Nat
  PROVE  /\ sum % Word \in Nat /\ sum % Word < Word
         /\ sum \div Word \in Nat
         /\ sum = Word * (sum \div Word) + (sum % Word)
<1>1. sum % Word \in Nat /\ sum % Word < Word
  BY LowBits
<1>2. sum \div Word \in Nat
  BY DEF Word
<1>3. sum = Word * (sum \div Word) + (sum % Word)
  BY DEF Word
<1> QED
  BY <1>1, <1>2, <1>3

LEMMA FoldedType ==
  ASSUME NEW sum \in Nat
  PROVE  Folded(sum) \in Nat
<1>1. PICK low, high \in Nat : low = sum % Word /\ high = sum \div Word
  BY SumParts, LowBits
<1> QED BY <1>1 DEF Folded

LEMMA DivisionUnique ==
  ASSUME NEW q \in Int, NEW r \in Int, NEW high \in Int, NEW low \in Int,
         0 <= r, r < 65536, 0 <= low, low < 65536, 65536 * q + r = 65536 * high + low
  PROVE  q = high /\ r = low
<1>1. q = high
  OBVIOUS
<1> QED
  BY <1>1

(* Two numbers with these parts are these parts.                            *)
LEMMA PartsUnique ==
  ASSUME NEW high \in Nat, NEW low \in Nat, low < Word
  PROVE  /\ (Word * high + low) \div Word = high
         /\ (Word * high + low) % Word = low
<1> DEFINE sum == Word * high + low
           q == sum \div Word
           r == sum % Word
<1>1. sum \in Nat
  BY WordType
<1>2. r \in Nat /\ r < Word /\ q \in Nat /\ sum = Word * q + r
  BY <1>1, SumParts
<1>3. sum = Word * high + low
  OBVIOUS
<1> HIDE DEF sum, q, r
<1>4. /\ q \in Int /\ r \in Int /\ 0 <= r /\ r < Word
      /\ high \in Int /\ low \in Int /\ 0 <= low /\ low < Word
  BY <1>2, WordType
<1>5. Word * q + r = Word * high + low
  BY <1>2, <1>3, Zenon
<1> HIDE <1>2, <1>3
<1>6. q = high /\ r = low
  <2>1. r < 65536 /\ low < 65536 /\ 65536 * q + r = 65536 * high + low
    BY <1>4, <1>5 DEF Word
  <2> QED
    BY <1>4, <2>1, DivisionUnique
<1> QED
  BY <1>6 DEF sum, q, r

(* A frame that arrives as it was sent verifies if, and only if, adding the *)
(* carries of its sum to the low bits does not carry again: the code folds  *)
(* once (ChecksumCalculator).                                               *)
THEOREM VerifiesUnlessCarriesAgain ==
  ASSUME NEW sum \in Nat, sum < MaxSum
  PROVE  Verify(sum + ChecksumOf(sum)) <=> Folded(sum) < Word
<1> DEFINE high == sum \div Word
           low == sum % Word
<1>1. low \in Nat /\ low < Word /\ high \in Nat /\ sum = Word * high + low
  BY SumParts
<1>2. Folded(sum) = low + high
  BY DEF Folded
<1> HIDE DEF high, low
<1>3. /\ low \in Int /\ 0 <= low /\ low < Word
      /\ high \in Int /\ 0 <= high
      /\ sum = Word * high + low
  BY <1>1, WordType
<1> HIDE <1>1
<1>4. high < Word
  BY <1>3 DEF MaxSum, Word
<1>5. CASE Folded(sum) < Word
  <2>1. ChecksumOf(sum) = Word - 1 - (low + high)
    BY <1>3, <1>2, <1>5 DEF ChecksumOf, Word
  <2>2. Word - 1 - high \in Nat /\ Word - 1 - high < Word
    BY <1>3, <1>4, WordType
  <2>3. sum + ChecksumOf(sum) = Word * high + (Word - 1 - high)
    BY <1>3, <2>1 DEF Word
  <2>4. /\ (Word * high + (Word - 1 - high)) \div Word = high
        /\ (Word * high + (Word - 1 - high)) % Word = Word - 1 - high
    <3>1. high \in Nat
      BY <1>3
    <3> QED
      BY <2>2, <3>1, PartsUnique
  <2>5. Folded(sum + ChecksumOf(sum)) = (Word - 1 - high) + high
    BY <2>3, <2>4 DEF Folded
  <2>6. Folded(sum + ChecksumOf(sum)) = Word - 1
    BY <1>3, <2>5, WordType
  <2> QED
    BY <1>5, <2>6 DEF Verify, Word
<1>6. CASE ~(Folded(sum) < Word)
  <2>1. ChecksumOf(sum) = 2 * Word - 1 - (low + high)
    BY <1>3, <1>4, <1>2, <1>6 DEF ChecksumOf, Word
  <2>2. Word - 1 - high \in Nat /\ Word - 1 - high < Word
    BY <1>3, <1>4, WordType
  <2>3. sum + ChecksumOf(sum) = Word * (high + 1) + (Word - 1 - high)
    BY <1>3, <2>1 DEF Word
  <2>4. /\ (Word * (high + 1) + (Word - 1 - high)) \div Word = high + 1
        /\ (Word * (high + 1) + (Word - 1 - high)) % Word = Word - 1 - high
    <3>1. high + 1 \in Nat
      BY <1>3
    <3> QED
      BY <2>2, <3>1, PartsUnique
  <2>5. Folded(sum + ChecksumOf(sum)) = (Word - 1 - high) + (high + 1)
    BY <2>3, <2>4 DEF Folded
  <2>6. Folded(sum + ChecksumOf(sum)) = Word
    BY <1>3, <2>5, WordType
  <2> QED
    BY <1>6, <2>6 DEF Verify, Word
<1> QED
  BY <1>5, <1>6

-----------------------------------------------------------------------------
(* Sums of words.                                                           *)
LEMMA WordsAre ==
  ASSUME NEW bytes \in Bytes
  PROVE  \E n \in Nat : /\ n = (Len(bytes) + 1) \div 2 /\ Words(bytes) \in [1..n -> Nat]
                        /\ \A i \in 1..n : Words(bytes)[i] < 65536
<1>1. PICK len \in Nat : len = Len(bytes)
  BY BytesJoin
<1>2. PICK n \in Nat : n = (len + 1) \div 2
  OBVIOUS
<1>3. 2 * n <= len + 1
  BY <1>2
<1> DEFINE W(i) == bytes[2 * i - 1] + IF 2 * i <= len THEN 256 * bytes[2 * i] ELSE 0
<1>4. ASSUME NEW i \in 1..n PROVE W(i) \in Nat /\ W(i) < 65536
  <2>1. 2 * i - 1 \in 1..len
    BY <1>3
  <2>2. \A k \in 1..len : bytes[k] \in Nat /\ bytes[k] <= 255
    <3>1. \A k \in 1..len : bytes[k] \in Byte
      BY <1>1 DEF Bytes
    <3> QED BY <3>1, ByteIs
  <2>3. bytes[2 * i - 1] \in Nat /\ bytes[2 * i - 1] <= 255
    BY <2>1, <2>2
  <2>4. CASE 2 * i <= len
    <3>1. 2 * i \in 1..len
      BY <2>4
    <3>2. bytes[2 * i] \in Nat /\ bytes[2 * i] <= 255
      BY <2>2, <3>1
    <3> QED BY <2>3, <2>4, <3>2, SMT
  <2>5. CASE ~(2 * i <= len)
    BY <2>3, <2>5, SMT
  <2> QED BY <2>4, <2>5
<1>5. Words(bytes) = [i \in 1..n |-> W(i)]
  BY <1>1, <1>2 DEF Words
<1> HIDE DEF W
<1>6. Words(bytes) \in [1..n -> Nat] /\ \A i \in 1..n : Words(bytes)[i] < 65536
  BY <1>4, <1>5, SMT
<1> QED BY <1>1, <1>2, <1>6

LEMMA WordsType ==
  ASSUME NEW bytes \in Bytes
  PROVE  Words(bytes) \in [1..((Len(bytes) + 1) \div 2) -> Nat]
<1>1. PICK n \in Nat : n = (Len(bytes) + 1) \div 2 /\ Words(bytes) \in [1..n -> Nat]
  BY WordsAre
<1> QED BY <1>1

LEMMA WordSumIs ==
  ASSUME NEW bytes \in Bytes, Len(bytes) <= 1024
  PROVE  WordSum(bytes) \in Nat /\ WordSum(bytes) < MaxSum
<1>1. PICK n \in Nat : /\ n = (Len(bytes) + 1) \div 2 /\ Words(bytes) \in [1..n -> Nat]
                       /\ \A i \in 1..n : Words(bytes)[i] < 65536
  BY WordsAre
<1>2. PICK w \in [1..n -> Nat] : w = Words(bytes)
  BY <1>1
<1>3. PICK t \in [0..n -> Nat] : Adds(t, n, w)
  BY TotalAdds
<1>4. t[0] = 0 /\ t[n] = Total(w) /\ \A i \in 1..n : t[i] = t[i - 1] + w[i]
  BY <1>3 DEF Adds
<1> DEFINE T == {i \in 0..n : t[i] > 65535 * i}
<1>5. 0 \notin T
  BY <1>4, SMT
<1>6. ASSUME NEW i \in T PROVE i - 1 \in T
  <2>1. i \in 1..n /\ i - 1 \in 0..n /\ t[i] > 65535 * i
    <3>1. i \in 0..n /\ t[i] > 65535 * i
      OBVIOUS
    <3>2. i # 0
      BY <1>5
    <3> HIDE DEF T
    <3> QED BY <3>1, <3>2
  <2>2. t[i] = t[i - 1] + w[i] /\ w[i] < 65536 /\ t[i - 1] \in Nat /\ w[i] \in Nat
    BY <1>1, <1>2, <1>4, <2>1
  <2>3. t[i - 1] > 65535 * (i - 1)
    BY <2>1, <2>2, SMT
  <2> QED BY <2>1, <2>3
<1>7. T = {}
  <2>1. T \in SUBSET (0..n)
    OBVIOUS
  <2> HIDE DEF T
  <2> QED BY <1>5, <1>6, <2>1, Upward
<1>8. t[n] <= 65535 * n
  <2>1. n \in 0..n /\ n \notin T /\ t[n] \in Nat
    <3> HIDE DEF T
    <3> QED BY <1>7
  <2> QED BY <2>1
<1> HIDE DEF T
<1>9. n <= 1024
  <2>1. Len(bytes) \in Nat
    BY BytesJoin
  <2> QED BY <1>1, <2>1
<1>10. t[n] < MaxSum
  BY <1>8, <1>9, SMT DEF MaxSum, Word
<1>11. WordSum(bytes) = Total(w)
  BY <1>2 DEF WordSum, Total
<1> QED BY <1>4, <1>10, <1>11

(* The checksum is the first word: it adds itself to the sum.               *)
LEMMA ChecksumAddsItself ==
  ASSUME NEW c \in Uint16.values, NEW bytes \in Bytes
  PROVE  WordSum(Number(c) \o bytes) = WordSum(Number(0) \o bytes) + c
<1>1. c \in Nat /\ c < Weight[3] /\ 0 \in Uint16.values
  BY Uints, SmallNumbers, SmallAre
<1>2. PICK a, z \in Bytes : a = Number(c) \o bytes /\ z = Number(0) \o bytes
                            /\ Len(a) = 2 + Len(bytes) /\ Len(z) = 2 + Len(bytes)
  <2>1. Number(c) \in Bytes /\ Len(Number(c)) = 2 /\ Number(0) \in Bytes /\ Len(Number(0)) = 2
    BY <1>1, EncodeUintType DEF Number
  <2>2. PICK x, y \in Bytes : x = Number(c) /\ y = Number(0) /\ Len(x) = 2 /\ Len(y) = 2
    BY <2>1
  <2>3. x \o bytes \in Bytes /\ Len(x \o bytes) = 2 + Len(bytes)
    BY <2>2, JoinIs
  <2>4. y \o bytes \in Bytes /\ Len(y \o bytes) = 2 + Len(bytes)
    BY <2>2, JoinIs
  <2> QED BY <2>2, <2>3, <2>4
<1>3. PICK len \in Nat : len = 2 + Len(bytes) /\ len >= 2
  BY BytesJoin
<1>4. /\ a[1] = c % 256 /\ a[2] = (c \div 256) % 256 /\ z[1] = 0 /\ z[2] = 0
      /\ \A k \in 3..len : a[k] = z[k]
  <2>1. PICK x, y : /\ x = Number(c) /\ y = Number(0)
                    /\ x \in Seq(Byte) /\ Len(x) = 2 /\ y \in Seq(Byte) /\ Len(y) = 2
                    /\ x[1] = (c \div 1) % 256 /\ x[2] = (c \div 256) % 256
                    /\ y[1] = (0 \div 1) % 256 /\ y[2] = (0 \div 256) % 256
    <3>1. Number(c) \in Bytes /\ Len(Number(c)) = 2 /\ Number(0) \in Bytes /\ Len(Number(0)) = 2
      BY <1>1, EncodeUintType DEF Number
    <3>2. Number(c) \in Seq(Byte) /\ Number(0) \in Seq(Byte)
      BY <3>1 DEF Bytes
    <3>3. PICK x, y : x = Number(c) /\ y = Number(0)
      OBVIOUS
    <3>4. /\ x[1] = (c \div Weight[1]) % 256 /\ x[2] = (c \div Weight[2]) % 256
          /\ y[1] = (0 \div Weight[1]) % 256 /\ y[2] = (0 \div Weight[2]) % 256
      BY <3>3 DEF Number, EncodeUint
    <3> QED BY <3>1, <3>2, <3>3, <3>4, WeightIs
  <2>2. \A k \in 1..len : /\ a[k] = IF k <= 2 THEN x[k] ELSE bytes[k - 2]
                          /\ z[k] = IF k <= 2 THEN y[k] ELSE bytes[k - 2]
    BY <1>2, <1>3, <2>1 DEF Bytes
  <2>3. a[1] = x[1] /\ a[2] = x[2] /\ z[1] = y[1] /\ z[2] = y[2]
    BY <1>3, <2>2
  <2>4. \A k \in 3..len : a[k] = z[k]
    BY <2>2
  <2>5. c \div 1 = c /\ (0 \div 1) % 256 = 0 /\ (0 \div 256) % 256 = 0
    BY <1>1
  <2> QED BY <2>1, <2>3, <2>4, <2>5
<1>5. PICK n \in Nat : /\ n = (len + 1) \div 2 /\ n >= 1 /\ 2 * n <= len + 1
                       /\ Words(a) \in [1..n -> Nat] /\ Words(z) \in [1..n -> Nat]
  <2>1. PICK n \in Nat : n = (len + 1) \div 2
    BY <1>3
  <2>2. n = (len + 1) \div 2 /\ Words(a) \in [1..n -> Nat]
    BY <1>2, <1>3, <2>1, WordsType
  <2>3. Words(z) \in [1..n -> Nat]
    BY <1>2, <1>3, <2>1, WordsType
  <2>4. n >= 1 /\ 2 * n <= len + 1
    BY <1>3, <2>2
  <2> QED BY <2>2, <2>3, <2>4
<1>6. PICK w, u \in [1..n -> Nat] : w = Words(a) /\ u = Words(z)
  BY <1>5
<1>7. /\ w = [i \in 1..n |-> a[2 * i - 1] + IF 2 * i <= len THEN 256 * a[2 * i] ELSE 0]
         /\ u = [i \in 1..n |-> z[2 * i - 1] + IF 2 * i <= len THEN 256 * z[2 * i] ELSE 0]
  <2>1. Len(a) = len /\ Len(z) = len /\ n = (len + 1) \div 2
    BY <1>2, <1>3, <1>5
  <2>2. w = Words(a) /\ u = Words(z)
    BY <1>6
  <2>3. w = [i \in 1..n |-> a[2 * i - 1] + IF 2 * i <= len THEN 256 * a[2 * i] ELSE 0]
    BY <2>1, <2>2 DEF Words
  <2>4. u = [i \in 1..n |-> z[2 * i - 1] + IF 2 * i <= len THEN 256 * z[2 * i] ELSE 0]
    BY <2>1, <2>2 DEF Words
  <2> QED BY <2>3, <2>4
<1>8. w[1] = c /\ u[1] = 0
  <2>1. /\ w[1] = a[2 * 1 - 1] + IF 2 * 1 <= len THEN 256 * a[2 * 1] ELSE 0
        /\ u[1] = z[2 * 1 - 1] + IF 2 * 1 <= len THEN 256 * z[2 * 1] ELSE 0
    <3>1. 1 \in 1..n
      BY <1>5
    <3> QED BY <1>7, <3>1
  <2>2. w[1] = (c % 256) + 256 * ((c \div 256) % 256) /\ u[1] = 0 + 256 * 0
    BY <1>3, <1>4, <2>1
  <2>3. (c % 256) + 256 * ((c \div 256) % 256) = c
    BY <1>1, WeightIs, SMT
  <2> QED BY <2>2, <2>3
<1>9. \A i \in 2..n : w[i] = u[i]
  <2>1. ASSUME NEW i \in 2..n PROVE w[i] = u[i]
    <3>1. /\ w[i] = a[2 * i - 1] + IF 2 * i <= len THEN 256 * a[2 * i] ELSE 0
          /\ u[i] = z[2 * i - 1] + IF 2 * i <= len THEN 256 * z[2 * i] ELSE 0
      <4>1. i \in 1..n
        BY <1>5
      <4> QED BY <1>7, <4>1
    <3>2. 2 * i - 1 \in 3..len /\ (2 * i <= len => 2 * i \in 3..len)
      BY <1>5
    <3>3. a[2 * i - 1] = z[2 * i - 1] /\ (2 * i <= len => a[2 * i] = z[2 * i])
      BY <1>4, <3>2
    <3> QED BY <3>1, <3>3
  <2> QED BY <2>1
<1>10. PICK t \in [0..n -> Nat] : Adds(t, n, w)
  BY TotalAdds
<1>11. PICK v \in [0..n -> Nat] : Adds(v, n, u)
  BY TotalAdds
<1>12. /\ t[0] = 0 /\ t[n] = Total(w) /\ \A i \in 1..n : t[i] = t[i - 1] + w[i]
       /\ v[0] = 0 /\ v[n] = Total(u) /\ \A i \in 1..n : v[i] = v[i - 1] + u[i]
  BY <1>10, <1>11 DEF Adds
<1> DEFINE T == {i \in 0..n : i > 0 /\ t[i] # v[i] + c}
<1>13. 0 \notin T
  OBVIOUS
<1>14. ASSUME NEW i \in T PROVE i - 1 \in T
  <2>1. i \in 1..n /\ i - 1 \in 0..n /\ t[i] # v[i] + c
    OBVIOUS
  <2> HIDE DEF T
  <2>2. t[i] = t[i - 1] + w[i] /\ v[i] = v[i - 1] + u[i] /\ t[i - 1] \in Nat /\ v[i - 1] \in Nat
        /\ w[i] \in Nat /\ u[i] \in Nat
    BY <1>12, <2>1
  <2>3. i # 1
    BY <1>1, <1>8, <1>12, <2>1, <2>2
  <2>4. i \in 2..n
    BY <2>1, <2>3
  <2>5. w[i] = u[i]
    BY <1>9, <2>4
  <2>6. t[i - 1] # v[i - 1] + c /\ i - 1 > 0
    BY <1>1, <2>1, <2>2, <2>4, <2>5
  <2> QED BY <2>1, <2>6 DEF T
<1>15. T = {}
  <2>1. T \in SUBSET (0..n)
    OBVIOUS
  <2> HIDE DEF T
  <2> QED BY <1>13, <1>14, <2>1, Upward
<1>16. t[n] = v[n] + c
  <2>1. n \in 0..n /\ n \notin T /\ n > 0
    <3> HIDE DEF T
    <3> QED BY <1>5, <1>15
  <2> QED BY <2>1
<1>17. WordSum(a) = Total(w) /\ WordSum(z) = Total(u)
  BY <1>6 DEF WordSum, Total
<1> HIDE DEF T
<1> QED BY <1>2, <1>12, <1>16, <1>17

-----------------------------------------------------------------------------
(* What is written as a value is read as that value.                        *)
LEMMA ReadAsWritten ==
  ASSUME NEW f, NEW x, NEW e, NEW s, Written(f, x, e, s), Closing(f)
  PROVE  Decode(f, e) = Ok(x, <<>>)
<1>1. x \in f.values /\ e = f.bytes[x] /\ e \in Bytes
  BY DEF Written, Encode
<1>2. f.read[e \o <<>>] = Ok(x, <<>>) /\ e \o <<>> = e
  BY <1>1, BytesJoin DEF Closing, Carries, ReadsBack
<1> QED BY <1>2 DEF Decode

-----------------------------------------------------------------------------
(* The headers of all layers of a stream.                                   *)
LEMMA Headers ==
  ASSUME NEW source \in Source.values, NEW destination \in Destination.values
  PROVE  LET ss == SerializedLength(Source, source)
             sd == SerializedLength(Destination, destination)
         IN  ss \in Nat /\ sd \in Nat /\ StreamMaxPayload(source, destination) = 240 - ss - sd
<1>1. PICK ss, sd : ss = SerializedLength(Source, source) /\ sd = SerializedLength(Destination, destination)
  OBVIOUS
<1>2. PICK k, nothing : k = 0 /\ k \in Small /\ nothing = <<>> /\ nothing \in Bytes /\ Len(nothing) = 0
  BY BytesJoin, SmallAre
<1>3. PICK es, ed : Written(Source, source, es, ss) /\ Written(Destination, destination, ed, sd)
  BY <1>1, WrittenEnds
<1>4. RoutingHeaderLength(source, destination) = ss + sd + 2
  <2>1. PICK s : s = ss + sd + 2 + Len(nothing)
    OBVIOUS
  <2>2. Written(RoutingFrame, Packet(source, destination, k, nothing),
                ((es \o ed) \o Number(k)) \o nothing, s)
    BY <1>2, <1>3, <2>1, WrittenRouting
  <2>3. SerializedLength(RoutingFrame, Packet(source, destination, k, nothing)) = s
    BY <2>2, EncodesAs
  <2>4. RoutingHeaderLength(source, destination) = s
    BY <1>2, <2>3 DEF RoutingHeaderLength, Packet
  <2>5. ss \in Nat /\ sd \in Nat
    BY <1>3, EncodesAs
  <2> QED BY <1>2, <2>1, <2>4, <2>5
<1>5. TunnelHeaderLength = 4
  <2>1. 0 \in Uint16.values
    BY SmallNumbers, SmallAre
  <2>2. Written(Uint16, 0, EncodeUint(2, 0), 2)
    BY <2>1, WrittenNumbers
  <2> QED BY <2>2 DEF Written, TunnelHeaderLength, TunnelPortId
<1>6. TrustedDataHeaderLength = 7
  <2>1. DataBodyHeaderLength = 4
    <3>1. PICK s : s = 2 + 2 + Len(nothing)
      OBVIOUS
    <3>2. Written(DataFrameBody, Numbered(k, k, nothing), (Number(k) \o Number(k)) \o nothing, s)
      BY <1>2, <3>1, WrittenData
    <3>3. SerializedLength(DataFrameBody, Numbered(k, k, nothing)) = s
      BY <3>2, EncodesAs
    <3> QED BY <1>2, <3>1, <3>3 DEF DataBodyHeaderLength, Numbered
  <2>2. TrustedHeaderLength = 3
    <3>1. 0 \in Uint16.values
      BY SmallNumbers, SmallAre
    <3>2. Written(TrustedBodies[1], <<>>, <<>>, 0)
      BY WrittenBasics DEF TrustedBodies, SynFrameBody
    <3>3. Written(TrustedFrame, <<0, <<1, <<>>>>>>, Number(0) \o (<<1>> \o <<>>), 2 + (1 + 0))
      <4>1. PICK i \in 1..6 : i = 1
        OBVIOUS
      <4>2. PICK x, e, s : i = 1 /\ x = <<>> /\ e = <<>> /\ s = 0
        BY <4>1
      <4>3. Written(TrustedBodies[i], x, e, s)
        BY <3>2, <4>2
      <4>4. Written(TrustedFrame, <<0, <<i, x>>>>, Number(0) \o (<<i>> \o e), 2 + (1 + s))
        BY <3>1, <4>3, WrittenTrusted
      <4> QED BY <4>2, <4>4
    <3> QED BY <3>3 DEF Written, TrustedHeaderLength
  <2> QED BY <2>1, <2>2 DEF TrustedDataHeaderLength
<1>7. StreamHeaderLength = 1
  <2>1. Written(StreamFrame, <<FALSE, <<>>>>, <<0>> \o <<>>, 1 + Len(<<>>))
    BY WrittenStream, BytesJoin
  <2> QED BY <2>1, BytesJoin DEF Written, StreamHeaderLength
<1>8. ss \in Nat /\ sd \in Nat
  BY <1>3, EncodesAs
<1>9. StreamMaxPayload(source, destination) = 240 - ss - sd
  BY <1>4, <1>5, <1>6, <1>7, <1>8
  DEF StreamMaxPayload, TrustedMaxPayload, TunnelMaxPayload, RoutingMaxPayload, LinkMaxPayload, FRAME_MTU
<1> QED BY <1>1, <1>8, <1>9

(* A stream frame in its data frame, as it is sent.                         *)
StreamBytes(stream) == <<1>> \o Data(stream)
TrustedBody(stream) == <<5, <<1, 2, StreamBytes(stream)>>>>
BodyBytes(stream) == <<5>> \o ((Number(1) \o Number(2)) \o StreamBytes(stream))

IsStream(stream) ==
  /\ stream.source \in Source.values /\ stream.destination \in Destination.values
  /\ stream.length \in Nat /\ stream.byte \in Byte

LEMMA DataIs ==
  ASSUME NEW stream, IsStream(stream)
  PROVE  Data(stream) \in Bytes /\ Len(Data(stream)) = stream.length
<1>1. PICK n \in Nat : n = stream.length
  BY DEF IsStream
<1>2. PICK d : d = Data(stream)
  OBVIOUS
<1>3. d = [i \in 1..n |-> stream.byte]
  BY <1>1, <1>2 DEF Data
<1>4. d \in Bytes /\ Len(d) = n
  BY <1>3 DEF IsStream, Bytes
<1> QED BY <1>1, <1>2, <1>4

LEMMA StreamIsWritten ==
  ASSUME NEW stream, IsStream(stream)
  PROVE  /\ Written(StreamFrame, <<TRUE, Data(stream)>>, StreamBytes(stream), 1 + stream.length)
         /\ BodyBytes(stream) \in Bytes /\ Len(BodyBytes(stream)) = 6 + stream.length
         /\ \A c \in Uint16.values :
              Written(TrustedFrame, <<c, TrustedBody(stream)>>, Number(c) \o BodyBytes(stream),
                  8 + stream.length)
<1>1. PICK n \in Nat : n = stream.length
  BY DEF IsStream
<1>2. Written(StreamFrame, <<TRUE, Data(stream)>>, StreamBytes(stream), 1 + n)
  <2>1. PICK d \in Bytes : d = Data(stream) /\ Len(d) = n
    BY <1>1, DataIs
  <2>2. Written(StreamFrame, <<TRUE, d>>, <<1>> \o d, 1 + n)
    BY <2>1, WrittenStream
  <2> QED BY <2>1, <2>2 DEF StreamBytes
<1>3. PICK b \in Bytes : b = StreamBytes(stream) /\ Len(b) = 1 + n
  BY <1>2 DEF Written
<1>4. PICK x, e, s : x = <<1, 2, b>> /\ e = (Number(1) \o Number(2)) \o b /\ s = 5 + n
  OBVIOUS
<1>5. Written(DataFrameBody, x, e, s)
  <2>1. PICK k, l \in Small : k = 1 /\ l = 2
    BY SmallAre
  <2>2. s = 2 + 2 + Len(b)
    BY <1>3, <1>4
  <2>3. Written(DataFrameBody, Numbered(k, l, b), (Number(k) \o Number(l)) \o b, s)
    BY <2>2, WrittenData
  <2>4. x = Numbered(k, l, b) /\ e = (Number(k) \o Number(l)) \o b
    BY <1>4, <2>1 DEF Numbered
  <2> QED BY <2>3, <2>4
<1>6. Written(TrustedBodies[5], x, e, s)
  BY <1>5 DEF TrustedBodies
<1>7. BodyBytes(stream) = <<5>> \o e /\ TrustedBody(stream) = <<5, x>>
  BY <1>3, <1>4 DEF BodyBytes, TrustedBody
<1>8. BodyBytes(stream) \in Bytes /\ Len(BodyBytes(stream)) = 6 + n
  <2>1. e \in Bytes /\ Len(e) = 5 + n
    BY <1>4, <1>5 DEF Written
  <2>2. PICK h \in Bytes : h = <<5>> /\ Len(h) = 1
    <3>1. 5 \in Byte
      BY ByteIs
    <3> QED BY <3>1, OneByte
  <2>3. h \o e \in Bytes /\ Len(h \o e) = 1 + Len(e)
    BY <2>1, <2>2, BytesJoin
  <2> QED BY <1>7, <2>1, <2>2, <2>3
<1>9. ASSUME NEW c \in Uint16.values
      PROVE  Written(TrustedFrame, <<c, TrustedBody(stream)>>, Number(c) \o BodyBytes(stream), 8 + n)
  <2>1. Written(TrustedFrame, <<c, <<5, x>>>>, Number(c) \o (<<5>> \o e), 2 + (1 + s))
    BY <1>6, WrittenTrusted
  <2>2. 2 + (1 + s) = 8 + n
    BY <1>4
  <2> QED BY <1>7, <2>1, <2>2
<1> QED BY <1>1, <1>2, <1>8, <1>9

(* The addresses of its frame, and what its checksum covers after itself.   *)
Ends(stream) == Encode(Source, stream.source) \o Encode(Destination, stream.destination)
EndsLength(stream) ==
  SerializedLength(Source, stream.source) + SerializedLength(Destination, stream.destination)
PseudoBytes(stream) ==
  ((Ends(stream) \o Number(1024)) \o Number(102)) \o <<8 + stream.length>>
Covered(stream) == BodyBytes(stream) \o PseudoBytes(stream)

(* It fits into a frame.                                                    *)
Fits(stream) == IsStream(stream) /\ stream.length <= StreamMaxPayload(stream.source, stream.destination)

LEMMA EndsAre ==
  ASSUME NEW stream, Fits(stream)
  PROVE  /\ Ends(stream) \in Bytes /\ Len(Ends(stream)) = EndsLength(stream) /\ EndsLength(stream) \in Nat
         /\ StreamMaxPayload(stream.source, stream.destination) = 240 - EndsLength(stream)
         /\ stream.length \in Nat /\ stream.length + EndsLength(stream) <= 240
<1>1. PICK es, ed, ss, sd : /\ es = Encode(Source, stream.source) /\ ed = Encode(Destination,
                                  stream.destination)
                            /\ ss = SerializedLength(Source, stream.source)
                            /\ sd = SerializedLength(Destination, stream.destination)
  OBVIOUS
<1>2. stream.source \in Source.values /\ stream.destination \in Destination.values /\ stream.length \in Nat
      /\ stream.length <= StreamMaxPayload(stream.source, stream.destination)
  BY DEF Fits, IsStream
<1>3. Written(Source, stream.source, es, ss) /\ Written(Destination, stream.destination, ed, sd)
  BY <1>1, <1>2, Nodes, WritesValues DEF Whole
<1>4. es \in Bytes /\ ed \in Bytes /\ Len(es) = ss /\ Len(ed) = sd /\ ss \in Nat /\ sd \in Nat
  BY <1>3 DEF Written
<1>5. es \o ed \in Bytes /\ Len(es \o ed) = ss + sd
  BY <1>4, BytesJoin
<1>6. StreamMaxPayload(stream.source, stream.destination) = 240 - ss - sd
  BY <1>1, <1>2, Headers
<1>7. Ends(stream) = es \o ed /\ EndsLength(stream) = ss + sd
  BY <1>1 DEF Ends, EndsLength
<1> QED BY <1>2, <1>4, <1>5, <1>6, <1>7

LEMMA PseudoIsWritten ==
  ASSUME NEW stream, Fits(stream)
  PROVE  Written(PseudoHeader, <<stream.source, stream.destination, 1024, 102, 8 + stream.length>>,
                 PseudoBytes(stream), EndsLength(stream) + 2 + 2 + 1)
<1>1. PICK es, ed, ss, sd : /\ es = Encode(Source, stream.source) /\ ed = Encode(Destination,
                                  stream.destination)
                            /\ ss = SerializedLength(Source, stream.source)
                            /\ sd = SerializedLength(Destination, stream.destination)
  OBVIOUS
<1>2. stream.source \in Source.values /\ stream.destination \in Destination.values
  BY DEF Fits, IsStream
<1>3. Written(Source, stream.source, es, ss) /\ Written(Destination, stream.destination, ed, sd)
  BY <1>1, <1>2, Nodes, WritesValues DEF Whole
<1>4. PICK m, n : m = 1024 /\ n = 102 /\ m \in Uint16.values /\ n \in Uint16.values
  BY SmallNumbers, SmallAre
<1>5. Written(Uint16, m, Number(m), 2) /\ Written(Uint16, n, Number(n), 2)
  BY <1>4, WrittenNumbers DEF Number
<1>6. PICK l \in Byte : l = 8 + stream.length
  <2>1. 8 + stream.length \in Nat /\ 8 + stream.length <= 255
    BY EndsAre
  <2> QED BY <2>1, ByteIs
<1>7. Written(Uint8, l, <<l>>, 1)
  BY WrittenNumbers
<1>8. Written(Tuple(<<Source, Destination, Uint16, Uint16, Uint8>>),
              <<stream.source, stream.destination, m, n, l>>,
              (((es \o ed) \o Number(m)) \o Number(n)) \o <<l>>, ss + sd + 2 + 2 + 1)
  BY <1>3, <1>5, <1>7, Written5
<1>9. /\ PseudoHeader = Tuple(<<Source, Destination, Uint16, Uint16, Uint8>>)
      /\ PseudoBytes(stream) = (((es \o ed) \o Number(m)) \o Number(n)) \o <<l>>
      /\ EndsLength(stream) + 2 + 2 + 1 = ss + sd + 2 + 2 + 1
  BY <1>1, <1>4, <1>6 DEF PseudoHeader, Object, TunnelPortId, PseudoBytes, Ends, EndsLength
<1> QED BY <1>4, <1>6, <1>8, <1>9

LEMMA CoveredIs ==
  ASSUME NEW stream, Fits(stream)
  PROVE  /\ Covered(stream) \in Bytes /\ Len(Covered(stream)) <= 1000
         /\ \A c \in Uint16.values :
              Checked(<<c, TrustedBody(stream)>>, stream.source, stream.destination, 8 + stream.length)
                = Number(c) \o Covered(stream)
<1>1. PICK b, p : b = BodyBytes(stream) /\ p = PseudoBytes(stream)
  OBVIOUS
<1>2. IsStream(stream)
  BY DEF Fits
<1>3. b \in Bytes /\ Len(b) = 6 + stream.length
  BY <1>1, <1>2, StreamIsWritten
<1>4. /\ p \in Bytes /\ Len(p) = EndsLength(stream) + 2 + 2 + 1
      /\ p = Encode(PseudoHeader, <<stream.source, stream.destination, 1024, 102, 8 + stream.length>>)
  BY <1>1, PseudoIsWritten DEF Written
<1>5. b \o p \in Bytes /\ Len(b \o p) = Len(b) + Len(p)
  <2>1. b \in Bytes /\ p \in Bytes
    BY <1>3, <1>4
  <2> QED BY <2>1, BytesJoin
<1>6. Len(b \o p) <= 1000
  <2>1. PICK n, k \in Nat : n = stream.length /\ k = EndsLength(stream) /\ n + k <= 240
    BY EndsAre
  <2>2. PICK x, y : x = Len(b) /\ y = Len(p) /\ x = 6 + n /\ y = k + 2 + 2 + 1
    BY <1>3, <1>4, <2>1
  <2>3. Len(b \o p) = x + y
    BY <1>5, <2>2
  <2>4. x + y <= 1000
    BY <2>1, <2>2
  <2> QED BY <2>3, <2>4
<1>7. ASSUME NEW c \in Uint16.values
      PROVE  Checked(<<c, TrustedBody(stream)>>, stream.source, stream.destination, 8 + stream.length)
               = Number(c) \o (b \o p)
  <2>1. Written(TrustedFrame, <<c, TrustedBody(stream)>>, Number(c) \o b, 8 + stream.length)
    BY <1>1, <1>2, StreamIsWritten
  <2>2. PICK n \in Bytes : n = Number(c)
    BY Uints, EncodeUintType DEF Number
  <2>3. Encode(TrustedFrame, <<c, TrustedBody(stream)>>) = n \o b
    BY <2>1, <2>2 DEF Written
  <2>4. Checked(<<c, TrustedBody(stream)>>, stream.source, stream.destination,
            8 + stream.length) = (n \o b) \o p
    <3>1. Ports[1] = 1024 /\ Ports[2] = 102
      BY DEF Ports
    <3>2. Encode(PseudoHeader, <<stream.source, stream.destination, Ports[1], Ports[2],
              8 + stream.length>>) = p
      BY <1>4, <3>1
    <3> QED BY <2>3, <3>2 DEF Checked
  <2>5. (n \o b) \o p = n \o (b \o p)
    <3>1. b \in Bytes /\ p \in Bytes
      BY <1>3, <1>4
    <3> QED BY <3>1, JoinAssociates
  <2> QED BY <2>2, <2>4, <2>5
<1> QED BY <1>1, <1>5, <1>6, <1>7 DEF Covered

(* The checksum of the frame, and when it verifies.                         *)
ChecksumSent(stream) == ChecksumOf(SumOf(stream))

LEMMA ChecksumOfStream ==
  ASSUME NEW stream, Fits(stream)
  PROVE  /\ SumOf(stream) = WordSum(Number(0) \o Covered(stream))
         /\ ChecksumSent(stream) \in Uint16.values
         /\ CreateTrusted(TrustedBody(stream), stream.source, stream.destination)
              = <<ChecksumSent(stream), TrustedBody(stream)>>
         /\ VerifyChecksum(<<ChecksumSent(stream), TrustedBody(stream)>>, stream.source, stream.destination,
                           8 + stream.length)
              <=> Folded(SumOf(stream)) < Word
<1>1. IsStream(stream) /\ 0 \in Uint16.values
  BY SmallNumbers, SmallAre DEF Fits
<1>2. Encode(StreamFrame, <<TRUE, Data(stream)>>) = StreamBytes(stream)
  BY <1>1, StreamIsWritten DEF Written
<1>3. SerializedLength(TrustedFrame, <<0, TrustedBody(stream)>>) = 8 + stream.length
  BY <1>1, StreamIsWritten DEF Written
<1>4. PICK a : a = Number(0) \o Covered(stream)
  OBVIOUS
<1>5. Checked(<<0, TrustedBody(stream)>>, stream.source, stream.destination, 8 + stream.length) = a
  BY <1>1, <1>4, CoveredIs
<1>6. SumOf(stream) = WordSum(a)
  BY <1>2, <1>3, <1>5 DEF SumOf, TrustedBody
<1>7. PICK sum \in Nat : sum = SumOf(stream) /\ sum < MaxSum
  <2>1. PICK n \in Bytes : n = Number(0) /\ Len(n) = 2
    BY EncodeUintType DEF Number
  <2>2. PICK v \in Bytes : v = Covered(stream) /\ Len(v) <= 1000
    BY CoveredIs
  <2>3. n \o v \in Bytes /\ Len(n \o v) = 2 + Len(v) /\ Len(v) \in Nat
    <3>1. n \o v \in Bytes /\ Len(n \o v) = Len(n) + Len(v)
      BY JoinIs
    <3>2. Len(v) \in Nat
      BY BytesJoin
    <3> QED BY <2>1, <3>1, <3>2
  <2>4. a \in Bytes /\ Len(a) <= 1024
    BY <1>4, <2>1, <2>2, <2>3
  <2> QED BY <1>6, <2>4, WordSumIs
<1>8. ChecksumOf(sum) \in Uint16.values
  <2>1. PICK f : f = Folded(sum) % Word
    OBVIOUS
  <2>2. f \in Nat /\ f < Word
    BY <2>1, FoldedType, LowBits
  <2>3. ChecksumOf(sum) = Word - 1 - f
    BY <2>1 DEF ChecksumOf
  <2>4. ChecksumOf(sum) \in Nat /\ ChecksumOf(sum) < Weight[3]
    BY <2>2, <2>3, WeightIs, SMT DEF Word
  <2> QED BY <2>4, Uints
<1>9. PICK c \in Uint16.values : c = ChecksumSent(stream) /\ c = ChecksumOf(sum)
  BY <1>7, <1>8 DEF ChecksumSent
<1>10. CreateTrusted(TrustedBody(stream), stream.source, stream.destination) = <<c, TrustedBody(stream)>>
  BY <1>3, <1>5, <1>6, <1>7, <1>9 DEF CreateTrusted, ChecksumOfBytes
<1>11. VerifyChecksum(<<c, TrustedBody(stream)>>, stream.source, stream.destination, 8 + stream.length)
         <=> Folded(sum) < Word
  <2>1. WordSum(Number(c) \o Covered(stream)) = WordSum(Number(0) \o Covered(stream)) + c
    BY CoveredIs, ChecksumAddsItself
  <2>2. Checked(<<c, TrustedBody(stream)>>, stream.source, stream.destination, 8 + stream.length)
          = Number(c) \o Covered(stream)
    BY CoveredIs
  <2>3. PICK x : x = WordSum(Number(c) \o Covered(stream))
    OBVIOUS
  <2>4. x = sum + ChecksumOf(sum)
    BY <1>4, <1>6, <1>7, <1>9, <2>1, <2>3
  <2>5. Verify(sum + ChecksumOf(sum)) <=> Folded(sum) < Word
    BY <1>7, VerifiesUnlessCarriesAgain
  <2>6. VerifyChecksum(<<c, TrustedBody(stream)>>, stream.source, stream.destination, 8 + stream.length)
          = Verify(x)
    BY <2>2, <2>3 DEF VerifyChecksum, VerifyBytes
  <2> QED BY <2>4, <2>5, <2>6
<1> QED BY <1>4, <1>6, <1>7, <1>9, <1>10, <1>11

(* The bytes of a stream's frame at each layer.                             *)
TrustedSent(stream) == <<ChecksumSent(stream), TrustedBody(stream)>>
TrustedBytes(stream) == Number(ChecksumSent(stream)) \o BodyBytes(stream)
TunnelSent(stream) == Numbered(1024, 102, TrustedBytes(stream))
TunnelBytes(stream) == (Number(1024) \o Number(102)) \o TrustedBytes(stream)
RoutingSent(stream) == Packet(stream.source, stream.destination, 7, TunnelBytes(stream))
FrameBytes(stream) == (Ends(stream) \o Number(7)) \o TunnelBytes(stream)

LEMMA LayersAreWritten ==
  ASSUME NEW stream, Fits(stream), NEW s, s = stream.length
  PROVE  /\ Written(TrustedFrame, TrustedSent(stream), TrustedBytes(stream), 8 + s)
         /\ Written(TunnelFrame, TunnelSent(stream), TunnelBytes(stream), 12 + s)
         /\ Written(RoutingFrame, RoutingSent(stream), FrameBytes(stream), EndsLength(stream) + 14 + s)
<1>1. PICK n \in Nat : n = s
  BY EndsAre
<1>2. Written(TrustedFrame, TrustedSent(stream), TrustedBytes(stream), 8 + n)
  <2>1. IsStream(stream) /\ ChecksumSent(stream) \in Uint16.values
    BY ChecksumOfStream DEF Fits
  <2> QED BY <1>1, <2>1, StreamIsWritten DEF TrustedSent, TrustedBytes
<1>3. PICK t \in Bytes : t = TrustedBytes(stream) /\ Len(t) = 8 + n
  BY <1>2, EncodesAs
<1>4. Written(TunnelFrame, TunnelSent(stream), TunnelBytes(stream), 12 + n)
  <2>1. PICK k, l \in Small : k = 1024 /\ l = 102
    BY SmallAre
  <2>2. PICK r : r = 12 + n /\ r = 2 + 2 + Len(t)
    BY <1>3
  <2>3. Written(TunnelFrame, Numbered(k, l, t), (Number(k) \o Number(l)) \o t, r)
    BY <2>2, WrittenTunnel
  <2>4. TunnelSent(stream) = Numbered(k, l, t) /\ TunnelBytes(stream) = (Number(k) \o Number(l)) \o t
    BY <1>3, <2>1 DEF TunnelSent, TunnelBytes
  <2> QED BY <2>2, <2>3, <2>4
<1>5. PICK u \in Bytes : u = TunnelBytes(stream) /\ Len(u) = 12 + n
  BY <1>4, EncodesAs
<1>6. Written(RoutingFrame, RoutingSent(stream), FrameBytes(stream), EndsLength(stream) + 14 + n)
  <2>1. PICK source, destination, es, ed, ss, sd :
          /\ source = stream.source /\ es = Encode(Source, source) /\ ss = SerializedLength(Source, source)
          /\ destination = stream.destination /\ ed = Encode(Destination, destination)
          /\ sd = SerializedLength(Destination, destination)
    OBVIOUS
  <2>2. Written(Source, source, es, ss) /\ Written(Destination, destination, ed, sd)
    <3>1. source \in Source.values /\ destination \in Destination.values
      BY <2>1 DEF Fits, IsStream
    <3> QED BY <2>1, <3>1, WrittenEnds
  <2>3. ss \in Nat /\ sd \in Nat
    BY <2>2, EncodesAs
  <2>4. PICK k \in Small : k = 7
    BY SmallAre
  <2>5. FrameBytes(stream) = ((es \o ed) \o Number(k)) \o u /\ EndsLength(stream) = ss + sd
    BY <1>5, <2>1, <2>4 DEF FrameBytes, Ends, EndsLength
  <2>6. PICK r : r = ss + sd + 2 + Len(u) /\ r = EndsLength(stream) + 14 + n
    BY <1>5, <2>3, <2>5
  <2>7. Written(RoutingFrame, Packet(source, destination, k, u), ((es \o ed) \o Number(k)) \o u, r)
    BY <2>2, <2>6, WrittenRouting
  <2>8. RoutingSent(stream) = Packet(source, destination, k, u)
    BY <1>5, <2>1, <2>4 DEF RoutingSent
  <2> QED BY <2>5, <2>6, <2>7, <2>8
<1> QED BY <1>1, <1>2, <1>4, <1>6

LEMMA LayersEncode ==
  ASSUME NEW stream, Fits(stream), NEW s, s = stream.length
  PROVE  /\ Encode(TrustedFrame, TrustedSent(stream)) = TrustedBytes(stream)
         /\ Encode(TunnelFrame, TunnelSent(stream)) = TunnelBytes(stream)
         /\ Encode(RoutingFrame, RoutingSent(stream)) = FrameBytes(stream)
         /\ Len(TrustedBytes(stream)) = 8 + s
         /\ Len(FrameBytes(stream)) = EndsLength(stream) + 14 + s
<1>1. PICK a, b, c : a = 8 + s /\ b = 12 + s /\ c = EndsLength(stream) + 14 + s
  OBVIOUS
<1>2. /\ Written(TrustedFrame, TrustedSent(stream), TrustedBytes(stream), a)
      /\ Written(TunnelFrame, TunnelSent(stream), TunnelBytes(stream), b)
      /\ Written(RoutingFrame, RoutingSent(stream), FrameBytes(stream), c)
  BY <1>1, LayersAreWritten
<1> QED BY <1>1, <1>2, EncodesAs

(* What the sender puts on the wire.                                        *)
LEMMA StreamIsSent ==
  ASSUME NEW stream, Fits(stream)
  PROVE  LET trusted == CreateTrusted(<<5, <<1, 2, Encode(StreamFrame, <<TRUE, Data(stream)>>)>>>>,
                                      stream.source, stream.destination)
             tunnel == Encode(TunnelFrame, <<Ports[1], Ports[2], Encode(TrustedFrame, trusted)>>)
         IN  Encode(RoutingFrame, <<stream.source, stream.destination, 7, tunnel>>) = FrameBytes(stream)
<1>1. Encode(StreamFrame, <<TRUE, Data(stream)>>) = StreamBytes(stream)
  <2>1. IsStream(stream)
    BY DEF Fits
  <2> QED BY <2>1, StreamIsWritten DEF Written
<1>2. CreateTrusted(<<5, <<1, 2, StreamBytes(stream)>>>>, stream.source, stream.destination)
        = TrustedSent(stream)
  BY ChecksumOfStream DEF TrustedBody, TrustedSent
<1>3. Encode(TrustedFrame, TrustedSent(stream)) = TrustedBytes(stream)
  BY LayersEncode
<1>4. Encode(TunnelFrame, <<Ports[1], Ports[2], TrustedBytes(stream)>>) = TunnelBytes(stream)
  <2>1. <<Ports[1], Ports[2], TrustedBytes(stream)>> = TunnelSent(stream)
    BY DEF Ports, TunnelSent, Numbered
  <2> QED BY <2>1, LayersEncode
<1>5. Encode(RoutingFrame, <<stream.source, stream.destination, 7, TunnelBytes(stream)>>) = FrameBytes(stream)
  BY LayersEncode DEF RoutingSent, Packet
<1> QED BY <1>1, <1>2, <1>3, <1>4, <1>5

(* What the receiver makes of it.                                           *)
Understanding(stream) ==
  IF Folded(SumOf(stream)) < Word THEN Ok(<<TRUE, Data(stream)>>, <<>>) ELSE Failed("dropped")

LEMMA StreamIsRead ==
  ASSUME NEW stream, Fits(stream)
  PROVE  AndThen(Decode(RoutingFrame, FrameBytes(stream)), LAMBDA routing, r1 :
         AndThen(Decode(TunnelFrame, routing[4]), LAMBDA tunnel, r2 :
         AndThen(Decode(TrustedFrame, tunnel[3]), LAMBDA trusted, r3 :
           IF VerifyChecksum(trusted, routing[1], routing[2], Len(tunnel[3]))
           THEN Decode(StreamFrame, trusted[2][2][3]) ELSE Failed("dropped"))))
         = Understanding(stream)
<1>1. PICK routing, first :
        /\ routing = RoutingSent(stream)
        /\ first = Decode(RoutingFrame, FrameBytes(stream))
  OBVIOUS
<1>2. PICK tunnel, second :
        tunnel = TunnelSent(stream) /\ second = Decode(TunnelFrame, TunnelBytes(stream))
  OBVIOUS
<1>3. PICK trusted, third :
        trusted = TrustedSent(stream) /\ third = Decode(TrustedFrame, TrustedBytes(stream))
  OBVIOUS
<1>4. first = Ok(routing, <<>>) /\ second = Ok(tunnel, <<>>) /\ third = Ok(trusted, <<>>)
  BY <1>1, <1>2, <1>3, LayersAreWritten, LowerFormats, ReadAsWritten
<1>5. /\ first.is = "ok" /\ first.value = routing /\ first.rest = <<>>
      /\ second.is = "ok" /\ second.value = tunnel /\ second.rest = <<>>
      /\ third.is = "ok" /\ third.value = trusted /\ third.rest = <<>>
  BY <1>4, Continues
<1>6. /\ routing[1] = stream.source /\ routing[2] = stream.destination /\ routing[4] = TunnelBytes(stream)
      /\ tunnel[3] = TrustedBytes(stream) /\ trusted[2][2][3] = StreamBytes(stream)
  BY <1>1, <1>2, <1>3 DEF TrustedSent, TrustedBody, TunnelSent, Numbered, RoutingSent, Packet
<1>7. Len(TrustedBytes(stream)) = 8 + stream.length
  BY LayersEncode
<1>8. VerifyChecksum(trusted, stream.source, stream.destination, 8 + stream.length)
        <=> Folded(SumOf(stream)) < Word
  BY <1>3, ChecksumOfStream DEF TrustedSent
<1>9. Decode(StreamFrame, StreamBytes(stream)) = Ok(<<TRUE, Data(stream)>>, <<>>)
  <2>1. IsStream(stream)
    BY DEF Fits
  <2>2. Written(StreamFrame, <<TRUE, Data(stream)>>, StreamBytes(stream), 1 + stream.length)
    BY <2>1, StreamIsWritten
  <2> QED BY <2>2, LowerFormats, ReadAsWritten
<1> DEFINE Verified(t, r, u) ==
             IF VerifyChecksum(t, r[1], r[2], Len(u[3])) THEN Decode(StreamFrame,
                 t[2][2][3]) ELSE Failed("dropped")
<1>10. Verified(trusted, routing, tunnel) = Understanding(stream)
  BY <1>6, <1>7, <1>8, <1>9 DEF Understanding
<1>11. AndThen(third, LAMBDA t, r3 : Verified(t, routing, tunnel)) = Understanding(stream)
  BY <1>5, <1>10 DEF AndThen
<1>12. AndThen(second, LAMBDA u, r2 : AndThen(Decode(TrustedFrame, u[3]), LAMBDA t,
           r3 : Verified(t, routing, u)))
         = Understanding(stream)
  BY <1>3, <1>5, <1>6, <1>11 DEF AndThen
<1>13. AndThen(first, LAMBDA r, r1 : AndThen(Decode(TunnelFrame, r[4]), LAMBDA u, r2 :
         AndThen(Decode(TrustedFrame, u[3]), LAMBDA t, r3 : Verified(t, r, u)))) = Understanding(stream)
  BY <1>2, <1>5, <1>6, <1>12 DEF AndThen
<1> QED BY <1>1, <1>13

-----------------------------------------------------------------------------
(* A stream's frame on its way, and what the receiver has made of it.       *)
StreamInv ==
  way = "stream" =>
    \E i \in DOMAIN Streams :
      /\ sent = <<Streams[i]>> /\ Fits(Streams[i])
      /\ \/ wire = <<FrameBytes(Streams[i])>> /\ received = <<>>
         \/ wire = <<>> /\ received = <<Understanding(Streams[i])>>

LEMMA StreamInductive ==
  /\ Init => StreamInv
  /\ Fresh /\ StreamInv /\ [Next]_vars => StreamInv'
<1>1. Init => StreamInv
  BY DEF Init, StreamInv
<1>2. ASSUME Fresh, StreamInv, Next, way' = "stream" PROVE StreamInv'
  <2>1. ASSUME way = "none", NEW i \in DOMAIN Streams, SendStream(Streams[i]) PROVE StreamInv'
    <3>1. PICK stream : stream = Streams[i]
      OBVIOUS
    <3>2. Fits(stream)
      BY <2>1, <3>1, StreamsAssumption DEF SendStream, Fits, IsStream
    <3>3. received' = <<>> /\ sent' = <<stream>>
      BY <1>2, <2>1, <3>1 DEF SendStream, Fresh
    <3>4. wire' = <<FrameBytes(stream)>>
      BY <2>1, <3>1, <3>2, StreamIsSent DEF SendStream
    <3> QED BY <3>1, <3>2, <3>3, <3>4 DEF StreamInv
  <2>2. ASSUME way = "stream", ReceiveStream PROVE StreamInv'
    <3>1. PICK i \in DOMAIN Streams :
            sent = <<Streams[i]>> /\ Fits(Streams[i]) /\ wire = <<FrameBytes(Streams[i])>> /\ received = <<>>
      BY <1>2, <2>2 DEF StreamInv, ReceiveStream
    <3>2. PICK stream, e : stream = Streams[i] /\ e = FrameBytes(stream)
      OBVIOUS
    <3>3. Tail(wire) = <<>> /\ Head(wire) = e
      BY <3>1, <3>2
    <3>4. PICK result : result = Understanding(stream)
      OBVIOUS
    <3>5. received' = Append(received, result)
      BY <2>2, <3>1, <3>2, <3>3, <3>4, StreamIsRead DEF ReceiveStream
    <3>6. received' = <<result>>
      BY <3>1, <3>5
    <3>7. sent' = sent /\ wire' = <<>>
      BY <2>2, <3>3 DEF ReceiveStream
    <3> QED BY <3>1, <3>2, <3>4, <3>6, <3>7 DEF StreamInv
  <2> QED BY <1>2, <2>1, <2>2, Ways
<1>3. StreamInv /\ UNCHANGED vars => StreamInv'
  BY DEF StreamInv, vars
<1> QED BY <1>1, <1>2, <1>3 DEF StreamInv

LEMMA StreamAlways == Spec => [](Fresh /\ StreamInv)
<1>1. Init => Fresh /\ StreamInv
  BY FreshInductive, StreamInductive
<1>2. Fresh /\ StreamInv /\ [Next]_vars => Fresh' /\ StreamInv'
  BY FreshInductive, StreamInductive
<1> QED BY <1>1, <1>2, PTL DEF Spec

(* The headers of all layers and the largest payload fill a frame of the    *)
(* link to its last byte, whatever the addresses.                           *)
THEOREM FrameFitsHolds == Spec => []FrameFits
<1>1. ASSUME StreamInv, way = "stream", wire # <<>>
      PROVE  Len(wire[1]) = FRAME_MTU - (StreamMaxPayload(sent[1].source,
          sent[1].destination) - sent[1].length)
  <2>1. PICK stream : sent = <<stream>> /\ Fits(stream) /\ wire = <<FrameBytes(stream)>>
    BY <1>1 DEF StreamInv
  <2>2. PICK e : e = FrameBytes(stream)
    OBVIOUS
  <2>3. Len(e) = EndsLength(stream) + 14 + stream.length
    BY <2>1, <2>2, LayersEncode
  <2>4. PICK n, k \in Nat : n = stream.length /\ k = EndsLength(stream)
                            /\ StreamMaxPayload(stream.source, stream.destination) = 240 - k
    BY <2>1, EndsAre
  <2>5. wire[1] = e /\ sent[1] = stream
    BY <2>1, <2>2
  <2> QED BY <2>3, <2>4, <2>5 DEF FRAME_MTU
<1>2. Fresh /\ StreamInv => FrameFits
  BY <1>1 DEF FrameFits
<1> QED BY <1>2, StreamAlways, PTL

(* What comes out of the receiver's layers is what went into the sender's,  *)
(* unless folding the carries of its sum carries again: then it is dropped. *)
THEOREM StreamWholeHolds == Spec => []StreamWhole
<1>1. ASSUME StreamInv, way = "stream" PROVE StreamWhole
  <2>1. PICK stream : sent = <<stream>> /\ (received = <<>> \/ received = <<Understanding(stream)>>)
    BY <1>1 DEF StreamInv
  <2>2. PICK result : result = Understanding(stream)
    OBVIOUS
  <2>3. sent[1] = stream /\ \A i \in DOMAIN received : received[i] = result
    BY <2>1, <2>2
  <2> QED BY <2>2, <2>3 DEF StreamWhole, Understanding
<1>2. Fresh /\ StreamInv => StreamWhole
  BY <1>1 DEF StreamWhole
<1> QED BY <1>2, StreamAlways, PTL

-----------------------------------------------------------------------------
(* Lists of lists, one taken from the front or put at the end.              *)
Associative(S) == \A p, a, b \in Seq(S) : (p \o a) \o b = p \o (a \o b)

LEMMA Associates == \A S : Associative(S)
BY ConcatAssociative DEF Associative

LEMMA FlattenAppend ==
  ASSUME NEW S, NEW s \in Seq(Seq(S)), NEW p \in Seq(S)
  PROVE  FlattenSeq(Append(s, p)) = FlattenSeq(s) \o p /\ FlattenSeq(s) \in Seq(S)
<1>1. PICK n, m \in Nat : n = Len(s) /\ m = n + 1
  BY LenProperties
<1>2. PICK u \in Seq(Seq(S)) : u = Append(s, p) /\ Len(u) = m /\ u[m] = p /\ \A i \in 1..n : u[i] = s[i]
  <2>1. PICK R : R = Seq(S)
    OBVIOUS
  <2>2. s \in Seq(R) /\ p \in R
    BY <2>1
  <2>3. /\ Append(s, p) \in Seq(R) /\ Len(Append(s, p)) = Len(s) + 1
        /\ Append(s, p)[Len(s) + 1] = p /\ \A i \in 1..Len(s) : Append(s, p)[i] = s[i]
    BY <2>2, AppendProperties
  <2> QED BY <1>1, <2>1, <2>3
<1>3. PICK g \in [0..n -> Seq(S)] : Joins(g, n, s)
  BY <1>1, FlattenJoins
<1>4. PICK h \in [0..m -> Seq(S)] : Joins(h, m, u)
  BY <1>1, <1>2, FlattenJoins
<1>5. /\ g[0] = <<>> /\ g[n] = FlattenSeq(s) /\ \A i \in 1..n : g[i] = g[i - 1] \o s[i]
      /\ h[0] = <<>> /\ h[m] = FlattenSeq(u) /\ \A i \in 1..m : h[i] = h[i - 1] \o u[i]
  BY <1>3, <1>4 DEF Joins
<1> DEFINE T == {i \in 0..n : h[i] # g[i]}
<1>6. T = {}
  <2>1. 0 \notin T
    BY <1>5
  <2>2. ASSUME NEW i \in T PROVE i - 1 \in T
    <3>1. i \in 1..n /\ i - 1 \in 0..n /\ i \in 1..m /\ h[i] # g[i]
      <4>1. i \in 0..n /\ h[i] # g[i]
        OBVIOUS
      <4>2. i # 0
        BY <2>1
      <4> HIDE DEF T
      <4> QED BY <1>1, <4>1, <4>2
    <3>2. h[i] = h[i - 1] \o u[i] /\ g[i] = g[i - 1] \o s[i] /\ u[i] = s[i]
      BY <1>2, <1>5, <3>1
    <3>3. h[i - 1] # g[i - 1]
      BY <3>1, <3>2
    <3> QED BY <3>1, <3>3
  <2>3. T \in SUBSET (0..n)
    OBVIOUS
  <2> HIDE DEF T
  <2> QED BY <2>1, <2>2, <2>3, Upward
<1>7. h[n] = g[n]
  <2>1. n \in 0..n /\ n \notin T
    <3> HIDE DEF T
    <3> QED BY <1>6
  <2> QED BY <2>1
<1>8. m \in 1..m /\ m - 1 = n
  BY <1>1
<1>9. h[m] = g[n] \o p
  BY <1>2, <1>5, <1>7, <1>8
<1>10. g[n] \in Seq(S)
  BY <1>1
<1> HIDE DEF T
<1> QED BY <1>2, <1>5, <1>9, <1>10

LEMMA FlattenHead ==
  ASSUME NEW S, NEW s \in Seq(Seq(S)), s # <<>>
  PROVE  /\ Head(s) \in Seq(S) /\ Tail(s) \in Seq(Seq(S))
         /\ FlattenSeq(s) = Head(s) \o FlattenSeq(Tail(s))
<1>1. PICK n, m \in Nat : m = Len(s) /\ m >= 1 /\ n = m - 1
  <2>1. Len(s) \in Nat /\ Len(s) # 0
    BY LenProperties, EmptySeq
  <2>2. PICK k \in Nat : k = Len(s) /\ k # 0
    BY <2>1
  <2>3. k >= 1 /\ k - 1 \in Nat
    BY <2>2
  <2> QED BY <2>2, <2>3
<1>2. PICK p, u : p = Head(s) /\ u = Tail(s)
  OBVIOUS
<1>3. /\ p = s[1] /\ p \in Seq(S) /\ u \in Seq(Seq(S)) /\ Len(u) = n
      /\ \A i \in 1..n : u[i] = s[i + 1]
  BY <1>1, <1>2, HeadTailProperties
<1>4. \A a, b \in Seq(S) : (p \o a) \o b = p \o (a \o b)
  <2>1. p \in Seq(S)
    BY <1>3
  <2>2. Associative(S)
    BY Associates
  <2> QED BY <2>1, <2>2 DEF Associative
<1>5. PICK h \in [0..m -> Seq(S)] : Joins(h, m, s)
  BY <1>1, FlattenJoins
<1>6. PICK g \in [0..n -> Seq(S)] : Joins(g, n, u)
  BY <1>1, <1>3, FlattenJoins
<1>7. /\ g[0] = <<>> /\ g[n] = FlattenSeq(u) /\ \A i \in 1..n : g[i] = g[i - 1] \o u[i]
      /\ h[0] = <<>> /\ h[m] = FlattenSeq(s) /\ \A i \in 1..m : h[i] = h[i - 1] \o s[i]
  BY <1>5, <1>6 DEF Joins
<1> DEFINE T == {i \in 0..n : h[i + 1] # p \o g[i]}
<1>8. T = {}
  <2>1. 0 \notin T
    <3>1. h[1] = h[0] \o s[1]
      <4>1. 1 \in 1..m /\ 1 - 1 = 0
        BY <1>1
      <4> QED BY <1>7, <4>1
    <3>2. <<>> \o p = p /\ p \o <<>> = p
      BY <1>3, ConcatEmptySeq
    <3>3. h[1] = p \o g[0]
      BY <1>3, <1>7, <3>1, <3>2
    <3>4. h[0 + 1] = p \o g[0]
      BY <3>3
    <3> QED BY <3>4
  <2>2. ASSUME NEW i \in T PROVE i - 1 \in T
    <3>1. i \in 1..n /\ i - 1 \in 0..n /\ i + 1 \in 1..m /\ h[i + 1] # p \o g[i]
      <4>1. i \in 0..n /\ h[i + 1] # p \o g[i]
        OBVIOUS
      <4>2. i # 0
        BY <2>1
      <4> HIDE DEF T
      <4> QED BY <1>1, <4>1, <4>2
    <3>2. h[i + 1] = h[(i + 1) - 1] \o s[i + 1] /\ g[i] = g[i - 1] \o u[i] /\ u[i] = s[i + 1]
      BY <1>3, <1>7, <3>1
    <3>3. (i + 1) - 1 = i /\ (i - 1) + 1 = i
      BY <3>1
    <3>4. (p \o g[i - 1]) \o u[i] = p \o (g[i - 1] \o u[i])
      <4>1. g[i - 1] \in Seq(S) /\ u[i] \in Seq(S)
        BY <1>3, <3>1, ElementOfSeq
      <4>2. PICK a, b \in Seq(S) : a = g[i - 1] /\ b = u[i]
        BY <4>1
      <4>3. (p \o a) \o b = p \o (a \o b)
        BY <1>4
      <4> QED BY <4>2, <4>3
    <3>5. h[(i - 1) + 1] # p \o g[i - 1]
      BY <3>1, <3>2, <3>3, <3>4
    <3> QED BY <3>1, <3>5
  <2>3. T \in SUBSET (0..n)
    OBVIOUS
  <2> HIDE DEF T
  <2> QED BY <2>1, <2>2, <2>3, Upward
<1>9. h[n + 1] = p \o g[n]
  <2>1. n \in 0..n /\ n \notin T
    <3> HIDE DEF T
    <3> QED BY <1>8
  <2> QED BY <2>1
<1> QED BY <1>1, <1>2, <1>3, <1>7, <1>9

(* The largest of some numbers up to n.                                     *)
LEMMA LargestIs ==
  ASSUME NEW n \in Nat, NEW s \in SUBSET (0..n), s # {}
  PROVE  Max(s) \in s /\ \A y \in s : Max(s) >= y
<1> DEFINE T == {n - x : x \in s}
<1>1. T \in SUBSET Nat /\ T # {}
  <2>1. \A x \in s : n - x \in Nat
    OBVIOUS
  <2> QED BY <2>1
<1>2. PICK least \in T : \A y \in T : least <= y
  <2> HIDE DEF T
  <2> QED BY <1>1, Least
<1>3. PICK x \in s : least = n - x
  OBVIOUS
<1>4. \A y \in s : x >= y
  <2>1. SUFFICES ASSUME NEW y \in s PROVE x >= y
    OBVIOUS
  <2>2. n - y \in T
    OBVIOUS
  <2>3. least <= n - y
    <3> HIDE DEF T
    <3> QED BY <1>2, <2>2
  <2> QED BY <1>3, <2>3
<1> QED BY <1>4 DEF Max

(* A total of sizes of one or more is at least as large as their number.    *)
LEMMA TotalAtLeast ==
  ASSUME NEW n \in Nat, NEW s \in [1..n -> Nat], \A i \in 1..n : s[i] >= 1
  PROVE  Total(s) \in Nat /\ Total(s) >= n
<1>1. PICK t \in [0..n -> Nat] : Adds(t, n, s)
  BY TotalAdds
<1>2. t[0] = 0 /\ t[n] = Total(s) /\ \A i \in 1..n : t[i] = t[i - 1] + s[i]
  BY <1>1 DEF Adds
<1> DEFINE T == {i \in 0..n : t[i] < i}
<1>3. T = {}
  <2>1. 0 \notin T
    BY <1>2
  <2>2. ASSUME NEW i \in T PROVE i - 1 \in T
    <3>1. i \in 1..n /\ i - 1 \in 0..n /\ t[i] < i
      <4>1. i \in 0..n /\ t[i] < i
        OBVIOUS
      <4>2. i # 0
        BY <2>1
      <4> HIDE DEF T
      <4> QED BY <4>1, <4>2
    <3>2. t[i] = t[i - 1] + s[i] /\ s[i] >= 1 /\ s[i] \in Nat /\ t[i - 1] \in Nat
      BY <1>2, <3>1
    <3>3. t[i - 1] < i - 1
      BY <3>1, <3>2
    <3> QED BY <3>1, <3>3
  <2>3. T \in SUBSET (0..n)
    OBVIOUS
  <2> HIDE DEF T
  <2> QED BY <2>1, <2>2, <2>3, Upward
<1>4. t[n] >= n
  <2>1. n \in 0..n /\ n \notin T /\ t[n] \in Nat
    <3> HIDE DEF T
    <3> QED BY <1>3
  <2> QED BY <2>1
<1> QED BY <1>2, <1>4

-----------------------------------------------------------------------------
(* How long the frames of updates are.                                      *)
LEMMA VariantSize ==
  ASSUME NEW of, DOMAIN of \subseteq Byte, NEW unknown, NEW v \in VariantOf(of, unknown).values
  PROVE  /\ v[1] \in DOMAIN of /\ v[2] \in of[v[1]].values
         /\ SerializedLength(VariantOf(of, unknown), v) = 1 + SerializedLength(of[v[1]], v[2])
<1>1. PICK w, V : w = VariantOf(of, unknown) /\ VariantTables(of, unknown, w, V)
  BY VariantIs
<1>2. /\ \A u : u \in V <=> \E j \in DOMAIN of : \E y \in of[j].values : u = <<j, y>>
      /\ w.values = V
      /\ w.size = [u \in V |-> 1 + SerializedLength(of[u[1]], u[2])]
  BY <1>1, Zenon DEF VariantTables
<1>3. v \in V
  BY <1>1, <1>2
<1>4. PICK j \in DOMAIN of : \E y \in of[j].values : v = <<j, y>>
  BY <1>2, <1>3
<1>5. w.size[v] = 1 + SerializedLength(of[v[1]], v[2])
  BY <1>2, <1>3
<1> QED BY <1>1, <1>4, <1>5 DEF SerializedLength

LEMMA WholeSize ==
  ASSUME NEW f, Whole(f), NEW x \in f.values
  PROVE  SerializedLength(f, x) \in Nat
BY WritesValues DEF Whole, Written

LEMMA EntrySize ==
  ASSUME NEW x \in NetworkNotificationEntry.values
  PROVE  SerializedLength(NetworkNotificationEntry, x) \in Nat
         /\ SerializedLength(NetworkNotificationEntry, x) >= 1
<1>1. PICK of : of = <<NetworkNodeUpdatedEntry, NetworkLinkUpdatedEntry, NetworkLinkRemovedEntry,
                       NetworkFrameReceivedEntry>>
  OBVIOUS
<1>2. NetworkNotificationEntry = VariantOf(of, "error")
  BY <1>1 DEF NetworkNotificationEntry, Variant
<1>3. \A i \in DOMAIN of : Whole(of[i])
  <2>1. DOMAIN of = 1..4
    BY <1>1
  <2>2. Whole(of[1]) /\ Whole(of[2]) /\ Whole(of[3]) /\ Whole(of[4])
    BY <1>1, ObserverFormats
  <2>3. \A i \in 1..4 : i = 1 \/ i = 2 \/ i = 3 \/ i = 4
    OBVIOUS
  <2> QED BY <2>1, <2>2, <2>3
<1>4. DOMAIN of \subseteq Byte
  <2>1. DOMAIN of = 1..4
    BY <1>1
  <2> QED BY <2>1, ByteIs
<1>5. PICK i, y, s : i = x[1] /\ y = x[2] /\ s = SerializedLength(of[i], y)
  OBVIOUS
<1>6. i \in DOMAIN of /\ y \in of[i].values /\ SerializedLength(NetworkNotificationEntry, x) = 1 + s
  BY <1>2, <1>4, <1>5, VariantSize
<1>7. s \in Nat
  BY <1>3, <1>5, <1>6, WholeSize
<1> QED BY <1>6, <1>7

(* An address takes up to six bytes.                                        *)
LEMMA NodeSize ==
  /\ \A x \in Source.values : SerializedLength(Source, x) \in Nat /\ SerializedLength(Source, x) <= 8
  /\ \A x \in Destination.values :
       SerializedLength(Destination, x) \in Nat /\ SerializedLength(Destination, x) <= 8
<1>1. \A type \in NodeIdType : BodyBytesSizeOf(type) \in Nat /\ BodyBytesSizeOf(type) <= 6
  BY DEF NodeIdType, AddressType, Broadcast, BodyBytesSizeOf, BodyBytesSize
<1>2. \A type \in NodeIdType : type \in Byte
  BY ByteIs DEF NodeIdType, AddressType, Broadcast
<1>3. ASSUME NEW types \in SUBSET NodeIdType,
             NEW v \in ManualVariant([type \in types |-> Fixed(BodyBytesSizeOf(type))]).values
      PROVE  SerializedLength(ManualVariant([type \in types |-> Fixed(BodyBytesSizeOf(type))]), v) \in Nat
             /\ SerializedLength(ManualVariant([type \in types |-> Fixed(BodyBytesSizeOf(type))]), v) <= 7
  <2>1. PICK of : of = [type \in types |-> Fixed(BodyBytesSizeOf(type))]
    OBVIOUS
  <2>2. DOMAIN of = types /\ DOMAIN of \subseteq Byte
    BY <1>2, <2>1
  <2>3. PICK i, y : i = v[1] /\ y = v[2]
    OBVIOUS
  <2>4. /\ i \in types /\ y \in of[i].values
        /\ SerializedLength(VariantOf(of, "throws"), v) = 1 + SerializedLength(of[i], y)
    BY <2>1, <2>2, <2>3, VariantSize DEF ManualVariant
  <2>5. PICK k \in Nat : k = BodyBytesSizeOf(i) /\ k <= 6
    BY <1>1, <2>4
  <2>6. of[i] = Fixed(k)
    BY <2>1, <2>4, <2>5
  <2>7. y \in {value \in Bytes : Len(value) = k} /\ SerializedLength(Fixed(k), y) = Len(y)
    BY <2>4, <2>6 DEF Fixed, Serdeable, SerializedLength
  <2>8. SerializedLength(VariantOf(of, "throws"), v) = 1 + k
    BY <2>4, <2>6, <2>7
  <2> QED BY <2>1, <2>5, <2>8 DEF ManualVariant
<1>4. ASSUME NEW f, Whole(f), \A v \in f.values : SerializedLength(f, v) \in Nat
             /\ SerializedLength(f, v) <= 7,
             NEW x \in Tuple(<<f, ClusterId>>).values
      PROVE  SerializedLength(Tuple(<<f, ClusterId>>), x) \in Nat
             /\ SerializedLength(Tuple(<<f, ClusterId>>), x) <= 8
  <2>1. PICK P, V : P = <<f, ClusterId>> /\ V = Product([i \in DOMAIN P |-> P[i].values])
    OBVIOUS
  <2>2. Tuple(P).values = V
    BY <2>1 DEF Tuple, Serdeable
  <2>3. PICK S : S = [i \in DOMAIN P |-> P[i].values]
    OBVIOUS
  <2>4. Len(S) = 2 /\ S[1] = f.values /\ S[2] = Uint8.values
    BY <2>1, <2>3 DEF ClusterId
  <2>5. Product(S) = S[1] \X S[2]
    BY <2>4 DEF Product
  <2>6. PICK v \in f.values, c \in Uint8.values : x = <<v, c>>
    BY <2>1, <2>2, <2>3, <2>4, <2>5
  <2>7. PICK e, s : e = Encode(f, v) /\ s = SerializedLength(f, v) /\ Written(f, v, e, s)
    BY <1>4, WritesValues DEF Whole
  <2>8. Written(Uint8, c, <<c>>, 1)
    BY <2>6, Uints, WrittenNumbers
  <2>9. Written(Tuple(<<f, ClusterId>>), <<v, c>>, e \o <<c>>, s + 1)
    BY <2>7, <2>8, Written2 DEF ClusterId
  <2>10. SerializedLength(Tuple(<<f, ClusterId>>), x) = s + 1
    BY <2>6, <2>9, EncodesAs
  <2> QED BY <1>4, <2>6, <2>7, <2>10
<1>5. PICK n, a : /\ n = ManualVariant([type \in NodeIdType |-> Fixed(BodyBytesSizeOf(type))])
                  /\ a = ManualVariant([type \in AddressType |-> Fixed(BodyBytesSizeOf(type))])
  OBVIOUS
<1>6. /\ \A v \in n.values : SerializedLength(n, v) \in Nat /\ SerializedLength(n, v) <= 7
      /\ \A v \in a.values : SerializedLength(a, v) \in Nat /\ SerializedLength(a, v) <= 7
  <2>1. NodeIdType \in SUBSET NodeIdType /\ AddressType \in SUBSET NodeIdType
    BY DEF NodeIdType
  <2>2. \A v \in n.values : SerializedLength(n, v) \in Nat /\ SerializedLength(n, v) <= 7
    BY <1>3, <1>5, <2>1
  <2>3. \A v \in a.values : SerializedLength(a, v) \in Nat /\ SerializedLength(a, v) <= 7
    BY <1>3, <1>5, <2>1
  <2> QED BY <2>2, <2>3
<1>7. Destination = Tuple(<<n, ClusterId>>) /\ Source = Tuple(<<a, ClusterId>>)
  BY <1>5 DEF Destination, NodeId, Source
<1>8. Whole(n) /\ Whole(a)
  <2>1. ASSUME NEW types \in SUBSET NodeIdType
        PROVE  Whole(ManualVariant([type \in types |-> Fixed(BodyBytesSizeOf(type))]))
    <3>1. PICK of : of = [type \in types |-> Fixed(BodyBytesSizeOf(type))]
      OBVIOUS
    <3>2. DOMAIN of \subseteq Byte /\ \A i \in DOMAIN of : Carries(of[i], of[i], Bytes)
      BY <1>1, <1>2, <3>1, FixedCarries
    <3>3. Alternatives(of, of, Bytes)
      BY <3>2 DEF Alternatives
    <3>4. Carries(VariantOf(of, "throws"), VariantOf(of, "throws"), Bytes)
      BY <3>3, VariantCarries, RestsAre
    <3> QED BY <3>1, <3>4 DEF Whole, ManualVariant
  <2>2. NodeIdType \in SUBSET NodeIdType /\ AddressType \in SUBSET NodeIdType
    BY DEF NodeIdType
  <2>3. Whole(n)
    BY <1>5, <2>1, <2>2
  <2>4. Whole(a)
    BY <1>5, <2>1, <2>2
  <2> QED BY <2>3, <2>4
<1> QED BY <1>4, <1>6, <1>7, <1>8

LEMMA MaxUpdateFrameIs == MaxUpdateFrame \in Nat /\ MaxUpdateFrame <= 254
<1>1. PICK ss, sd : ss = SerializedLength(Source, Source0) /\ sd = SerializedLength(Destination, Destination0)
  OBVIOUS
<1>2. ss \in Nat /\ sd \in Nat /\ ss <= 8 /\ sd <= 8
  BY <1>1, NodeSize, UpdatesAssumption
<1>3. RoutingHeaderLength(Source0, Destination0) = ss + sd + 2
  <2>1. PICK k \in Small, nothing \in Bytes : k = 0 /\ nothing = <<>> /\ Len(nothing) = 0
    BY BytesJoin, SmallAre
  <2>2. PICK source \in Source.values, destination \in Destination.values :
          source = Source0 /\ destination = Destination0
    BY UpdatesAssumption
  <2>3. PICK es, ed : Written(Source, source, es, ss) /\ Written(Destination, destination, ed, sd)
    BY <1>1, <2>2, WrittenEnds
  <2>4. PICK s : s = ss + sd + 2 + Len(nothing)
    OBVIOUS
  <2>5. Written(RoutingFrame, Packet(source, destination, k, nothing),
                ((es \o ed) \o Number(k)) \o nothing, s)
    BY <2>3, <2>4, WrittenRouting
  <2>6. SerializedLength(RoutingFrame, Packet(source, destination, k, nothing)) = s
    BY <2>5, EncodesAs
  <2>7. RoutingHeaderLength(Source0, Destination0) = s
    BY <2>1, <2>2, <2>6 DEF RoutingHeaderLength, Packet
  <2> QED BY <1>2, <2>1, <2>4, <2>7
<1> QED BY <1>2, <1>3 DEF MaxUpdateFrame, RoutingMaxPayload, LinkMaxPayload, FRAME_MTU

Entry == NetworkNotificationEntry.values
Pieces == NetworkNotificationFrame.values

(* The lengths of entries, and the pieces that go into a frame.             *)
LengthsOf(entries) == [i \in 1..Len(entries) |-> SerializedLength(NetworkNotificationEntry, entries[i])]

LEMMA PiecesAre ==
  /\ Pieces = {piece \in Seq(Entry) : Len(piece) \in Uint8.values}
  /\ \A piece \in Pieces :
       SerializedLength(NetworkNotificationFrame, piece) = 1 + Total(LengthsOf(piece))
<1>1. PICK w, V : w = NetworkNotificationFrame /\ V = {piece \in Seq(Entry) : Len(piece) \in Uint8.values}
  OBVIOUS
<1>2. /\ w.values = V
      /\ w.size = [v \in V |-> SerializedLength(Uint8, 0)
                                 + SizeOfEach([i \in DOMAIN v |-> NetworkNotificationEntry], v)]
  BY <1>1 DEF NetworkNotificationFrame, Vector, Serdeable, Entry
<1>3. SerializedLength(Uint8, 0) = 1
  <2>1. Written(Uint8, 0, <<0>>, 1)
    BY WrittenNumbers, OneByte
  <2> QED BY <2>1, EncodesAs
<1>4. ASSUME NEW v \in V
      PROVE  SizeOfEach([i \in DOMAIN v |-> NetworkNotificationEntry], v) = Total(LengthsOf(v))
  <2>1. DOMAIN v = 1..Len(v)
    BY <1>1
  <2>2. PICK parts : parts = [i \in DOMAIN v |-> NetworkNotificationEntry]
    OBVIOUS
  <2>3. [i \in DOMAIN parts |-> SerializedLength(parts[i], v[i])] = LengthsOf(v)
    BY <2>1, <2>2 DEF LengthsOf
  <2> QED BY <2>2, <2>3 DEF SizeOfEach, Total
<1>5. ASSUME NEW v \in V PROVE SerializedLength(w, v) = 1 + Total(LengthsOf(v))
  BY <1>2, <1>3, <1>4 DEF SerializedLength
<1> QED BY <1>1, <1>2, <1>5 DEF Pieces

(* An update is read as the entries that were sent, and its frame is two    *)
(* bytes longer than they are.                                              *)
LEMMA UpdateIsWritten ==
  ASSUME NEW piece \in Pieces
  PROVE  /\ Total(LengthsOf(piece)) \in Nat
         /\ Len(Encode(ObserverFrame, <<5, piece>>)) = 2 + Total(LengthsOf(piece))
         /\ Decode(ObserverFrame, Encode(ObserverFrame, <<5, piece>>)) = Ok(<<5, piece>>, <<>>)
<1>1. PICK e, s : e = Encode(NetworkNotificationFrame, piece)
          /\ s = SerializedLength(NetworkNotificationFrame, piece)
  OBVIOUS
<1>2. Written(NetworkNotificationFrame, piece, e, s)
  BY <1>1, ObserverFormats, WritesValues DEF Whole, Pieces
<1>3. PICK of : of = <<NodeSubscriptionFrame, NodeNotificationFrame, NodeSyncFrame,
                       NetworkSubscriptionFrame, NetworkNotificationFrame>>
  OBVIOUS
<1>4. PICK i : i = 5 /\ i \in DOMAIN of
  BY <1>3
<1>5. DOMAIN of \subseteq Byte /\ of[i] = NetworkNotificationFrame
  <2>1. DOMAIN of = 1..5
    BY <1>3
  <2> QED BY <1>3, <1>4, <2>1, ByteIs
<1>6. Written(VariantOf(of, "error"), <<i, piece>>, <<i>> \o e, 1 + s)
  BY <1>2, <1>4, <1>5, WrittenVariant
<1>7. Written(ObserverFrame, <<5, piece>>, <<5>> \o e, 1 + s)
  BY <1>3, <1>4, <1>6 DEF ObserverFrame, Variant
<1>8. s \in Nat /\ s = 1 + Total(LengthsOf(piece))
  BY <1>1, <1>2, PiecesAre DEF Written
<1>9. PICK b : b = <<5>> \o e
  OBVIOUS
<1>10. Encode(ObserverFrame, <<5, piece>>) = b /\ Len(b) = 1 + s
  <2>1. Encode(ObserverFrame, <<5, piece>>) = b
    BY <1>7, <1>9, EncodesAs
  <2>2. Len(b) = 1 + s
    BY <1>7, <1>9 DEF Written
  <2> QED BY <2>1, <2>2
<1>11. Decode(ObserverFrame, b) = Ok(<<5, piece>>, <<>>)
  <2>1. Closing(ObserverFrame)
    BY ObserverFormats, WholeCloses
  <2> QED BY <1>7, <1>9, <2>1, ReadAsWritten
<1>12. Total(LengthsOf(piece)) \in Nat
  <2>1. piece \in Seq(Entry)
    BY PiecesAre
  <2>2. PICK n \in Nat : n = Len(piece)
    BY <2>1, LenProperties
  <2>3. \A k \in 1..n : piece[k] \in Entry
    BY <2>1, <2>2, ElementOfSeq
  <2>4. /\ LengthsOf(piece) \in [1..n -> Nat]
        /\ \A k \in 1..n : LengthsOf(piece)[k] >= 1
    BY <2>2, <2>3, EntrySize DEF LengthsOf, Entry
  <2> QED BY <2>4, TotalAtLeast
<1> QED BY <1>8, <1>10, <1>11, <1>12

(* What createLimitedByMtu takes is as much as fits, and can be counted.    *)
LEMMA LimitedIs ==
  ASSUME NEW entries \in Seq(Entry), NEW mtu \in Nat, mtu <= 254
  PROVE  /\ LimitedByMtu(entries, mtu) \in 0..Len(entries)
         /\ SubSeq(entries, 1, LimitedByMtu(entries, mtu)) \in Pieces
         /\ Total(LengthsOf(SubSeq(entries, 1, LimitedByMtu(entries, mtu)))) <= mtu
<1>1. PICK len \in Nat : len = Len(entries)
  BY LenProperties
<1>2. \A i \in 1..len : entries[i] \in Entry
  BY <1>1, ElementOfSeq
<1>3. PICK L : L = LengthsOf(entries)
  OBVIOUS
<1>4. /\ L \in Seq(Nat) /\ Len(L) = len
      /\ \A i \in 1..len : L[i] = SerializedLength(NetworkNotificationEntry, entries[i])
      /\ \A i \in 1..len : L[i] \in Nat /\ L[i] >= 1
  <2>1. \A i \in 1..len : SerializedLength(NetworkNotificationEntry, entries[i]) \in Nat
                          /\ SerializedLength(NetworkNotificationEntry, entries[i]) >= 1
    BY <1>2, EntrySize DEF Entry
  <2>2. L = [i \in 1..len |-> SerializedLength(NetworkNotificationEntry, entries[i])]
    BY <1>1, <1>3 DEF LengthsOf
  <2> QED BY <2>1, <2>2
<1> DEFINE s == {n \in 0..len : Total(SubSeq(L, 1, n)) <= mtu}
<1>5. LimitedByMtu(entries, mtu) = Max(s)
  <2>1. DOMAIN entries = 1..len
    BY <1>1, LenProperties
  <2>2. [i \in DOMAIN entries |-> SerializedLength(NetworkNotificationEntry, entries[i])] = L
    BY <1>1, <1>3, <2>1 DEF LengthsOf
  <2> QED BY <1>1, <2>2 DEF LimitedByMtu, Total
<1>6. ASSUME NEW n \in 0..len
      PROVE  /\ SubSeq(L, 1, n) \in [1..n -> Nat] /\ \A i \in 1..n : SubSeq(L, 1, n)[i] >= 1
             /\ SubSeq(L, 1, n) = LengthsOf(SubSeq(entries, 1, n))
             /\ SubSeq(entries, 1, n) \in Seq(Entry) /\ Len(SubSeq(entries, 1, n)) = n
  <2>1. \A i \in 1..n : i \in 1..len
    OBVIOUS
  <2>2. /\ SubSeq(L, 1, n) \in Seq(Nat) /\ Len(SubSeq(L, 1, n)) = n
        /\ \A i \in 1..n : SubSeq(L, 1, n)[i] = L[i]
    BY <1>4, <2>1
  <2>3. /\ SubSeq(entries, 1, n) \in Seq(Entry) /\ Len(SubSeq(entries, 1, n)) = n
        /\ \A i \in 1..n : SubSeq(entries, 1, n)[i] = entries[i]
    BY <1>1, <1>2, <2>1
  <2>4. SubSeq(L, 1, n) = [i \in 1..n |-> L[i]]
    BY <2>2
  <2>5. LengthsOf(SubSeq(entries, 1, n)) = [i \in 1..n |-> L[i]]
    BY <1>4, <2>1, <2>3 DEF LengthsOf
  <2> QED BY <1>4, <2>1, <2>3, <2>4, <2>5
<1>7. s # {}
  <2>1. PICK n \in 0..len : n = 0
    OBVIOUS
  <2>2. PICK u : u = SubSeq(L, 1, n)
    OBVIOUS
  <2>3. u \in [1..n -> Nat]
    BY <1>6, <2>2
  <2>4. PICK t \in [0..n -> Nat] : Adds(t, n, u)
    BY <2>1, <2>3, TotalAdds
  <2>5. Total(u) = 0
    BY <2>1, <2>4 DEF Adds
  <2> QED BY <2>1, <2>2, <2>5
<1>8. PICK n \in 0..len : n = Max(s) /\ Total(SubSeq(L, 1, n)) <= mtu
  <2>1. s \in SUBSET (0..len)
    OBVIOUS
  <2>2. Max(s) \in s
    <3> HIDE DEF s
    <3> QED BY <1>7, <2>1, LargestIs
  <2> QED BY <2>2
<1> HIDE DEF s
<1>9. n <= 254
  <2>1. PICK u \in [1..n -> Nat] : u = SubSeq(L, 1, n) /\ \A i \in 1..n : u[i] >= 1
    BY <1>6
  <2>2. n \in Nat
    OBVIOUS
  <2>3. Total(u) \in Nat /\ Total(u) >= n
    BY <2>1, <2>2, TotalAtLeast
  <2> QED BY <2>3, <1>8, <2>1, <2>2
<1>10. n \in Uint8.values
  BY <1>9, Uints, ByteIs
<1>11. SubSeq(entries, 1, n) \in Pieces
  BY <1>6, <1>10, PiecesAre
<1>12. Total(LengthsOf(SubSeq(entries, 1, n))) <= mtu
  BY <1>6, <1>8
<1> QED BY <1>1, <1>5, <1>8, <1>11, <1>12

(* A list of what F makes of the elements of another.                       *)
Each(F, s) == [i \in 1..Len(s) |-> F[s[i]]]

Maps(F, S, R) == F \in [S -> R]

LEMMA EachIs ==
  ASSUME NEW S, NEW R, NEW F, Maps(F, S, R), NEW s \in Seq(S)
  PROVE  /\ Each(F, s) \in Seq(R) /\ Len(Each(F, s)) = Len(s)
         /\ \A i \in 1..Len(s) : Each(F, s)[i] = F[s[i]]
<1>1. PICK n \in Nat : n = Len(s)
  BY LenProperties
<1>2. \A i \in 1..n : s[i] \in S
  BY <1>1, ElementOfSeq
<1>3. Each(F, s) = [i \in 1..n |-> F[s[i]]]
  BY <1>1 DEF Each
<1>4. \A i \in 1..n : F[s[i]] \in R
  BY <1>2 DEF Maps
<1> QED BY <1>1, <1>3, <1>4

LEMMA EachAppend ==
  ASSUME NEW S, NEW R, NEW F, Maps(F, S, R), NEW s \in Seq(S), NEW p \in S
  PROVE  Append(s, p) \in Seq(S) /\ Each(F, Append(s, p)) = Append(Each(F, s), F[p])
<1>1. PICK n \in Nat : n = Len(s)
  BY LenProperties
<1>2. PICK u : u = Append(s, p)
  OBVIOUS
<1>3. u \in Seq(S) /\ Len(u) = n + 1 /\ u[n + 1] = p /\ \A i \in 1..n : u[i] = s[i]
  <2>1. /\ Append(s, p) \in Seq(S) /\ Len(Append(s, p)) = Len(s) + 1
        /\ Append(s, p)[Len(s) + 1] = p /\ \A i \in 1..Len(s) : Append(s, p)[i] = s[i]
    BY AppendProperties
  <2> QED BY <1>2, <1>1, <2>1
<1>4. PICK e, a : e = Each(F, u) /\ a = Append(Each(F, s), F[p])
  OBVIOUS
<1>5. e \in Seq(R) /\ Len(e) = n + 1 /\ \A i \in 1..n + 1 : e[i] = F[u[i]]
  <2>1. u \in Seq(S)
    BY <1>3
  <2>2. Each(F, u) \in Seq(R) /\ Len(Each(F, u)) = Len(u) /\ \A i \in 1..Len(u) : Each(F, u)[i] = F[u[i]]
    BY <2>1, EachIs
  <2> QED BY <1>3, <1>4, <2>2
<1>6. PICK d : d = Each(F, s)
  OBVIOUS
<1>7. d \in Seq(R) /\ Len(d) = n /\ \A i \in 1..n : d[i] = F[s[i]]
  <2>1. Each(F, s) \in Seq(R) /\ Len(Each(F, s)) = Len(s) /\ \A i \in 1..Len(s) : Each(F, s)[i] = F[s[i]]
    BY EachIs
  <2> QED BY <1>1, <1>6, <2>1
<1>8. F[p] \in R
  BY DEF Maps
<1>9. a \in Seq(R) /\ Len(a) = n + 1 /\ a[n + 1] = F[p] /\ \A i \in 1..n : a[i] = d[i]
  <2>1. PICK x \in R : x = F[p]
    BY <1>8
  <2>2. d \in Seq(R)
    BY <1>7
  <2>3. /\ Append(d, x) \in Seq(R) /\ Len(Append(d, x)) = Len(d) + 1
        /\ Append(d, x)[Len(d) + 1] = x /\ \A i \in 1..Len(d) : Append(d, x)[i] = d[i]
    BY <2>1, <2>2, AppendProperties
  <2> QED BY <1>4, <1>7, <1>6, <2>1, <2>3
<1>10. \A i \in 1..n + 1 : e[i] = a[i]
  <2>1. \A i \in 1..n + 1 : i \in 1..n \/ i = n + 1
    OBVIOUS
  <2> QED BY <1>3, <1>5, <1>7, <1>9, <2>1
<1>11. e = a
  BY <1>5, <1>9, <1>10, SeqEqual
<1> QED BY <1>2, <1>3, <1>4, <1>11

LEMMA EachTail ==
  ASSUME NEW S, NEW R, NEW F, Maps(F, S, R), NEW s \in Seq(S), Each(F, s) # <<>>
  PROVE  /\ s # <<>> /\ Head(s) \in S /\ Tail(s) \in Seq(S)
         /\ Head(Each(F, s)) = F[Head(s)] /\ Tail(Each(F, s)) = Each(F, Tail(s))
<1>1. PICK d : d = Each(F, s)
  OBVIOUS
<1>2. d = Each(F, s) /\ d \in Seq(R) /\ Len(d) = Len(s) /\ \A i \in 1..Len(s) : d[i] = F[s[i]]
  <2>1. Each(F, s) \in Seq(R) /\ Len(Each(F, s)) = Len(s) /\ \A i \in 1..Len(s) : Each(F, s)[i] = F[s[i]]
    BY EachIs
  <2> QED BY <1>1, <2>1
<1>3. d # <<>> /\ Len(d) \in Nat \ {0}
  BY <1>2, EmptySeq
<1>4. PICK m \in Nat : m = Len(s) /\ m # 0
  BY <1>2, <1>3
<1>5. s # <<>>
  BY <1>4, EmptySeq
<1>6. PICK u : u = Tail(s)
  OBVIOUS
<1>7. u = Tail(s) /\ u \in Seq(S) /\ Len(u) = m - 1 /\ \A i \in 1..m - 1 : u[i] = s[i + 1]
  <2>1. /\ Tail(s) \in Seq(S) /\ Len(Tail(s)) = Len(s) - 1
        /\ \A i \in 1..Len(Tail(s)) : Tail(s)[i] = s[i + 1]
    BY <1>5, HeadTailProperties
  <2> QED BY <1>4, <1>6, <2>1
<1>8. Head(s) \in S /\ Head(s) = s[1]
  BY <1>5, HeadTailProperties
<1>9. PICK a, e : a = Tail(d) /\ e = Each(F, u)
  OBVIOUS
<1>10. a \in Seq(R) /\ Len(a) = m - 1 /\ \A i \in 1..m - 1 : a[i] = d[i + 1]
  BY <1>2, <1>3, <1>4, <1>9, HeadTailProperties
<1>11. e \in Seq(R) /\ Len(e) = m - 1 /\ \A i \in 1..m - 1 : e[i] = F[u[i]]
  <2>1. u \in Seq(S)
    BY <1>7
  <2>2. Each(F, u) \in Seq(R) /\ Len(Each(F, u)) = Len(u) /\ \A i \in 1..Len(u) : Each(F, u)[i] = F[u[i]]
    BY <2>1, EachIs
  <2> QED BY <1>7, <1>9, <2>2
<1>12. \A i \in 1..m - 1 : a[i] = e[i]
  <2>1. ASSUME NEW i \in 1..m - 1 PROVE a[i] = e[i]
    <3>1. i + 1 \in 1..m
      BY <1>4
    <3>2. PICK j \in 1..m : j = i + 1
      BY <3>1
    <3>3. a[i] = d[j] /\ e[i] = F[u[i]] /\ u[i] = s[j]
      BY <1>7, <1>10, <1>11, <3>2
    <3>4. d[j] = F[s[j]]
      BY <1>2, <1>4
    <3> QED BY <3>3, <3>4
  <2> QED BY <2>1
<1>13. a = e
  BY <1>10, <1>11, <1>12, SeqEqual
<1>14. Head(d) = F[s[1]]
  <2>1. 1 \in 1..m
    BY <1>4
  <2> QED BY <1>2, <1>4, <2>1
<1> QED BY <1>2, <1>5, <1>7, <1>8, <1>9, <1>13, <1>14

LEMMA CutInTwo ==
  ASSUME NEW S, NEW s \in Seq(S), NEW n \in 0..Len(s)
  PROVE  /\ SubSeq(s, 1, n) \in Seq(S) /\ SubSeq(s, n + 1, Len(s)) \in Seq(S)
         /\ SubSeq(s, 1, n) \o SubSeq(s, n + 1, Len(s)) = s
<1>1. PICK m \in Nat : m = Len(s)
  BY LenProperties
<1>2. \A i \in 1..m : s[i] \in S
  BY <1>1, ElementOfSeq
<1>3. PICK a, b, c : a = SubSeq(s, 1, n) /\ b = SubSeq(s, n + 1, m) /\ c = a \o b
  OBVIOUS
<1>4. a \in Seq(S) /\ Len(a) = n /\ \A i \in 1..n : a[i] = s[i]
  <2>1. \A i \in 1..n : s[i] \in S
    BY <1>1, <1>2
  <2>2. /\ SubSeq(s, 1, n) \in Seq(S) /\ Len(SubSeq(s, 1, n)) = n
        /\ \A i \in 1..n : SubSeq(s, 1, n)[i] = s[i]
    BY <1>1, <2>1
  <2> QED BY <1>3, <2>2
<1>5. b \in Seq(S) /\ Len(b) = m - n /\ \A i \in 1..m - n : b[i] = s[n + i]
  <2>1. \A i \in n + 1..m : s[i] \in S
    BY <1>1, <1>2
  <2>2. /\ SubSeq(s, n + 1, m) \in Seq(S)
        /\ Len(SubSeq(s, n + 1, m)) = IF n + 1 <= m THEN m - (n + 1) + 1 ELSE 0
        /\ \A i \in 1..m - (n + 1) + 1 : SubSeq(s, n + 1, m)[i] = s[n + 1 + i - 1]
    BY <1>1, <2>1, SubSeqProperties
  <2>3. m - (n + 1) + 1 = m - n /\ \A i \in 1..m - n : n + 1 + i - 1 = n + i
    BY <1>1
  <2>4. Len(SubSeq(s, n + 1, m)) = m - n
    BY <1>1, <2>2
  <2> QED BY <1>3, <2>2, <2>3, <2>4
<1>6. c \in Seq(S) /\ Len(c) = m /\ \A i \in 1..m : c[i] = IF i <= n THEN a[i] ELSE b[i - n]
  <2>1. a \in Seq(S) /\ b \in Seq(S)
    BY <1>4, <1>5
  <2>2. /\ a \o b \in Seq(S) /\ Len(a \o b) = Len(a) + Len(b)
        /\ \A i \in 1..Len(a) + Len(b) : (a \o b)[i] = IF i <= Len(a) THEN a[i] ELSE b[i - Len(a)]
    BY <2>1, ConcatProperties
  <2>3. Len(a) + Len(b) = m
    BY <1>1, <1>4, <1>5
  <2> QED BY <1>3, <1>4, <2>2, <2>3
<1>7. \A i \in 1..m : c[i] = s[i]
  <2>1. ASSUME NEW i \in 1..m PROVE c[i] = s[i]
    <3>1. CASE i <= n
      <4>1. i \in 1..n
        BY <3>1, <1>1
      <4> QED BY <1>4, <1>6, <3>1, <4>1
    <3>2. CASE ~(i <= n)
      <4>1. i - n \in 1..m - n /\ n + (i - n) = i
        BY <3>2, <1>1
      <4>2. b[i - n] = s[n + (i - n)]
        BY <1>5, <4>1
      <4> QED BY <1>6, <3>2, <4>1, <4>2
    <3> QED BY <3>1, <3>2
  <2> QED BY <2>1
<1>8. c = s
  BY <1>1, <1>6, <1>7, SeqEqual
<1> QED BY <1>3, <1>1, <1>4, <1>5, <1>8

-----------------------------------------------------------------------------
(* Updates cut into frames.                                                 *)
FrameOfPiece == [piece \in Pieces |-> Encode(ObserverFrame, <<5, piece>>)]
ResultOfPiece == [piece \in Pieces |-> Ok(<<5, piece>>, <<>>)]
PieceFrames == {FrameOfPiece[piece] : piece \in Pieces}
PieceResults == {ResultOfPiece[piece] : piece \in Pieces}

LEMMA PieceMaps == Maps(FrameOfPiece, Pieces, PieceFrames) /\ Maps(ResultOfPiece, Pieces, PieceResults)
BY DEF Maps, FrameOfPiece, ResultOfPiece, PieceFrames, PieceResults

(* What is left after a frame was refused.                                  *)
Refused(rest) ==
  SerializedLength(NetworkNotificationFrame, SubSeq(rest, 1, LimitedByMtu(rest, MaxUpdateFrame)))
    \in MaxUpdateFrame .. MaxUpdateFrame + 1

(* The pieces that have arrived, those on their way, and the rest.          *)
AddUp(arrived, coming, entries, rest) ==
  /\ arrived \in Seq(Pieces) /\ coming \in Seq(Pieces) /\ entries \in Seq(Entry) /\ rest \in Seq(Entry)
  /\ (FlattenSeq(arrived) \o FlattenSeq(coming)) \o rest = entries

Underway(arrived, coming, entries, rest) ==
  /\ AddUp(arrived, coming, entries, rest)
  /\ sent = <<[entries |-> entries, rest |-> rest]>>
  /\ received = Each(ResultOfPiece, arrived)
  /\ wire = Each(FrameOfPiece, coming)
  /\ failed # "ok" => Refused(rest)

UpdatesInv ==
  way = "updates" => \E arrived, coming, entries, rest : Underway(arrived, coming, entries, rest)

(* Lists put together in another order.                                     *)
Regroups(a, b, c) == (a \o b) \o c = a \o (b \o c)
RegroupFour(a, b, c, d) == (a \o (b \o c)) \o d = (a \o b) \o (c \o d)

LEMMA ListsRegroup ==
  ASSUME NEW S, NEW a \in Seq(S), NEW b \in Seq(S), NEW c \in Seq(S)
  PROVE  Regroups(a, b, c)
BY ConcatAssociative DEF Regroups

LEMMA FourRegroup ==
  ASSUME NEW S, NEW a \in Seq(S), NEW b \in Seq(S), NEW c \in Seq(S), NEW d \in Seq(S)
  PROVE  RegroupFour(a, b, c, d)
<1>1. PICK e, f : e = b \o c /\ f = c \o d
  OBVIOUS
<1>2. e \in Seq(S)
  BY <1>1, ConcatProperties
<1>3. f \in Seq(S)
  BY <1>1, ConcatProperties
<1>4. Regroups(a, e, d) /\ Regroups(b, c, d) /\ Regroups(a, b, f)
  BY <1>2, <1>3, ListsRegroup
<1>5. (a \o e) \o d = a \o (e \o d) /\ (b \o c) \o d = b \o (c \o d) /\ (a \o b) \o f = a \o (b \o f)
  BY <1>4 DEF Regroups
<1>6. (a \o e) \o d = a \o (b \o f)
  BY <1>1, <1>5, Zenon
<1> QED BY <1>1, <1>5, <1>6, Zenon DEF RegroupFour

LEMMA PiecesFlatten ==
  ASSUME NEW s \in Seq(Pieces)
  PROVE  s \in Seq(Seq(Entry)) /\ FlattenSeq(s) \in Seq(Entry)
<1>1. s \in Seq(Seq(Entry))
  <2>1. Pieces \subseteq Seq(Entry)
    BY PiecesAre
  <2>2. PICK n \in Nat : n = Len(s)
    BY LenProperties
  <2>3. \A i \in 1..n : s[i] \in Seq(Entry)
    BY <2>1, <2>2, ElementOfSeq
  <2> HIDE <2>1
  <2> QED BY <2>2, <2>3
<1>2. <<>> \in Seq(Entry)
  OBVIOUS
<1> QED BY <1>1, <1>2, FlattenAppend

(* A frame is put on the wire.                                              *)
LEMMA SendsPiece ==
  ASSUME NEW arrived, NEW coming, NEW entries, NEW rest, AddUp(arrived, coming, entries, rest)
  PROVE  LET n == LimitedByMtu(rest, MaxUpdateFrame)
             piece == SubSeq(rest, 1, n)
             left == SubSeq(rest, n + 1, Len(rest))
         IN  /\ piece \in Pieces /\ left \in Seq(Entry)
             /\ AddUp(arrived, Append(coming, piece), entries, left)
             /\ Len(Encode(ObserverFrame, <<5, piece>>)) > MaxUpdateFrame => Refused(rest)
<1>1. /\ arrived \in Seq(Pieces) /\ coming \in Seq(Pieces) /\ entries \in Seq(Entry) /\ rest \in Seq(Entry)
      /\ (FlattenSeq(arrived) \o FlattenSeq(coming)) \o rest = entries
  BY DEF AddUp
<1>2. PICK n : n = LimitedByMtu(rest, MaxUpdateFrame)
  OBVIOUS
<1>3. PICK piece, left : piece = SubSeq(rest, 1, n) /\ left = SubSeq(rest, n + 1, Len(rest))
  OBVIOUS
<1>4. n \in 0..Len(rest) /\ piece \in Pieces /\ Total(LengthsOf(piece)) <= MaxUpdateFrame
  BY <1>1, <1>2, <1>3, LimitedIs, MaxUpdateFrameIs
<1>5. piece \in Seq(Entry) /\ left \in Seq(Entry) /\ piece \o left = rest
  BY <1>1, <1>3, <1>4, CutInTwo
<1>6. PICK a, c : a = FlattenSeq(arrived) /\ c = FlattenSeq(coming)
  OBVIOUS
<1>7. a \in Seq(Entry) /\ c \in Seq(Entry) /\ coming \in Seq(Seq(Entry))
  BY <1>1, <1>6, PiecesFlatten
<1>8. FlattenSeq(Append(coming, piece)) = c \o piece
  BY <1>5, <1>6, <1>7, FlattenAppend
<1>9. (a \o (c \o piece)) \o left = (a \o c) \o rest
  <2>1. a \in Seq(Entry) /\ c \in Seq(Entry) /\ piece \in Seq(Entry) /\ left \in Seq(Entry)
    BY <1>5, <1>7
  <2>2. (a \o (c \o piece)) \o left = (a \o c) \o (piece \o left)
    <3>1. RegroupFour(a, c, piece, left)
      BY <2>1, FourRegroup
    <3> QED BY <3>1, Zenon DEF RegroupFour
  <2> QED BY <1>5, <2>2
<1>10. Len(Encode(ObserverFrame, <<5, piece>>)) > MaxUpdateFrame => Refused(rest)
  <2>1. PICK t \in Nat : t = Total(LengthsOf(piece)) /\ Len(Encode(ObserverFrame, <<5, piece>>)) = 2 + t
    BY <1>4, UpdateIsWritten
  <2>2. SerializedLength(NetworkNotificationFrame, piece) = 1 + t
    BY <1>4, <2>1, PiecesAre
  <2>3. ASSUME 2 + t > MaxUpdateFrame PROVE 1 + t \in MaxUpdateFrame .. MaxUpdateFrame + 1
    BY <1>4, <2>1, <2>3, MaxUpdateFrameIs
  <2> QED BY <1>2, <1>3, <2>1, <2>2, <2>3 DEF Refused
<1>11. AddUp(arrived, Append(coming, piece), entries, left)
  <2>1. PICK more : more = Append(coming, piece)
    OBVIOUS
  <2>2. more \in Seq(Pieces)
    BY <1>1, <1>4, <2>1, AppendProperties
  <2>3. FlattenSeq(more) = c \o piece
    BY <1>8, <2>1
  <2>4. (a \o FlattenSeq(more)) \o left = entries
    BY <1>1, <1>6, <1>9, <2>3
  <2> QED BY <1>1, <1>5, <1>6, <2>1, <2>2, <2>4 DEF AddUp
<1> QED BY <1>2, <1>3, <1>4, <1>5, <1>10, <1>11

LEMMA UpdatesInductive ==
  /\ Init => UpdatesInv
  /\ Fresh /\ UpdatesInv /\ [Next]_vars => UpdatesInv'
<1>1. Init => UpdatesInv
  BY DEF Init, UpdatesInv
<1>2. ASSUME Fresh, UpdatesInv, Next, way' = "updates" PROVE UpdatesInv'
  <2>1. ASSUME way \in {"none", "updates"}, NEW i \in DOMAIN Updates,
               SendUpdates(Updates[i]) PROVE UpdatesInv'
    <3>1. PICK arrived, coming, entries, rest :
            /\ AddUp(arrived, coming, entries, rest)
            /\ received = Each(ResultOfPiece, arrived) /\ wire = Each(FrameOfPiece, coming)
            /\ entries = Updates[i]
            /\ rest = IF sent = <<>> THEN Updates[i] ELSE sent[1].rest
      <4>1. CASE way = "none"
        <5>1. PICK nothing : nothing = <<>>
          OBVIOUS
        <5>2. nothing \in Seq(Pieces) /\ received = Each(ResultOfPiece, nothing)
                  /\ wire = Each(FrameOfPiece, nothing)
          BY <1>2, <4>1, <5>1 DEF Fresh, Each
        <5>3. PICK entries : entries = Updates[i] /\ entries \in Seq(Entry)
          BY UpdatesAssumption DEF Entry
        <5>4. FlattenSeq(nothing) = <<>>
          <6>1. PICK n \in Nat : n = 0
            OBVIOUS
          <6>2. nothing \in Seq(Seq(Entry)) /\ Len(nothing) = n
            BY <5>1, <6>1
          <6>3. PICK g \in [0..n -> Seq(Entry)] : Joins(g, n, nothing)
            BY <6>2, FlattenJoins
          <6> QED BY <6>1, <6>3 DEF Joins
        <5>5. (FlattenSeq(nothing) \o FlattenSeq(nothing)) \o entries = entries
          BY <5>3, <5>4
        <5>6. sent = <<>>
          BY <1>2, <4>1 DEF Fresh
        <5>7. AddUp(nothing, nothing, entries, entries)
          BY <5>2, <5>3, <5>5 DEF AddUp
        <5> QED BY <5>2, <5>3, <5>6, <5>7
      <4>2. CASE way = "updates"
        <5>1. PICK arrived, coming, entries, rest : Underway(arrived, coming, entries, rest)
          BY <1>2, <4>2 DEF UpdatesInv
        <5>2. sent = <<[entries |-> entries, rest |-> rest]>>
          BY <5>1 DEF Underway
        <5>3. sent # <<>> /\ sent[1].entries = entries /\ sent[1].rest = rest
          BY <5>2
        <5>4. Updates[i] = sent[1].entries
          BY <2>1, <4>2 DEF SendUpdates
        <5> QED BY <5>1, <5>3, <5>4 DEF Underway
      <4> QED BY <2>1, <4>1, <4>2
    <3>2. PICK n, piece, left, frame :
            /\ n = LimitedByMtu(rest, MaxUpdateFrame) /\ piece = SubSeq(rest, 1, n)
            /\ left = SubSeq(rest, n + 1, Len(rest)) /\ frame = Encode(ObserverFrame, <<5, piece>>)
      OBVIOUS
    <3>3. /\ piece \in Pieces /\ left \in Seq(Entry)
          /\ AddUp(arrived, Append(coming, piece), entries, left)
          /\ Len(frame) > MaxUpdateFrame => Refused(rest)
      BY <3>1, <3>2, SendsPiece
    <3>4. received' = received
      BY <2>1 DEF SendUpdates
    <3>5. CASE Len(frame) <= MaxUpdateFrame
      <4>1. failed' = "ok" /\ wire' = Append(wire, frame) /\ sent' = <<[entries |-> entries, rest |-> left]>>
        BY <2>1, <3>1, <3>2, <3>5 DEF SendUpdates
      <4>2. PICK more : more = Append(coming, piece)
        OBVIOUS
      <4>3. frame = FrameOfPiece[piece]
        BY <3>2, <3>3 DEF FrameOfPiece
      <4>4. more \in Seq(Pieces) /\ Each(FrameOfPiece, more) = Append(Each(FrameOfPiece, coming),
                FrameOfPiece[piece])
        <5>1. coming \in Seq(Pieces)
          BY <3>1 DEF AddUp
        <5> QED BY <3>3, <4>2, <5>1, EachAppend, PieceMaps
      <4>5. wire' = Each(FrameOfPiece, more)
        BY <3>1, <4>1, <4>3, <4>4
      <4>6. AddUp(arrived, more, entries, left)
        BY <3>3, <4>2
      <4>7. Underway(arrived, more, entries, left)'
        BY <3>1, <3>4, <4>1, <4>5, <4>6 DEF Underway, AddUp
      <4> QED BY <4>7 DEF UpdatesInv
    <3>6. CASE ~(Len(frame) <= MaxUpdateFrame)
      <4>1. wire' = wire /\ sent' = <<[entries |-> entries, rest |-> rest]>>
        BY <2>1, <3>1, <3>2, <3>6 DEF SendUpdates
      <4>2. Refused(rest)
        <5>1. Len(frame) \in Nat
          BY <3>2, <3>3, UpdateIsWritten
        <5> QED BY <3>3, <3>6, <5>1, MaxUpdateFrameIs
      <4>3. Underway(arrived, coming, entries, rest)'
        BY <3>1, <3>4, <4>1, <4>2 DEF Underway, AddUp, Refused
      <4> QED BY <4>3 DEF UpdatesInv
    <3> QED BY <3>5, <3>6
  <2>2. ASSUME way = "updates", ReceiveUpdates PROVE UpdatesInv'
    <3>1. PICK arrived, coming, entries, rest : Underway(arrived, coming, entries, rest)
      BY <1>2, <2>2 DEF UpdatesInv
    <3>2. /\ arrived \in Seq(Pieces) /\ coming \in Seq(Pieces) /\ entries \in Seq(Entry)
               /\ rest \in Seq(Entry)
          /\ received = Each(ResultOfPiece, arrived) /\ wire = Each(FrameOfPiece, coming) /\ wire # <<>>
          /\ (FlattenSeq(arrived) \o FlattenSeq(coming)) \o rest = entries
      BY <2>2, <3>1 DEF Underway, AddUp, ReceiveUpdates
    <3>3. /\ coming # <<>> /\ Head(coming) \in Pieces /\ Tail(coming) \in Seq(Pieces)
          /\ Head(wire) = FrameOfPiece[Head(coming)] /\ Tail(wire) = Each(FrameOfPiece, Tail(coming))
      BY <3>2, EachTail, PieceMaps
    <3>4. PICK piece, others : piece = Head(coming) /\ others = Tail(coming)
      OBVIOUS
    <3>5. piece \in Pieces /\ others \in Seq(Pieces)
      BY <3>3, <3>4
    <3>6. Decode(ObserverFrame, Head(wire)) = ResultOfPiece[piece]
      BY <3>3, <3>4, <3>5, UpdateIsWritten DEF FrameOfPiece, ResultOfPiece
    <3>7. PICK more : more = Append(arrived, piece)
      OBVIOUS
    <3>8. more \in Seq(Pieces) /\ Each(ResultOfPiece, more) = Append(Each(ResultOfPiece, arrived),
              ResultOfPiece[piece])
      BY <3>2, <3>5, <3>7, EachAppend, PieceMaps
    <3>9. received' = Each(ResultOfPiece, more) /\ wire' = Each(FrameOfPiece, others)
      BY <2>2, <3>2, <3>3, <3>4, <3>6, <3>8 DEF ReceiveUpdates
    <3>10. sent' = sent /\ failed' = failed
      BY <2>2 DEF ReceiveUpdates
    <3>11. (FlattenSeq(more) \o FlattenSeq(others)) \o rest = entries
      <4>1. PICK a, o : a = FlattenSeq(arrived) /\ o = FlattenSeq(others)
        OBVIOUS
      <4>2. a \in Seq(Entry) /\ o \in Seq(Entry) /\ arrived \in Seq(Seq(Entry)) /\ coming \in Seq(Seq(Entry))
        BY <3>2, <3>5, <4>1, PiecesFlatten
      <4>3. piece \in Seq(Entry)
        BY <3>5, PiecesAre
      <4>4. FlattenSeq(more) = a \o piece
        BY <3>7, <4>1, <4>2, <4>3, FlattenAppend
      <4>5. FlattenSeq(coming) = piece \o o
        BY <3>3, <3>4, <4>1, <4>2, FlattenHead
      <4>6. (a \o piece) \o o = a \o (piece \o o)
        <5>1. Regroups(a, piece, o)
          BY <4>2, <4>3, ListsRegroup
        <5> QED BY <5>1, Zenon DEF Regroups
      <4> QED BY <3>2, <4>1, <4>4, <4>5, <4>6
    <3>12. Underway(more, others, entries, rest)'
      <4>1. failed # "ok" => Refused(rest)
        BY <3>1 DEF Underway
      <4>2. sent = <<[entries |-> entries, rest |-> rest]>>
        BY <3>1 DEF Underway
      <4>3. AddUp(more, others, entries, rest)
        BY <3>2, <3>5, <3>8, <3>11 DEF AddUp
      <4> QED BY <3>9, <3>10, <4>1, <4>2, <4>3 DEF Underway, AddUp, Refused
    <3> QED BY <3>12 DEF UpdatesInv
  <2> QED BY <1>2, <2>1, <2>2, Ways
<1>3. UpdatesInv /\ UNCHANGED vars => UpdatesInv'
  BY DEF UpdatesInv, Underway, vars
<1> QED BY <1>1, <1>2, <1>3 DEF UpdatesInv

(* Nothing of an update is lost or sent twice, however it is cut into       *)
(* frames, and a frame is refused only if its entries fill it up to the two *)
(* bytes that are not counted with them.                                    *)
THEOREM UpdatesWholeHolds == Spec => []UpdatesWhole
<1>1. ASSUME UpdatesInv, way = "updates" PROVE UpdatesWhole
  <2>1. PICK arrived, coming, entries, rest : Underway(arrived, coming, entries, rest)
    BY <1>1 DEF UpdatesInv
  <2>2. /\ arrived \in Seq(Pieces) /\ coming \in Seq(Pieces)
        /\ sent = <<[entries |-> entries, rest |-> rest]>>
        /\ received = Each(ResultOfPiece, arrived) /\ wire = Each(FrameOfPiece, coming)
        /\ (FlattenSeq(arrived) \o FlattenSeq(coming)) \o rest = entries
        /\ failed # "ok" => Refused(rest)
    BY <2>1 DEF Underway, AddUp
  <2>3. sent[1].entries = entries /\ sent[1].rest = rest
    BY <2>2
  <2>4. [i \in DOMAIN received |-> received[i].value[2]] = arrived
    <3>1. PICK n \in Nat : n = Len(arrived)
      BY <2>2, LenProperties
    <3>2. \A i \in 1..n : arrived[i] \in Pieces
      BY <2>2, <3>1, ElementOfSeq
    <3>3. DOMAIN received = 1..n /\ \A i \in 1..n : received[i] = ResultOfPiece[arrived[i]]
      BY <2>2, <3>1 DEF Each
    <3>4. \A piece \in Pieces : ResultOfPiece[piece].value[2] = piece
      BY DEF ResultOfPiece, Ok
    <3>5. [i \in DOMAIN received |-> received[i].value[2]] = [i \in 1..n |-> arrived[i]]
      BY <3>2, <3>3, <3>4
    <3> QED BY <2>2, <3>1, <3>5, LenProperties
  <2>5. [i \in DOMAIN wire |-> Decode(ObserverFrame, wire[i]).value[2]] = coming
    <3>1. PICK n \in Nat : n = Len(coming)
      BY <2>2, LenProperties
    <3>2. \A i \in 1..n : coming[i] \in Pieces
      BY <2>2, <3>1, ElementOfSeq
    <3>3. DOMAIN wire = 1..n /\ \A i \in 1..n : wire[i] = FrameOfPiece[coming[i]]
      BY <2>2, <3>1 DEF Each
    <3>4. \A piece \in Pieces : Decode(ObserverFrame, FrameOfPiece[piece]).value[2] = piece
      <4>1. ASSUME NEW piece \in Pieces PROVE Decode(ObserverFrame, FrameOfPiece[piece]).value[2] = piece
        <5>1. Decode(ObserverFrame, FrameOfPiece[piece]) = Ok(<<5, piece>>, <<>>)
          BY UpdateIsWritten DEF FrameOfPiece
        <5> QED BY <5>1 DEF Ok
      <4> QED BY <4>1
    <3>5. [i \in DOMAIN wire |-> Decode(ObserverFrame, wire[i]).value[2]] = [i \in 1..n |-> coming[i]]
      BY <3>2, <3>3, <3>4
    <3> QED BY <2>2, <3>1, <3>5, LenProperties
  <2> QED BY <2>2, <2>3, <2>4, <2>5 DEF UpdatesWhole, Refused
<1>2. Fresh /\ UpdatesInv => UpdatesWhole
  BY <1>1 DEF UpdatesWhole
<1>3. Init => Fresh /\ UpdatesInv
  BY FreshInductive, UpdatesInductive
<1>4. Fresh /\ UpdatesInv /\ [Next]_vars => Fresh' /\ UpdatesInv'
  BY FreshInductive, UpdatesInductive
<1> QED BY <1>2, <1>3, <1>4, PTL DEF Spec

-----------------------------------------------------------------------------
(* The bytes of a frame on the serial line.                                 *)
LineFrame == Protocol \X Byte \X Byte \X {payload \in Bytes : Len(payload) <= 255}

(* The length of a frame on the line, and each of its bytes.                *)
Spells(s, f) ==
  /\ s \in Bytes /\ Len(s) = 12 + Len(f[4])
  /\ \A k \in 1..7 : s[k] = 170
  /\ s[8] = 171 /\ s[9] = f[1] /\ s[10] = f[2] /\ s[11] = f[3] /\ s[12] = Len(f[4])
  /\ \A k \in 1..Len(f[4]) : s[12 + k] = f[4][k]

LEMMA LineFrameIs ==
  ASSUME NEW f \in LineFrame
  PROVE  /\ f[1] \in Protocol /\ f[2] \in Byte /\ f[3] \in Byte /\ f[4] \in Bytes
         /\ Len(f[4]) \in Byte /\ Len(f[4]) \in Nat /\ f[1] \in Byte
         /\ f = <<f[1], f[2], f[3], f[4]>>
<1>1. /\ f[1] \in Protocol /\ f[2] \in Byte /\ f[3] \in Byte /\ f[4] \in Bytes
      /\ Len(f[4]) <= 255 /\ f = <<f[1], f[2], f[3], f[4]>>
  BY DEF LineFrame
<1>2. Len(f[4]) \in Nat
  BY <1>1, BytesJoin
<1>3. Len(f[4]) \in Byte
  BY <1>1, <1>2, ByteIs
<1>4. f[1] \in Byte
  BY <1>1, ByteIs DEF Protocol
<1> QED BY <1>1, <1>2, <1>3, <1>4

LEMMA SerialFrameIs ==
  ASSUME NEW f \in LineFrame
  PROVE  Written(SerialFrame, <<f[1], f[2], f[3], Len(f[4]), f[4]>>,
                 (((<<f[1]>> \o <<f[2]>>) \o <<f[3]>>) \o <<Len(f[4])>>) \o f[4], 1 + 1 + 1 + 1 + Len(f[4]))
<1>1. /\ f[1] \in Protocol /\ f[2] \in Byte /\ f[3] \in Byte /\ f[4] \in Bytes
      /\ Len(f[4]) \in Byte
  BY LineFrameIs
<1>2. Written(ProtocolSerdeable, f[1], <<f[1]>>, 1)
  <2>1. PICK w : w = ProtocolSerdeable
    OBVIOUS
  <2>2. /\ w.values = Protocol /\ w.bytes = [v \in Protocol |-> Encode(Uint8, v)]
        /\ w.size = [v \in Protocol |-> SerializedLength(Uint8, v)]
    BY <2>1 DEF ProtocolSerdeable, Enum, Restricted, Serdeable
  <2>3. Written(Uint8, f[1], <<f[1]>>, 1)
    <3>1. f[1] \in Byte
      BY <1>1, ByteIs DEF Protocol
    <3> QED BY <3>1, WrittenNumbers
  <2>4. Encode(w, f[1]) = Encode(Uint8, f[1]) /\ SerializedLength(w, f[1]) = SerializedLength(Uint8, f[1])
    BY <1>1, <2>2 DEF Encode, SerializedLength
  <2> QED BY <1>1, <2>1, <2>2, <2>3, <2>4 DEF Written
<1>3. Written(SerialAddress, f[2], <<f[2]>>, 1) /\ Written(SerialAddress, f[3], <<f[3]>>, 1)
  BY <1>1, WrittenNumbers DEF SerialAddress, SingleByteAddress
<1>4. Written(Uint8, Len(f[4]), <<Len(f[4])>>, 1)
  BY <1>1, WrittenNumbers
<1>5. Written(Remaining, f[4], f[4], Len(f[4]))
  BY <1>1, WrittenBasics
<1> QED BY <1>2, <1>3, <1>4, <1>5, Written5 DEF SerialFrame

LEMMA PreambleIs ==
  /\ PREAMBLE \in Bytes /\ Len(PREAMBLE) = 8 /\ PREAMBLE[8] = 171
  /\ \A k \in 1..7 : PREAMBLE[k] = 170
<1>1. PICK p : p = [i \in 1..8 |-> IF i = 8 THEN 171 ELSE 170]
  OBVIOUS
<1>2. p \in Seq(Byte) /\ Len(p) = 8 /\ p[8] = 171 /\ \A k \in 1..7 : p[k] = 170
  BY <1>1 DEF Byte
<1>3. PREAMBLE = p
  BY <1>1 DEF PREAMBLE, PREAMBLE_LENGTH, LAST_PREAMBLE_VALUE, NORMAL_PREAMBLE_VALUE
<1> QED BY <1>2, <1>3 DEF Bytes

LEMMA OneMore ==
  ASSUME NEW S, NEW s \in Seq(S), NEW v \in S, NEW n \in Nat, Len(s) = n
  PROVE  /\ s \o <<v>> \in Seq(S) /\ Len(s \o <<v>>) = n + 1 /\ (s \o <<v>>)[n + 1] = v
         /\ \A i \in 1..n : (s \o <<v>>)[i] = s[i]
<1>1. PICK t, u : t = <<v>> /\ u = s \o t
  OBVIOUS
<1>2. t \in Seq(S) /\ Len(t) = 1 /\ t[1] = v
  BY <1>1
<1>3. /\ s \o t \in Seq(S) /\ Len(s \o t) = Len(s) + Len(t)
      /\ \A i \in 1..Len(s) + Len(t) : (s \o t)[i] = IF i <= Len(s) THEN s[i] ELSE t[i - Len(s)]
  BY <1>2, ConcatProperties
<1>4. u \in Seq(S) /\ Len(u) = n + 1 /\ u[n + 1] = v /\ \A i \in 1..n : u[i] = s[i]
  BY <1>1, <1>2, <1>3
<1> QED BY <1>1, <1>4

LEMMA FrameSpells ==
  ASSUME NEW f \in LineFrame
  PROVE  Spells(SerializeFrame(f), f)
<1>1. PICK a, b, c, d, e, n : /\ a = f[1] /\ b = f[2] /\ c = f[3] /\ d = Len(f[4]) /\ e = f[4]
                              /\ n = Len(f[4])
  OBVIOUS
<1>2. a \in Byte /\ b \in Byte /\ c \in Byte /\ d \in Byte /\ e \in Seq(Byte) /\ n \in Nat
  BY <1>1, LineFrameIs DEF Bytes
<1>3. PICK t : t = (((<<a>> \o <<b>>) \o <<c>>) \o <<d>>) \o e
  OBVIOUS
<1>4. /\ t \in Seq(Byte) /\ Len(t) = 4 + n /\ t[1] = a /\ t[2] = b /\ t[3] = c /\ t[4] = d
      /\ \A k \in 1..n : t[4 + k] = e[k]
  <2>1. PICK h : h = ((<<a>> \o <<b>>) \o <<c>>) \o <<d>>
    OBVIOUS
  <2>2. PICK h1, h2, h3 : h1 = <<a>> /\ h2 = h1 \o <<b>> /\ h3 = h2 \o <<c>>
    OBVIOUS
  <2>3. h1 \in Seq(Byte) /\ Len(h1) = 1 /\ h1[1] = a
    BY <1>2, <2>2
  <2>4. h2 \in Seq(Byte) /\ Len(h2) = 2 /\ h2[2] = b /\ \A i \in 1..1 : h2[i] = h1[i]
    <3>1. PICK m \in Nat : m = 1
      OBVIOUS
    <3>2. h2 \in Seq(Byte) /\ Len(h2) = m + 1 /\ h2[m + 1] = b /\ \A i \in 1..m : h2[i] = h1[i]
      BY <1>2, <2>2, <2>3, <3>1, OneMore
    <3> QED BY <3>1, <3>2
  <2>5. h3 \in Seq(Byte) /\ Len(h3) = 3 /\ h3[3] = c /\ \A i \in 1..2 : h3[i] = h2[i]
    <3>1. PICK m \in Nat : m = 2
      OBVIOUS
    <3>2. h3 \in Seq(Byte) /\ Len(h3) = m + 1 /\ h3[m + 1] = c /\ \A i \in 1..m : h3[i] = h2[i]
      BY <1>2, <2>2, <2>4, <3>1, OneMore
    <3> QED BY <3>1, <3>2
  <2>6. h \in Seq(Byte) /\ Len(h) = 4 /\ h[4] = d /\ \A i \in 1..3 : h[i] = h3[i]
    <3>1. PICK m \in Nat : m = 3
      OBVIOUS
    <3>2. h \in Seq(Byte) /\ Len(h) = m + 1 /\ h[m + 1] = d /\ \A i \in 1..m : h[i] = h3[i]
      BY <1>2, <2>1, <2>2, <2>5, <3>1, OneMore
    <3> QED BY <3>1, <3>2
  <2>7. h \in Seq(Byte) /\ Len(h) = 4 /\ h[1] = a /\ h[2] = b /\ h[3] = c /\ h[4] = d
    BY <2>3, <2>4, <2>5, <2>6
  <2>8. t = h \o e /\ Len(e) = n
    BY <1>1, <1>3, <2>1
  <2>9. /\ h \o e \in Seq(Byte) /\ Len(h \o e) = 4 + n
        /\ \A i \in 1..4 + n : (h \o e)[i] = IF i <= 4 THEN h[i] ELSE e[i - 4]
    <3>1. /\ h \o e \in Seq(Byte) /\ Len(h \o e) = Len(h) + Len(e)
          /\ \A i \in 1..Len(h) + Len(e) : (h \o e)[i] = IF i <= Len(h) THEN h[i] ELSE e[i - Len(h)]
      BY <1>2, <2>7, ConcatProperties
    <3> QED BY <2>8, <2>7, <3>1
  <2> QED BY <1>2, <2>8, <2>9, <2>7
<1>5. SerializeFrame(f) = PREAMBLE \o t
  <2>1. Encode(SerialFrame, <<f[1], f[2], f[3], Len(f[4]), f[4]>>) = t
    BY <1>1, <1>3, SerialFrameIs, EncodesAs
  <2> QED BY <2>1 DEF SerializeFrame
<1>6. PICK s, p : s = PREAMBLE \o t /\ p = PREAMBLE
  OBVIOUS
<1>7. /\ s \in Seq(Byte) /\ Len(s) = 12 + n
      /\ \A i \in 1..12 + n : s[i] = IF i <= 8 THEN p[i] ELSE t[i - 8]
  <2>1. p \in Seq(Byte) /\ Len(p) = 8 /\ s = p \o t
    BY <1>6, PreambleIs DEF Bytes
  <2>2. /\ p \o t \in Seq(Byte) /\ Len(p \o t) = 8 + (4 + n)
        /\ \A i \in 1..8 + (4 + n) : (p \o t)[i] = IF i <= 8 THEN p[i] ELSE t[i - 8]
    <3>1. /\ p \o t \in Seq(Byte) /\ Len(p \o t) = Len(p) + Len(t)
          /\ \A i \in 1..Len(p) + Len(t) : (p \o t)[i] = IF i <= Len(p) THEN p[i] ELSE t[i - Len(p)]
      BY <1>4, <2>1, ConcatProperties
    <3> QED BY <1>4, <2>1, <3>1
  <2>3. 8 + (4 + n) = 12 + n
    BY <1>2
  <2> QED BY <2>1, <2>2, <2>3
<1>8. /\ \A k \in 1..7 : s[k] = 170
      /\ s[8] = 171 /\ s[9] = a /\ s[10] = b /\ s[11] = c /\ s[12] = d
      /\ \A k \in 1..n : s[12 + k] = e[k]
  <2>1. \A k \in 1..n : s[12 + k] = e[k]
    <3>1. ASSUME NEW k \in 1..n PROVE s[12 + k] = e[k]
      <4>1. s[12 + k] = t[12 + k - 8] /\ 12 + k - 8 = 4 + k
        BY <1>2, <1>7
      <4> QED BY <1>4, <4>1
    <3> QED BY <3>1
  <2>2. s[8] = p[8] /\ \A k \in 1..7 : s[k] = p[k]
    BY <1>2, <1>7
  <2>3. s[9] = t[1] /\ s[10] = t[2] /\ s[11] = t[3] /\ s[12] = t[4]
    BY <1>2, <1>7
  <2>4. p[8] = 171 /\ \A k \in 1..7 : p[k] = 170
    BY <1>6, PreambleIs
  <2> QED BY <1>4, <2>1, <2>2, <2>3, <2>4
<1>9. s \in Bytes /\ SerializeFrame(f) = s
  BY <1>5, <1>6, <1>7 DEF Bytes
<1>10. Spells(s, f)
  BY <1>1, <1>7, <1>8, <1>9 DEF Spells
<1> QED BY <1>9, <1>10

-----------------------------------------------------------------------------
(* What the deserializer makes of one byte.                                 *)
ReadingPreamble(x) == [at |-> "preamble", read |-> x]
ReadingFrame(x) == [at |-> "frame", read |-> x]
Reading(P, F) == [parser |-> P, frames |-> F]

LEMMA PreambleStep ==
  ASSUME NEW x \in Bytes, NEW r \in Nat, Len(x) = r, r < 8, NEW byte \in Byte, NEW F
  PROVE  /\ byte # PREAMBLE[r + 1] =>
              ReadByte(Reading(ReadingPreamble(x), F), byte) = Reading(Restarted, F)
         /\ byte = PREAMBLE[r + 1] /\ r < 7 =>
              ReadByte(Reading(ReadingPreamble(x), F), byte)
                = Reading(ReadingPreamble(Append(x, byte)), F)
         /\ byte = PREAMBLE[r + 1] /\ r = 7 =>
              ReadByte(Reading(ReadingPreamble(x), F), byte) = Reading(ReadingFrame(<<>>), F)
<1>1. PICK P, Q, state : P = ReadingPreamble(x) /\ Q = ReadPreamble(P, byte) /\ state = Reading(P, F)
  OBVIOUS
<1>2. P.at = "preamble" /\ P.read = x /\ state.parser = P /\ state.frames = F
  BY <1>1 DEF ReadingPreamble, Reading
<1>3. /\ byte # PREAMBLE[r + 1] => Q = Restarted
      /\ byte = PREAMBLE[r + 1] /\ r < 7 => Q = ReadingPreamble(Append(x, byte))
      /\ byte = PREAMBLE[r + 1] /\ r = 7 => Q = ReadingFrame(<<>>)
  <2>1. byte # PREAMBLE[r + 1] => Q = Restarted
    BY <1>1, <1>2 DEF ReadPreamble
  <2>2. ASSUME byte = PREAMBLE[r + 1], r < 7 PROVE Q = ReadingPreamble(Append(x, byte))
    <3>1. Q = [P EXCEPT !.read = Append(@, byte)]
      BY <1>1, <1>2, <2>2 DEF ReadPreamble, PREAMBLE_LENGTH
    <3> QED BY <1>1, <3>1 DEF ReadingPreamble
  <2>3. ASSUME byte = PREAMBLE[r + 1], r = 7 PROVE Q = ReadingFrame(<<>>)
    <3>1. Len(P.read) + 1 = 8 /\ ~(byte # PREAMBLE[Len(P.read) + 1])
      <4>1. Len(P.read) + 1 = r + 1
        BY <1>2
      <4>2. r + 1 = 8
        BY <2>3
      <4> QED BY <2>3, <4>1, <4>2
    <3>2. Q = [at |-> "frame", read |-> <<>>]
      BY <1>1, <3>1 DEF ReadPreamble, PREAMBLE_LENGTH
    <3> QED BY <3>2 DEF ReadingFrame
  <2> QED BY <2>1, <2>2, <2>3
<1>4. ~Complete(Q)
  <2>1. Q = Restarted => ~Complete(Q)
    BY DEF Restarted, Complete
  <2>2. Q = ReadingPreamble(Append(x, byte)) => ~Complete(Q)
    BY DEF ReadingPreamble, Complete
  <2>3. Q = ReadingFrame(<<>>) => ~Complete(Q)
    BY DEF ReadingFrame, Complete, HeaderLength
  <2> QED BY <1>3, <2>1, <2>2, <2>3
<1>5. ReadByte(state, byte) = [state EXCEPT !.parser = Q]
  BY <1>1, <1>2, <1>4 DEF ReadByte
<1>6. [state EXCEPT !.parser = Q] = Reading(Q, F)
  BY <1>1 DEF Reading
<1> QED BY <1>1, <1>3, <1>5, <1>6

(* The next byte of a frame, of which x has been read, and what then is.    *)
NextOf(x, n, byte, y) ==
  Len(x) = n /\ byte \in Byte /\ (n = 0 => byte \in Protocol) /\ y = Append(x, byte)

LEMMA FrameStep ==
  ASSUME NEW x \in Bytes, NEW n \in Nat, NEW byte, NEW y, NextOf(x, n, byte, y), NEW F
  PROVE  /\ n + 1 >= 4 /\ n + 1 = 4 + y[4] =>
              ReadByte(Reading(ReadingFrame(x), F), byte) = Reading(Restarted, Append(F, FrameOf(y)))
         /\ ~(n + 1 >= 4 /\ n + 1 = 4 + y[4]) =>
              ReadByte(Reading(ReadingFrame(x), F), byte) = Reading(ReadingFrame(y), F)
<1>1. Len(x) = n /\ byte \in Byte /\ (n = 0 => byte \in Protocol) /\ y = Append(x, byte)
  BY DEF NextOf
<1>2. PICK P, Q, state :
        P = ReadingFrame(x) /\ Q = ReadHeaderOrBody(P, byte) /\ state = Reading(P, F)
  OBVIOUS
<1>3. P.at = "frame" /\ P.read = x /\ state.parser = P /\ state.frames = F
  BY <1>2 DEF ReadingFrame, Reading
<1>4. Q = ReadingFrame(y)
  <2>1. x = <<>> => byte \in Protocol
    BY <1>1, EmptySeq
  <2>2. Q = [P EXCEPT !.read = Append(@, byte)]
    BY <1>2, <1>3, <2>1 DEF ReadHeaderOrBody
  <2> QED BY <1>1, <1>2, <2>2 DEF ReadingFrame
<1>5. Len(y) = n + 1
  BY <1>1 DEF Bytes
<1>6. Q.at = "frame" /\ Q.read = y
  BY <1>4 DEF ReadingFrame
<1>7. Complete(Q) <=> n + 1 >= 4 /\ n + 1 = 4 + y[4]
  BY <1>5, <1>6 DEF Complete, HeaderLength
<1>8. /\ Complete(Q) =>
            ReadByte(state, byte) = [parser |-> Restarted, frames |-> Append(state.frames, FrameOf(Q.read))]
      /\ ~Complete(Q) => ReadByte(state, byte) = [state EXCEPT !.parser = Q]
  BY <1>2, <1>3 DEF ReadByte
<1>9. [state EXCEPT !.parser = Q] = Reading(Q, F)
  BY <1>2 DEF Reading
<1> QED BY <1>2, <1>3, <1>4, <1>6, <1>7, <1>8, <1>9 DEF Reading

(* The deserializer has read r bytes of a preamble, or m bytes of what      *)
(* follows the preamble of f, or all that there is of f up to its byte o.   *)
InPreamble(P, r) == \E x \in Bytes : Len(x) = r /\ P = ReadingPreamble(x)
InFrame(P, f, m) ==
  \E x \in Bytes :
    Len(x) = m /\ P = ReadingFrame(x) /\ \A k \in 1..m : x[k] = SerializeFrame(f)[8 + k]
Inside(P, f, o) == IF o < 8 THEN InPreamble(P, o) ELSE InFrame(P, f, o - 8)

LEMMA NothingRead == \A P : InPreamble(P, 0) <=> P = Restarted
<1>1. <<>> \in Bytes /\ Len(<<>>) = 0
  BY BytesJoin
<1>2. ReadingPreamble(<<>>) = Restarted
  BY DEF ReadingPreamble, Restarted
<1>3. \A x \in Bytes : Len(x) = 0 => x = <<>>
  BY EmptySeq DEF Bytes
<1> QED BY <1>1, <1>2, <1>3 DEF InPreamble

(* The byte that follows the first o of a frame with n bytes of payload.    *)
ByteOf(f, n, o, b) == n = Len(f[4]) /\ o \in 0..11 + n /\ b = SerializeFrame(f)[o + 1]

LEMMA InsideStep ==
  ASSUME NEW f \in LineFrame, NEW n, NEW o, NEW b, ByteOf(f, n, o, b), NEW P, Inside(P, f, o), NEW F
  PROVE  /\ o + 1 = 12 + n => ReadByte(Reading(P, F), b) = Reading(Restarted, Append(F, f))
         /\ o + 1 < 12 + n =>
              \E Q : Inside(Q, f, o + 1) /\ ReadByte(Reading(P, F), b) = Reading(Q, F)
<1>1. PICK s : s = SerializeFrame(f)
  OBVIOUS
<1>2. n = Len(f[4]) /\ o \in 0..11 + n /\ b = SerializeFrame(f)[o + 1]
  BY DEF ByteOf
<1>3. Spells(s, f) /\ n \in Nat /\ n \in Byte
  BY <1>2, <1>1, FrameSpells, LineFrameIs
<1>4. b = s[o + 1] /\ b \in Byte /\ o \in Nat
  <2>1. o + 1 \in 1..Len(s)
    BY <1>2, <1>3 DEF Spells
  <2>2. s[o + 1] \in Byte
    BY <1>3, <2>1, ElementOfSeq DEF Spells, Bytes
  <2> QED BY <1>2, <1>1, <1>3, <2>2
<1>5. CASE o < 7
  <2>1. PICK x \in Bytes : Len(x) = o /\ P = ReadingPreamble(x)
    BY <1>2, <1>5 DEF Inside, InPreamble
  <2>2. b = PREAMBLE[o + 1]
    <3>1. PICK k \in 1..7 : k = o + 1
      BY <1>4, <1>5
    <3>2. s[k] = 170
      BY <1>3 DEF Spells
    <3>3. PREAMBLE[k] = 170
      BY PreambleIs
    <3> QED BY <1>4, <3>1, <3>2, <3>3
  <2>3. ReadByte(Reading(P, F), b) = Reading(ReadingPreamble(Append(x, b)), F)
    BY <1>4, <1>5, <2>1, <2>2, PreambleStep
  <2>4. Append(x, b) \in Bytes /\ Len(Append(x, b)) = o + 1
    BY <1>4, <2>1 DEF Bytes
  <2>5. Inside(ReadingPreamble(Append(x, b)), f, o + 1)
    <3>1. PICK k : k = o + 1
      OBVIOUS
    <3>2. k < 8
      BY <1>4, <1>5, <3>1
    <3>3. InPreamble(ReadingPreamble(Append(x, b)), k)
      BY <2>4, <3>1 DEF InPreamble
    <3> QED BY <3>1, <3>2, <3>3 DEF Inside
  <2> QED BY <1>3, <1>4, <1>5, <2>3, <2>5
<1>6. CASE o = 7
  <2>1. PICK x \in Bytes : Len(x) = o /\ P = ReadingPreamble(x)
    BY <1>6 DEF Inside, InPreamble
  <2>2. b = PREAMBLE[o + 1]
    BY <1>3, <1>4, <1>6, PreambleIs DEF Spells
  <2>3. ReadByte(Reading(P, F), b) = Reading(ReadingFrame(<<>>), F)
    <3>1. PICK r \in Nat : r = o
      BY <1>4
    <3>2. Len(x) = r /\ r < 8 /\ r = 7 /\ b = PREAMBLE[r + 1] /\ b \in Byte
      BY <1>4, <1>6, <2>1, <2>2, <3>1
    <3>3. ReadByte(Reading(ReadingPreamble(x), F), b) = Reading(ReadingFrame(<<>>), F)
      BY <3>2, PreambleStep, ZenonT(40)
    <3> QED BY <2>1, <3>3
  <2>4. Inside(ReadingFrame(<<>>), f, o + 1)
    BY <1>6, BytesJoin DEF Inside, InFrame
  <2> QED BY <1>3, <1>6, <2>3, <2>4
<1>7. CASE o > 7
  <2>1. PICK m \in Nat : m = o - 8
    BY <1>4, <1>7
  <2>2. PICK x \in Bytes : Len(x) = m /\ P = ReadingFrame(x) /\ \A k \in 1..m : x[k] = s[8 + k]
    BY <1>1, <1>4, <1>7, <2>1 DEF Inside, InFrame
  <2>3. PICK y : y = Append(x, b)
    OBVIOUS
  <2>4. y \in Bytes /\ Len(y) = m + 1 /\ \A k \in 1..m + 1 : y[k] = s[8 + k]
    <3>1. y \in Bytes /\ Len(y) = m + 1 /\ y[m + 1] = b /\ \A k \in 1..m : y[k] = x[k]
      BY <1>4, <2>1, <2>2, <2>3 DEF Bytes
    <3>2. b = s[8 + (m + 1)]
      BY <1>4, <2>1
    <3> QED BY <2>1, <2>2, <3>1, <3>2
  <2>5. m = 0 => b \in Protocol
    <3>1. m = 0 => b = f[1]
      BY <1>3, <1>4, <2>1 DEF Spells
    <3> QED BY <3>1, LineFrameIs
  <2>6. m + 1 >= 4 => y[4] = n
    BY <1>2, <1>3, <2>1, <2>4 DEF Spells
  <2>7. /\ m + 1 >= 4 /\ m + 1 = 4 + n =>
            ReadByte(Reading(P, F), b) = Reading(Restarted, Append(F, FrameOf(y)))
        /\ ~(m + 1 >= 4 /\ m + 1 = 4 + n) => ReadByte(Reading(P, F), b) = Reading(ReadingFrame(y), F)
    <3>1. /\ m + 1 >= 4 /\ m + 1 = 4 + y[4] =>
               ReadByte(Reading(ReadingFrame(x), F), b) = Reading(Restarted, Append(F, FrameOf(y)))
          /\ ~(m + 1 >= 4 /\ m + 1 = 4 + y[4]) =>
               ReadByte(Reading(ReadingFrame(x), F), b) = Reading(ReadingFrame(y), F)
      <4>1. NextOf(x, m, b, y)
        BY <1>4, <2>2, <2>3, <2>5 DEF NextOf
      <4> QED BY <4>1, FrameStep
    <3> QED BY <2>2, <2>6, <3>1
  <2>8. ASSUME o + 1 = 12 + n PROVE FrameOf(y) = f
    <3>1. m + 1 = 4 + n /\ Len(y) = 4 + n
      BY <1>3, <1>4, <2>1, <2>4, <2>8
    <3>2. y[1] = f[1] /\ y[2] = f[2] /\ y[3] = f[3]
      <4>1. 1 \in 1..m + 1 /\ 2 \in 1..m + 1 /\ 3 \in 1..m + 1
        BY <1>3, <2>1, <3>1
      <4>2. y[1] = s[9] /\ y[2] = s[10] /\ y[3] = s[11]
        BY <2>4, <4>1
      <4> QED BY <1>3, <4>2 DEF Spells
    <3>3. \A k \in 1..n : y[4 + k] = f[4][k]
      <4>1. ASSUME NEW k \in 1..n PROVE y[4 + k] = f[4][k]
        <5>1. y[4 + k] = s[8 + (4 + k)] /\ 8 + (4 + k) = 12 + k
          BY <1>3, <2>1, <2>4, <3>1
        <5> QED BY <1>2, <1>3, <5>1 DEF Spells
      <4> QED BY <4>1
    <3>4. SubSeq(y, 5, 4 + n) = f[4]
      <4>1. PICK z : z = SubSeq(y, 5, 4 + n)
        OBVIOUS
      <4>2. \A k \in 5..4 + n : y[k] \in Byte
        BY <1>3, <2>4, <3>1, ElementOfSeq DEF Bytes
      <4>3. z \in Seq(Byte) /\ Len(z) = n /\ \A k \in 1..n : z[k] = y[4 + k]
        <5>1. 5 \in Int /\ 4 + n \in Int
          BY <1>3
        <5>2. /\ z \in Seq(Byte) /\ Len(z) = IF 5 <= 4 + n THEN 4 + n - 5 + 1 ELSE 0
              /\ \A k \in 1..4 + n - 5 + 1 : z[k] = y[5 + k - 1]
          BY <1>2, <4>1, <4>2, <5>1, SubSeqProperties
        <5>3. 4 + n - 5 + 1 = n /\ \A k \in 1..n : 5 + k - 1 = 4 + k
          BY <1>3
        <5> QED BY <1>3, <5>2, <5>3
      <4>4. f[4] \in Seq(Byte) /\ Len(f[4]) = n
        BY <1>2, LineFrameIs DEF Bytes
      <4>5. z = f[4]
        BY <3>3, <4>3, <4>4, SeqEqual
      <4> QED BY <4>1, <4>5
    <3> QED BY <3>1, <3>2, <3>4, LineFrameIs DEF FrameOf, HeaderLength
  <2>9. ASSUME o + 1 < 12 + n PROVE Inside(ReadingFrame(y), f, o + 1)
    <3>1. o + 1 - 8 = m + 1 /\ ~(o + 1 < 8)
      BY <1>4, <1>7, <2>1
    <3> QED BY <1>2, <1>1, <2>4, <3>1 DEF Inside, InFrame
  <2> QED BY <1>3, <1>4, <1>7, <2>1, <2>7, <2>8, <2>9
<1> QED BY <1>4, <1>5, <1>6, <1>7

(* The first chunk has ended within f, of which nothing but the beginning   *)
(* of a preamble can be found before its byte o.                            *)
InCut(P, f, o) ==
  \E r \in 0..6 :
    /\ InPreamble(P, r)
    /\ \/ r = 0
       \/ o <= 7 /\ r < o
       \/ o \in 10..12 /\ r <= o - 9 /\ (o = 12 => Len(f[4]) = 170)

LEMMA CutStep ==
  ASSUME NEW f \in LineFrame, 170 \notin Range(f[4]), NEW n, NEW o, NEW b, ByteOf(f, n, o, b), o >= 1,
         NEW P, InCut(P, f, o), NEW F
  PROVE  \E Q : /\ ReadByte(Reading(P, F), b) = Reading(Q, F) /\ InCut(Q, f, o + 1)
                /\ o + 1 = 12 + n => Q = Restarted
<1>1. PICK s : s = SerializeFrame(f)
  OBVIOUS
<1>2. n = Len(f[4]) /\ o \in 0..11 + n /\ b = SerializeFrame(f)[o + 1]
  BY DEF ByteOf
<1>3. Spells(s, f) /\ n \in Nat /\ n \in Byte
  BY <1>2, <1>1, FrameSpells, LineFrameIs
<1>4. b = s[o + 1] /\ b \in Byte /\ o \in Nat /\ o >= 1
  <2>1. o + 1 \in 1..Len(s)
    BY <1>2, <1>3 DEF Spells
  <2>2. s[o + 1] \in Byte
    BY <1>3, <2>1, ElementOfSeq DEF Spells, Bytes
  <2> QED BY <1>2, <1>1, <1>3, <2>2
<1>5. PICK r \in 0..6 : /\ InPreamble(P, r)
                        /\ \/ r = 0
                           \/ o <= 7 /\ r < o
                           \/ o \in 10..12 /\ r <= o - 9 /\ (o = 12 => n = 170)
  BY <1>2 DEF InCut
<1>6. PICK x \in Bytes : Len(x) = r /\ P = ReadingPreamble(x)
  BY <1>5 DEF InPreamble
<1>7. PREAMBLE[r + 1] = 170
  <2>1. PICK k \in 1..7 : k = r + 1
    OBVIOUS
  <2> QED BY <2>1, PreambleIs
<1>8. CASE b # 170
  <2>1. ReadByte(Reading(P, F), b) = Reading(Restarted, F)
    <3>1. r \in Nat /\ r < 8 /\ b # PREAMBLE[r + 1]
      BY <1>7, <1>8
    <3> QED BY <1>4, <1>6, <3>1, PreambleStep
  <2>2. InCut(Restarted, f, o + 1)
    <3>1. InPreamble(Restarted, 0)
      BY NothingRead
    <3> QED BY <3>1 DEF InCut
  <2> QED BY <2>1, <2>2
<1>9. CASE b = 170
  <2>1. PICK k \in Nat : k = o + 1
    BY <1>4
  <2>2. s[k] = 170 /\ k \in 2..12 + n
    <3>1. s[k] = b
      BY <1>4, <2>1
    <3>2. k \in 2..12 + n
      BY <1>2, <1>3, <1>4, <2>1
    <3> QED BY <1>9, <3>1, <3>2
  <2>3. k # 8
    BY <1>3, <2>2 DEF Spells
  <2>4. k # 9
    <3>1. f[1] # 170
      BY LineFrameIs DEF Protocol
    <3> QED BY <1>3, <2>2, <3>1 DEF Spells
  <2>5. k = 12 => n = 170
    <3>1. s[12] = n
      BY <1>2, <1>3 DEF Spells
    <3> QED BY <2>2, <3>1
  <2>6. k <= 12
    <3>1. ASSUME k > 12 PROVE FALSE
      <4>1. PICK i \in 1..n : k = 12 + i
        BY <1>3, <2>2, <3>1
      <4>2. f[4][i] = 170
        <5>1. \A j \in 1..n : s[12 + j] = f[4][j]
          BY <1>2, <1>3 DEF Spells
        <5>2. s[12 + i] = f[4][i]
          BY <5>1
        <5> QED BY <2>2, <4>1, <5>2
      <4>3. i \in DOMAIN f[4]
        BY <1>2, LineFrameIs, LenProperties DEF Bytes
      <4> QED BY <4>2, <4>3 DEF Range
    <3> QED BY <2>1, <3>1
  <2>7. k # 12 + n
    <3>1. k = 12 + n => k = 12 /\ n = 0
      BY <1>3, <2>1, <2>6
    <3>2. k = 12 /\ n = 0 => FALSE
      BY <2>5
    <3> QED BY <3>1, <3>2
  <2>8. PICK y : y = Append(x, b)
    OBVIOUS
  <2>9. y \in Bytes /\ Len(y) = r + 1
    BY <1>4, <1>6, <2>8 DEF Bytes
  <2>10. ReadByte(Reading(P, F), b) = Reading(ReadingPreamble(y), F)
    <3>1. r \in Nat /\ r < 8 /\ b = PREAMBLE[r + 1] /\ r < 7
      BY <1>7, <1>9
    <3> QED BY <1>4, <1>6, <2>8, <3>1, PreambleStep
  <2>11. InCut(ReadingPreamble(y), f, k)
    <3>1. PICK q \in 0..6 : /\ q = r + 1
                            /\ \/ k <= 7 /\ q < k
                               \/ k \in 10..12 /\ q <= k - 9 /\ (k = 12 => n = 170)
      <4>1. CASE k <= 7
        BY <1>4, <1>5, <2>1, <4>1
      <4>2. CASE k \in 10..12
        <5>1. o \in 9..11 /\ r <= o - 9
          BY <1>2, <1>5, <2>1, <4>2
        <5>2. r + 1 \in 0..6 /\ r + 1 <= k - 9
          BY <2>1, <4>2, <5>1
        <5> QED BY <2>5, <4>2, <5>2
      <4>3. k <= 7 \/ k \in 10..12
        BY <2>1, <2>3, <2>4, <2>6
      <4> QED BY <4>1, <4>2, <4>3
    <3>2. InPreamble(ReadingPreamble(y), q)
      BY <2>9, <3>1 DEF InPreamble
    <3> QED BY <1>2, <3>1, <3>2 DEF InCut
  <2> QED BY <2>1, <2>7, <2>10, <2>11
<1> QED BY <1>8, <1>9

LEMMA IdleStep ==
  ASSUME NEW F, NEW b \in Byte, b # 170
  PROVE  ReadByte(Reading(Restarted, F), b) = Reading(Restarted, F)
<1>1. PICK x \in Bytes, r \in Nat : r = 0 /\ x = <<>>
  BY BytesJoin
<1>2. Len(x) = r /\ r < 8 /\ Restarted = ReadingPreamble(x)
  BY <1>1 DEF Restarted, ReadingPreamble
<1>3. b # PREAMBLE[r + 1]
  <2>1. PICK k \in 1..7 : k = r + 1
    BY <1>1
  <2> QED BY <2>1, PreambleIs
<1> QED BY <1>2, <1>3, PreambleStep

-----------------------------------------------------------------------------
(* A chunk, byte by byte.                                                   *)
Running == [at : {"preamble", "frame", "dead"}, read : Bytes]
Found == Seq(Byte \X Byte \X Byte \X Bytes)
Readings == [parser : Running, frames : Found]

LEMMA ReadByteType ==
  ASSUME NEW state \in Readings, NEW byte \in Byte
  PROVE  ReadByte(state, byte) \in Readings
<1>1. Restarted \in Running
  BY BytesJoin DEF Restarted, Running
<1>2. PICK P, F : P = state.parser /\ F = state.frames
  OBVIOUS
<1>3. P \in Running /\ F \in Found /\ state = [parser |-> P, frames |-> F]
  BY <1>2 DEF Readings
<1>4. PICK x, at : x = P.read /\ at = P.at
  OBVIOUS
<1>5. x \in Bytes /\ at \in {"preamble", "frame", "dead"} /\ P = [at |-> at, read |-> x]
  BY <1>3, <1>4 DEF Running
<1>6. Append(x, byte) \in Bytes /\ <<>> \in Bytes
  BY <1>5, BytesJoin DEF Bytes
<1>7. \E Q \in Running :
        ReadByte(state, byte) = IF Complete(Q) THEN [parser |-> Restarted, frames |-> Append(F,
            FrameOf(Q.read))]
                                ELSE [parser |-> Q, frames |-> F]
  <2>1. ASSUME NEW Q PROVE [state EXCEPT !.parser = Q] = [parser |-> Q, frames |-> F]
    BY <1>3
  <2>2. [P EXCEPT !.read = Append(@, byte)] = [at |-> at, read |-> Append(x, byte)]
    BY <1>5
  <2>3. [at |-> at, read |-> Append(x, byte)] \in Running
    BY <1>5, <1>6 DEF Running
  <2>4. CASE at = "preamble"
    <3>1. ReadPreamble(P, byte) \in Running
      <4>1. [at |-> "frame", read |-> <<>>] \in Running
        BY <1>6 DEF Running
      <4> QED BY <1>1, <2>2, <2>3, <4>1 DEF ReadPreamble
    <3> QED BY <1>2, <1>4, <2>1, <2>4, <3>1 DEF ReadByte
  <2>5. CASE at = "frame"
    <3>1. ReadHeaderOrBody(P, byte) \in Running
      <4>1. [at |-> "dead", read |-> <<>>] \in Running
        BY <1>6 DEF Running
      <4> QED BY <2>2, <2>3, <4>1 DEF ReadHeaderOrBody
    <3> QED BY <1>2, <1>4, <2>1, <2>5, <3>1 DEF ReadByte
  <2>6. CASE at = "dead"
    BY <1>2, <1>3, <1>4, <2>1, <2>6 DEF ReadByte
  <2> QED BY <1>5, <2>4, <2>5, <2>6
<1>8. PICK Q \in Running :
        ReadByte(state, byte) = IF Complete(Q) THEN [parser |-> Restarted, frames |-> Append(F,
            FrameOf(Q.read))]
                                ELSE [parser |-> Q, frames |-> F]
  BY <1>7
<1>9. CASE Complete(Q)
  <2>1. PICK y : y = Q.read
    OBVIOUS
  <2>2. y \in Seq(Byte)
    BY <2>1 DEF Running, Bytes
  <2>3. Len(y) >= 4 /\ Len(y) \in Nat
    BY <1>9, <2>1, <2>2, LenProperties DEF Complete, HeaderLength
  <2>4. y[1] \in Byte /\ y[2] \in Byte /\ y[3] \in Byte
    BY <2>2, <2>3, ElementOfSeq
  <2>5. PICK m \in Int : m = HeaderLength + 1
    BY DEF HeaderLength
  <2>6. FrameOf(y) \in Byte \X Byte \X Byte \X Bytes
    <3>1. \A i \in m..Len(y) : y[i] \in Byte
      BY <2>2, <2>3, <2>5, ElementOfSeq DEF HeaderLength
    <3>2. SubSeq(y, m, Len(y)) \in Bytes
      BY <2>3, <3>1, SubSeqProperties DEF Bytes
    <3>3. PICK a \in Byte, b \in Byte, d \in Byte, e \in Bytes :
            a = y[1] /\ b = y[2] /\ d = y[3] /\ e = SubSeq(y, m, Len(y))
      BY <2>4, <3>2
    <3>4. FrameOf(y) = <<a, b, d, e>>
      BY <2>5, <3>3 DEF FrameOf
    <3> QED BY <3>4
  <2>7. Append(F, FrameOf(y)) \in Found
    BY <1>3, <2>6 DEF Found
  <2> QED BY <1>1, <1>8, <1>9, <2>1, <2>7 DEF Readings
<1>10. CASE ~Complete(Q)
  BY <1>3, <1>8, <1>10 DEF Readings
<1> QED BY <1>9, <1>10

ReadsChunk(c, n, base, chunk) ==
  /\ c[0] = base /\ c[n] = FoldLeft(ReadByte, base, chunk)
  /\ \A i \in 1..n : c[i] = ReadByte(c[i - 1], chunk[i])

LEMMA ChunkRead ==
  ASSUME NEW n \in Nat, NEW bytes \in Bytes, Len(bytes) = n, NEW base \in Readings
  PROVE  \E c \in [0..n -> Readings] : ReadsChunk(c, n, base, bytes)
<1> DEFINE I == 1..n
           R == Readings
           E(f) == f = [u \in SUBSET DOMAIN bytes |->
                          IF u = {} THEN base ELSE ReadByte(f[u \ {Max(u)}], bytes[Max(u)])]
           G == [p \in I \X R |-> ReadByte(p[2], bytes[p[1]])]
<1>1. DOMAIN bytes = I /\ \A i \in I : bytes[i] \in Byte
  BY DEF Bytes
<1>2. ASSUME NEW t \in R, NEW byte \in Byte PROVE ReadByte(t, byte) \in R
  BY ReadByteType
<1>3. \E f \in [SUBSET I -> R] : E(f)
  <2>1. G \in [I \X R -> R]
    <3>1. \A p \in I \X R : ReadByte(p[2], bytes[p[1]]) \in R
      BY <1>1, <1>2
    <3> QED BY <3>1
  <2>2. PICK f \in [SUBSET I -> R] : FoldsLeft(f, I, base, G)
    <3>1. base \in R
      OBVIOUS
    <3> HIDE DEF G, R
    <3> QED BY <2>1, <3>1, FoldLeftExists
  <2>3. ASSUME NEW u \in SUBSET I
        PROVE  f[u] = IF u = {} THEN base ELSE ReadByte(f[u \ {Max(u)}], bytes[Max(u)])
    <3>1. CASE u # {}
      <4>1. Max(u) \in I /\ f[u \ {Max(u)}] \in R
        BY <3>1, Greatest
      <4>2. f[u] = G[<<Max(u), f[u \ {Max(u)}]>>]
        <5> HIDE DEF G
        <5> QED BY <2>2, <3>1 DEF FoldsLeft
      <4> QED BY <3>1, <4>1, <4>2
    <3> QED BY <2>2, <3>1 DEF FoldsLeft
  <2> QED BY <1>1, <2>3
<1>4. PICK f : E(f) /\ FoldLeft(ReadByte, base, bytes) = f[DOMAIN bytes]
  <2>1. E(CHOOSE f : E(f))
    <3> HIDE DEF E
    <3> QED BY <1>3
  <2> QED BY <2>1, Zenon DEF FoldLeft, MapThenFoldSet
<1> DEFINE c == [i \in 0..n |-> f[1..i]]
<1>5. c[0] = base /\ c[n] = FoldLeft(ReadByte, base, bytes)
  <2>1. 1..0 = {}
    OBVIOUS
  <2>2. f[{}] = base
    BY <1>4
  <2>3. c[0] = f[1..0] /\ c[n] = f[1..n]
    OBVIOUS
  <2> HIDE DEF c, E
  <2> QED BY <1>1, <1>4, <2>1, <2>2, <2>3
<1>6. ASSUME NEW i \in 1..n PROVE c[i] = ReadByte(c[i - 1], bytes[i])
  <2>1. 1..i \in SUBSET DOMAIN bytes /\ 1..i # {} /\ i \in Nat \ {0} /\ i - 1 \in 0..n /\ i \in 0..n
    <3>1. 1..i \in SUBSET I /\ 1..i # {} /\ i \in Nat \ {0} /\ i - 1 \in 0..n /\ i \in 0..n
      <4> HIDE DEF E, c
      <4>1. i \in 1..i /\ i \in Nat \ {0} /\ i - 1 \in 0..n /\ i \in 0..n
        OBVIOUS
      <4>2. \A x \in 1..i : x \in 1..n
        OBVIOUS
      <4> QED BY <4>1, <4>2
    <3> QED BY <1>1, <3>1, Zenon
  <2>2. f[1..i] = ReadByte(f[(1..i) \ {Max(1..i)}], bytes[Max(1..i)])
    BY <1>4, <2>1
  <2>3. f[1..i] = ReadByte(f[1..(i - 1)], bytes[i])
    BY <2>1, <2>2, MaxOfInterval
  <2> QED BY <2>1, <2>3
<1>7. c \in [0..n -> R]
  <2> DEFINE T == {i \in 0..n : c[i] \notin R}
  <2>1. 0 \notin T
    <3> HIDE DEF c, E
    <3> QED BY <1>5
  <2>2. ASSUME NEW i \in T PROVE i - 1 \in T
    <3> HIDE DEF c, E
    <3>1. i \in 1..n /\ i - 1 \in 0..n /\ c[i] \notin R
      BY <2>1
    <3>2. c[i] = ReadByte(c[i - 1], bytes[i]) /\ bytes[i] \in Byte
      BY <1>1, <1>6, <3>1
    <3>3. c[i - 1] \notin R
      <4> HIDE DEF R, T
      <4> QED BY <1>2, <3>1, <3>2
    <3> QED BY <3>1, <3>3
  <2>3. T = {}
    <3> HIDE DEF T
    <3>1. T \in SUBSET (0..n)
      BY DEF T
    <3> QED BY <2>1, <2>2, <3>1, Upward
  <2>4. \A i \in 0..n : c[i] \in R
    BY <2>3
  <2> QED BY <2>4
<1>8. ReadsChunk(c, n, base, bytes)
  BY <1>5, <1>6 DEF ReadsChunk
<1> QED BY <1>7, <1>8

-----------------------------------------------------------------------------
(* The line: where its frames begin and end, and what its bytes are.        *)
EndOf(i) == starts[i] + Len(SerializeFrame(sent[i]))
Index == 1..Len(sent)

LineOrder ==
  /\ sent \in Seq(LineFrame) /\ starts \in Seq(Nat) /\ Len(starts) = Len(sent)
  /\ wire \in Bytes /\ consumed \in Nat /\ dropped \in Nat
  /\ \A i \in Index : EndOf(i) <= consumed + Len(wire)
  /\ \A i, j \in Index : i < j => EndOf(i) <= starts[j]

(* Byte p of the line is one of frame i, and which one.                     *)
Holds(i, p) == starts[i] < p /\ p <= EndOf(i)
ByteAt(i, p) == SerializeFrame(sent[i])[p - starts[i]]

LineSays ==
  \A k \in 1..Len(wire) :
    /\ \A i \in Index : Holds(i, consumed + k) => wire[k] = ByteAt(i, consumed + k)
    /\ (\A i \in Index : ~Holds(i, consumed + k)) => wire[k] # 170

LEMMA LineIs ==
  ASSUME LineOrder, NEW i \in Index
  PROVE  /\ sent[i] \in LineFrame /\ starts[i] \in Nat /\ Len(sent[i][4]) \in Nat
         /\ EndOf(i) = starts[i] + (12 + Len(sent[i][4])) /\ EndOf(i) \in Nat
         /\ starts[i] < EndOf(i)
<1>1. sent[i] \in LineFrame /\ starts[i] \in Nat
  BY ElementOfSeq DEF LineOrder, Index
<1>2. Len(SerializeFrame(sent[i])) = 12 + Len(sent[i][4]) /\ Len(sent[i][4]) \in Nat
  BY <1>1, FrameSpells, LineFrameIs DEF Spells
<1> QED BY <1>1, <1>2 DEF EndOf

(* The first chunk may be cut anywhere, or no payload looks like a preamble.*)
Unmistaken ==
  \/ \A i \in Index : ~(starts[i] < dropped /\ dropped < EndOf(i))
  \/ \A i \in Index : 170 \notin Range(sent[i][4])

(* What the deserializer should be after p bytes of the line, and which     *)
(* frames should have come out of it.                                       *)
Within(i, p) == starts[i] < p /\ p < EndOf(i)

ParserAt(P, p) ==
  /\ \A i \in Index :
       Within(i, p) =>
         IF starts[i] >= dropped THEN Inside(P, sent[i], p - starts[i])
         ELSE InCut(P, sent[i], p - starts[i])
  /\ (\A i \in Index : ~Within(i, p)) => P = Restarted

Arrived(p) == {i \in Index : starts[i] >= dropped /\ EndOf(i) <= p}
ReceivedAt(F, p) ==
  \E first \in 1..Len(sent) + 1, last \in 0..Len(sent) :
    Arrived(p) = first..last /\ F = SubSeq(sent, first, last)

Sound(P, F, p) == ParserAt(P, p) /\ ReceivedAt(F, p)

LEMMA OneArrives ==
  ASSUME LineOrder, NEW i \in Index, starts[i] >= dropped, NEW p \in Nat, EndOf(i) = p + 1, NEW F,
         ReceivedAt(F, p)
  PROVE  ReceivedAt(Append(F, sent[i]), p + 1)
<1>1. PICK n \in Nat : n = Len(sent)
  BY LenProperties DEF LineOrder
<1>2. PICK first \in 1..n + 1, last \in 0..n : Arrived(p) = first..last /\ F = SubSeq(sent, first, last)
  BY <1>1 DEF ReceivedAt
<1>3. i \in 1..n /\ Index = 1..n
  BY <1>1 DEF Index
<1>4. /\ \A j \in 1..n : starts[j] \in Nat /\ EndOf(j) \in Nat /\ starts[j] < EndOf(j)
      /\ \A j, k \in 1..n : j < k => EndOf(j) <= starts[k]
  <2>1. \A j \in Index : starts[j] \in Nat /\ EndOf(j) \in Nat /\ starts[j] < EndOf(j)
    BY LineIs
  <2> QED BY <1>3, <2>1 DEF LineOrder
<1>5. \A j \in 1..n : j \in first..last <=> starts[j] >= dropped /\ EndOf(j) <= p
  BY <1>2, <1>3 DEF Arrived
<1>6. dropped \in Nat
  BY DEF LineOrder
<1>7. \A j \in 1..n : starts[j] >= dropped /\ EndOf(j) <= p + 1 <=> j \in first..last \/ j = i
  <2>1. ASSUME NEW j \in 1..n, EndOf(j) = p + 1 PROVE j = i
    <3>1. CASE j < i
      BY <1>3, <1>4, <2>1, <3>1
    <3>2. CASE i < j
      <4>1. EndOf(i) <= starts[j] /\ starts[j] < EndOf(j)
        BY <1>3, <1>4, <3>2
      <4> QED BY <1>3, <1>4, <2>1, <4>1
    <3> QED BY <1>3, <3>1, <3>2
  <2> QED BY <1>3, <1>4, <1>5, <2>1
<1>8. CASE first > last
  <2>1. Arrived(p + 1) = i..i
    BY <1>3, <1>7, <1>8 DEF Arrived
  <2>2. F = <<>>
    BY <1>2, <1>8, SubSeqEmpty
  <2>3. SubSeq(sent, i, i) = Append(<<>>, sent[i])
    <3>1. i \in 1..Len(sent) /\ i \in i..Len(sent) /\ i - 1 \in Int /\ i \in Int /\ i - 1 < i
      BY <1>1, <1>3
    <3>2. SubSeq(sent, i, i) = SubSeq(sent, i, i - 1) \o <<sent[i]>>
      BY <3>1, SubSeqRecursiveSecond DEF LineOrder
    <3>3. SubSeq(sent, i, i - 1) = <<>>
      BY <3>1, SubSeqEmpty
    <3>4. <<>> \in Seq(LineFrame) /\ sent[i] \in LineFrame
      BY LineIs
    <3> QED BY <3>2, <3>3, <3>4, AppendIsConcat
  <2>4. i \in 1..n + 1 /\ i \in 0..n
    BY <1>3
  <2>5. Append(F, sent[i]) = SubSeq(sent, i, i)
    BY <2>2, <2>3
  <2> QED BY <1>1, <2>1, <2>4, <2>5 DEF ReceivedAt
<1>9. CASE first <= last
  <2>1. i = last + 1
    <3>1. last \in 1..n /\ EndOf(last) <= p /\ starts[last] >= dropped
      BY <1>5, <1>9
    <3>2. i > last
      <4>1. CASE i < last
        BY <1>3, <1>4, <3>1, <4>1
      <4>2. CASE i = last
        BY <1>3, <1>4, <3>1, <4>2
      <4> QED BY <1>3, <4>1, <4>2
    <3>3. ASSUME last + 1 < i PROVE FALSE
      <4>1. PICK j \in 1..n : j = last + 1
        BY <1>3, <3>1, <3>3
      <4>2. EndOf(j) <= starts[i] /\ EndOf(last) <= starts[j]
        BY <1>3, <1>4, <3>1, <3>3, <4>1
      <4>3. EndOf(j) <= p /\ starts[j] >= dropped
        <5>1. PICK a, b, c, d, g \in Nat : /\ a = EndOf(j) /\ b = starts[i] /\ c = EndOf(last)
                                           /\ d = starts[j] /\ g = starts[last]
          BY <1>3, <1>4, <3>1, <4>1
        <5>2. b < p + 1 /\ g < c
          BY <1>3, <1>4, <3>1, <5>1
        <5>3. a <= b /\ c <= d /\ g >= dropped
          BY <3>1, <4>2, <5>1
        <5>4. a <= p /\ d >= dropped
          BY <1>6, <5>2, <5>3
        <5> QED BY <5>1, <5>4
      <4>4. j \in first..last
        BY <1>5, <4>3
      <4> QED BY <4>1, <4>4
    <3> QED BY <1>3, <3>2, <3>3
  <2>2. Arrived(p + 1) = first..i
    BY <1>3, <1>7, <1>9, <2>1 DEF Arrived
  <2>3. SubSeq(sent, first, i) = Append(F, sent[i])
    <3>1. first \in 1..Len(sent) /\ i \in first..Len(sent) /\ i - 1 = last
      BY <1>1, <1>3, <1>9, <2>1
    <3>2. SubSeq(sent, first, i) = F \o <<sent[i]>>
      BY <1>2, <3>1, SubSeqRecursiveSecond DEF LineOrder
    <3>3. F \in Seq(LineFrame)
      <4>1. \A j \in first..last : sent[j] \in LineFrame
        BY <1>1, <1>2, ElementOfSeq DEF LineOrder
      <4> QED BY <1>2, <4>1, SubSeqProperties
    <3> QED BY <3>2, <3>3, LineIs, AppendIsConcat
  <2>4. first \in 1..n + 1 /\ i \in 0..n
    BY <1>3
  <2> QED BY <1>1, <2>2, <2>3, <2>4 DEF ReceivedAt
<1> QED BY <1>8, <1>9

LEMMA NoneArrives ==
  ASSUME LineOrder, NEW p \in Nat, \A i \in Index : starts[i] >= dropped => EndOf(i) # p + 1,
         NEW F, ReceivedAt(F, p)
  PROVE  ReceivedAt(F, p + 1)
<1>1. \A i \in Index : EndOf(i) \in Nat
  BY LineIs
<1>2. Arrived(p + 1) = Arrived(p)
  <2>1. \A i \in Index : starts[i] >= dropped => (EndOf(i) <= p + 1 <=> EndOf(i) <= p)
    BY <1>1
  <2> QED BY <2>1 DEF Arrived
<1> QED BY <1>2 DEF ReceivedAt

(* The offset in a frame, from a to e, of the byte after p bytes.           *)
LEMMA Offsets ==
  ASSUME NEW a \in Nat, NEW e \in Nat, NEW n \in Nat, NEW p \in Nat, NEW o,
         a < p + 1, p + 1 <= e, e = a + (12 + n), o = p - a
  PROVE  /\ o \in 0..11 + n /\ (o + 1 = 12 + n <=> p + 1 = e)
         /\ o + 1 = (p + 1) - a /\ p < e
<1>1. o \in Int /\ 0 <= o /\ o <= 11 + n
  OBVIOUS
<1>2. o + 1 = (p + 1) - a /\ p < e
  OBVIOUS
<1>3. o + 1 = 12 + n <=> p + 1 = e
  OBVIOUS
<1> QED BY <1>1, <1>2, <1>3

(* One byte of a chunk.                                                     *)
LEMMA ByteSound ==
  ASSUME LineOrder, LineSays, Unmistaken, received \in Found,
         NEW P, NEW F \in Found, NEW k \in 1..Len(wire), NEW p \in Nat, p + 1 = consumed + k,
         dropped <= p, Sound(P, received \o F, p)
  PROVE  \E Q : \E G \in Found :
           ReadByte(Reading(P, F), wire[k]) = Reading(Q, G) /\ Sound(Q, received \o G, p + 1)
<1>1. PICK b \in Byte : b = wire[k]
  BY ElementOfSeq DEF LineOrder, Bytes
<1>2. ParserAt(P, p) /\ ReceivedAt(received \o F, p) /\ dropped \in Nat
  BY DEF Sound, LineOrder
<1>3. \A j \in Index : starts[j] \in Nat /\ EndOf(j) \in Nat /\ starts[j] < EndOf(j)
  BY LineIs
<1>4. \A i, j \in Index : i < j => EndOf(i) <= starts[j]
  BY DEF LineOrder
<1>5. ASSUME NEW i \in Index, Holds(i, p + 1)
      PROVE  \E Q : \E G \in Found :
               ReadByte(Reading(P, F), b) = Reading(Q, G) /\ Sound(Q, received \o G, p + 1)
  <2>1. PICK f, n, o : f = sent[i] /\ n = Len(f[4]) /\ o = p - starts[i]
    OBVIOUS
  <2>2. f \in LineFrame /\ n \in Nat /\ EndOf(i) = starts[i] + (12 + n)
    BY <2>1, LineIs
  <2>3. starts[i] < p + 1 /\ p + 1 <= EndOf(i) /\ starts[i] \in Nat /\ EndOf(i) \in Nat
    BY <1>3, <1>5 DEF Holds
  <2>4. /\ o \in 0..11 + n /\ (o + 1 = 12 + n <=> p + 1 = EndOf(i))
        /\ o + 1 = (p + 1) - starts[i] /\ p < EndOf(i)
    <3>1. PICK a \in Nat, e \in Nat : a = starts[i] /\ e = EndOf(i)
      BY <2>3
    <3>2. a < p + 1 /\ p + 1 <= e /\ e = a + (12 + n) /\ o = p - a
      BY <2>1, <2>2, <2>3, <3>1
    <3>3. /\ o \in 0..11 + n /\ (o + 1 = 12 + n <=> p + 1 = e)
          /\ o + 1 = (p + 1) - a /\ p < e
      BY <2>2, <3>2, Offsets
    <3> QED BY <3>1, <3>3
  <2>5. ByteOf(f, n, o, b)
    <3>1. PICK q : q = p + 1
      OBVIOUS
    <3>2. Holds(i, q) /\ q = consumed + k /\ q - starts[i] = o + 1
      BY <1>5, <2>4, <3>1
    <3>3. wire[k] = ByteAt(i, q)
      BY <3>2 DEF LineSays
    <3>4. ByteAt(i, q) = SerializeFrame(f)[o + 1]
      BY <2>1, <3>2 DEF ByteAt
    <3> QED BY <1>1, <2>1, <2>4, <3>3, <3>4 DEF ByteOf
  <2>6. \A j \in Index : j # i => ~Within(j, p) /\ ~Within(j, p + 1) /\ EndOf(j) # p + 1
    <3>1. ASSUME NEW j \in Index, j < i PROVE ~Within(j, p) /\ ~Within(j, p + 1) /\ EndOf(j) # p + 1
      <4>1. EndOf(j) <= starts[i] /\ EndOf(j) \in Nat
        BY <1>3, <1>4, <3>1
      <4>2. EndOf(j) <= p
        BY <2>3, <4>1
      <4> QED BY <4>1, <4>2 DEF Within
    <3>2. ASSUME NEW j \in Index, i < j PROVE ~Within(j, p) /\ ~Within(j, p + 1) /\ EndOf(j) # p + 1
      <4>1. EndOf(i) <= starts[j] /\ starts[j] \in Nat /\ EndOf(j) \in Nat /\ starts[j] < EndOf(j)
        BY <1>3, <1>4, <3>2
      <4>2. p + 1 <= starts[j]
        BY <2>3, <4>1
      <4> QED BY <4>1, <4>2 DEF Within
    <3>3. \A j \in Index : j \in Int /\ i \in Int
      BY DEF Index
    <3> QED BY <3>1, <3>2, <3>3
  <2>7. CASE starts[i] >= dropped
    <3>1. Inside(P, f, o)
      <4>1. CASE o = 0
        <5>1. ~Within(i, p)
          BY <2>1, <2>3, <4>1 DEF Within
        <5>2. P = Restarted
          BY <1>2, <2>6, <5>1 DEF ParserAt
        <5> QED BY <4>1, <5>2, NothingRead DEF Inside
      <4>2. CASE o # 0
        <5>1. Within(i, p)
          BY <2>1, <2>3, <2>4, <4>2 DEF Within
        <5> QED BY <1>2, <2>1, <2>7, <5>1 DEF ParserAt
      <4> QED BY <4>1, <4>2
    <3>2. CASE p + 1 = EndOf(i)
      <4>1. ReadByte(Reading(P, F), b) = Reading(Restarted, Append(F, f))
        BY <2>2, <2>4, <2>5, <3>1, <3>2, InsideStep
      <4>2. f \in Byte \X Byte \X Byte \X Bytes
        BY <2>2, LineFrameIs
      <4>3. Append(F, f) \in Found /\ received \o Append(F, f) = Append(received \o F, f)
        <5>1. Append(F, f) \in Found
          BY <4>2 DEF Found
        <5>2. received \o Append(F, f) = Append(received \o F, f)
          <6>1. Append(F, f) = F \o <<f>> /\ received \o F \in Found
            BY <4>2, AppendIsConcat, ConcatProperties DEF Found
          <6>2. Append(received \o F, f) = (received \o F) \o <<f>>
            BY <4>2, <6>1, AppendIsConcat DEF Found
          <6>3. <<f>> \in Found
            BY <4>2 DEF Found
          <6> QED BY <6>1, <6>2, <6>3, ConcatAssociative DEF Found
        <5> QED BY <5>1, <5>2
      <4>4. ReceivedAt(received \o Append(F, f), p + 1)
        BY <1>2, <2>1, <2>7, <3>2, <4>3, OneArrives
      <4>5. ParserAt(Restarted, p + 1)
        <5>1. \A j \in Index : ~Within(j, p + 1)
          BY <2>3, <2>6, <3>2 DEF Within
        <5> QED BY <5>1 DEF ParserAt
      <4> QED BY <4>1, <4>3, <4>4, <4>5 DEF Sound
    <3>3. CASE p + 1 # EndOf(i)
      <4>1. o + 1 < 12 + n
        BY <2>2, <2>4, <3>3
      <4>2. PICK Q : Inside(Q, f, o + 1) /\ ReadByte(Reading(P, F), b) = Reading(Q, F)
        BY <2>2, <2>5, <3>1, <4>1, InsideStep
      <4>3. Within(i, p + 1)
        BY <2>3, <3>3 DEF Within
      <4>4. ParserAt(Q, p + 1)
        BY <2>1, <2>4, <2>6, <2>7, <4>2, <4>3 DEF ParserAt
      <4>5. ReceivedAt(received \o F, p + 1)
        BY <1>2, <2>6, <3>3, NoneArrives
      <4> QED BY <4>2, <4>4, <4>5 DEF Sound
    <3> QED BY <3>2, <3>3
  <2>8. CASE ~(starts[i] >= dropped)
    <3>1. starts[i] < dropped /\ o \in 1..11 + n /\ Within(i, p)
      <4>1. starts[i] < dropped /\ starts[i] < p
        BY <1>2, <2>3, <2>8
      <4>2. o # 0
        BY <2>1, <2>3, <4>1
      <4> QED BY <2>2, <2>4, <4>1, <4>2 DEF Within
    <3>2. InCut(P, f, o)
      BY <1>2, <2>1, <2>8, <3>1 DEF ParserAt
    <3>3. 170 \notin Range(f[4])
      <4>1. dropped < EndOf(i)
        BY <1>2, <2>3, <2>4
      <4> QED BY <2>1, <3>1, <4>1 DEF Unmistaken
    <3>4. PICK Q : /\ ReadByte(Reading(P, F), b) = Reading(Q, F) /\ InCut(Q, f, o + 1)
                   /\ o + 1 = 12 + n => Q = Restarted
      BY <2>2, <2>5, <3>1, <3>2, <3>3, CutStep
    <3>5. ParserAt(Q, p + 1)
      <4>1. Within(i, p + 1) \/ Q = Restarted
        BY <2>3, <2>4, <3>4 DEF Within
      <4>2. Within(i, p + 1) => InCut(Q, sent[i], (p + 1) - starts[i])
        BY <2>1, <2>4, <3>4
      <4> QED BY <2>6, <2>8, <4>1, <4>2 DEF ParserAt
    <3>6. ReceivedAt(received \o F, p + 1)
      BY <1>2, <2>6, <2>8, NoneArrives
    <3> QED BY <3>4, <3>5, <3>6 DEF Sound
  <2> QED BY <2>7, <2>8
<1>6. ASSUME \A i \in Index : ~Holds(i, p + 1)
      PROVE  \E Q : \E G \in Found :
               ReadByte(Reading(P, F), b) = Reading(Q, G) /\ Sound(Q, received \o G, p + 1)
  <2>1. b # 170
    BY <1>1, <1>6 DEF LineSays
  <2>2. \A j \in Index : ~Within(j, p) /\ ~Within(j, p + 1) /\ EndOf(j) # p + 1
    BY <1>3, <1>6 DEF Within, Holds
  <2>3. P = Restarted
    BY <1>2, <2>2 DEF ParserAt
  <2>4. ReadByte(Reading(P, F), b) = Reading(Restarted, F)
    BY <2>1, <2>3, IdleStep
  <2>5. ParserAt(Restarted, p + 1)
    BY <2>2 DEF ParserAt
  <2>6. ReceivedAt(received \o F, p + 1)
    BY <1>2, <2>2, NoneArrives
  <2> QED BY <2>4, <2>5, <2>6 DEF Sound
<1> QED BY <1>1, <1>5, <1>6

(* A chunk, whatever the line holds.                                        *)
LEMMA ChunkSound ==
  ASSUME LineOrder, LineSays, Unmistaken, received \in Found, NEW length \in 1..Len(wire),
         parser \in Running, dropped <= consumed, Sound(parser, received, consumed),
         NEW result, result = FoldLeft(ReadByte, Reading(parser, <<>>), SubSeq(wire, 1, length))
  PROVE  Sound(result.parser, received \o result.frames, consumed + length)
<1>1. PICK chunk, base : chunk = SubSeq(wire, 1, length) /\ base = Reading(parser, <<>>)
  OBVIOUS
<1>2. length \in Nat /\ Len(wire) \in Nat /\ consumed \in Nat /\ dropped \in Nat
  BY LenProperties DEF LineOrder, Bytes
<1>3. chunk \in Bytes /\ Len(chunk) = length /\ \A i \in 1..length : chunk[i] = wire[i]
  <2>1. \A i \in 1..length : wire[i] \in Byte
    BY <1>2, ElementOfSeq DEF LineOrder, Bytes
  <2>2. /\ SubSeq(wire, 1, length) \in Seq(Byte) /\ Len(SubSeq(wire, 1, length)) = length
        /\ \A i \in 1..length : SubSeq(wire, 1, length)[i] = wire[i]
    BY <1>2, <2>1
  <2> QED BY <1>1, <2>2 DEF Bytes
<1>4. base \in Readings
  <2>1. <<>> \in Found
    BY DEF Found
  <2> QED BY <1>1, <2>1 DEF Reading, Readings
<1>5. PICK c \in [0..length -> Readings] : ReadsChunk(c, length, base, chunk)
  BY <1>2, <1>3, <1>4, ChunkRead
<1>6. c[0] = base /\ c[length] = result /\ \A i \in 1..length : c[i] = ReadByte(c[i - 1], wire[i])
  BY <1>1, <1>3, <1>5 DEF ReadsChunk
<1> DEFINE Right(i) == Sound(c[i].parser, received \o c[i].frames, consumed + i)
           T == {i \in 0..length : ~Right(i)}
<1>7. 0 \notin T
  <2>1. c[0].parser = parser /\ c[0].frames = <<>>
    BY <1>1, <1>6 DEF Reading
  <2>2. received \o <<>> = received
    BY ConcatEmptySeq DEF Found
  <2>3. consumed + 0 = consumed
    BY <1>2
  <2>4. Right(0)
    BY <2>1, <2>2, <2>3
  <2> HIDE DEF Right
  <2> QED BY <2>4
<1>8. ASSUME NEW i \in T PROVE i - 1 \in T
  <2>1. i \in 1..length /\ i - 1 \in 0..length /\ ~Right(i)
    <3> HIDE DEF Right
    <3> QED BY <1>2, <1>7
  <2>2. SUFFICES ASSUME Right(i - 1) PROVE FALSE
    <3> HIDE DEF Right
    <3> QED BY <2>1
  <2>3. PICK P, F, p : P = c[i - 1].parser /\ F = c[i - 1].frames /\ p = consumed + (i - 1)
    OBVIOUS
  <2>4. c[i - 1] \in Readings
    BY <1>5, <2>1
  <2>5. F \in Found /\ c[i - 1] = Reading(P, F)
    BY <2>3, <2>4 DEF Readings, Reading
  <2>6. p \in Nat /\ p + 1 = consumed + i /\ dropped <= p /\ i \in 1..Len(wire)
    BY <1>2, <2>1, <2>3
  <2>7. Sound(P, received \o F, p)
    BY <2>2, <2>3
  <2>8. PICK Q, G : ReadByte(Reading(P, F), wire[i]) = Reading(Q, G) /\ Sound(Q, received \o G, p + 1)
    BY <2>5, <2>6, <2>7, ByteSound
  <2>9. c[i] = Reading(Q, G)
    BY <1>6, <2>1, <2>5, <2>8
  <2>10. Right(i)
    BY <2>6, <2>8, <2>9 DEF Reading
  <2> HIDE DEF Right
  <2> QED BY <2>1, <2>10
<1>9. T = {}
  <2> HIDE DEF T
  <2>1. T \in SUBSET (0..length)
    BY DEF T
  <2> QED BY <1>2, <1>7, <1>8, <2>1, Upward
<1>10. Right(length)
  <2>1. length \in 0..length
    BY <1>2
  <2> HIDE DEF Right
  <2> QED BY <1>9, <2>1
<1> QED BY <1>6, <1>10

-----------------------------------------------------------------------------
(* The serial line and its deserializer, between two steps.                 *)
SerialState ==
  /\ LineOrder /\ LineSays /\ received \in Found
  /\ parser.at = "start" =>
       parser = NewParser /\ received = <<>> /\ consumed = 0 /\ dropped = 0
  /\ parser.at # "start" =>
       /\ parser \in Running /\ dropped <= consumed
       /\ Unmistaken => Sound(parser, received, consumed)

SerialInv == way = "serial" => SerialState

LEMMA SerialStart ==
  ASSUME Fresh, way = "none"
  PROVE  SerialState
<1>1. /\ sent = <<>> /\ wire = <<>> /\ received = <<>> /\ parser = NewParser /\ starts = <<>>
      /\ dropped = 0 /\ consumed = 0
  BY DEF Fresh
<1>2. Len(<<>>) = 0 /\ 1..0 = {} /\ Index = {}
  BY <1>1 DEF Index
<1>3. LineOrder
  <2>1. /\ sent \in Seq(LineFrame) /\ starts \in Seq(Nat) /\ Len(starts) = Len(sent)
        /\ wire \in Bytes /\ consumed \in Nat /\ dropped \in Nat
    BY <1>1, BytesJoin
  <2> QED BY <1>2, <2>1 DEF LineOrder
<1>4. LineSays
  BY <1>1, <1>2 DEF LineSays
<1>5. parser.at = "start" /\ received \in Found
  BY <1>1 DEF NewParser, Found
<1> QED BY <1>1, <1>3, <1>4, <1>5 DEF SerialState

(* A frame more at the end of the line.                                     *)
LEMMA FrameAdded ==
  ASSUME LineOrder, NEW frame \in LineFrame, SendSerial(frame), NEW n, n = Len(sent)
  PROVE  /\ n \in Nat /\ Index = 1..n /\ Index' = 1..n + 1
         /\ \A i \in 1..n : sent'[i] = sent[i] /\ starts'[i] = starts[i] /\ EndOf(i)' = EndOf(i)
         /\ sent'[n + 1] = frame /\ starts'[n + 1] = consumed + Len(wire)
         /\ EndOf(n + 1)' = consumed + Len(wire) + Len(SerializeFrame(frame))
         /\ sent' \in Seq(LineFrame) /\ starts' \in Seq(Nat) /\ Len(starts') = n + 1 /\ Len(sent') = n + 1
<1>1. PICK t : t = consumed + Len(wire)
  OBVIOUS
<1>2. sent' = Append(sent, frame) /\ starts' = Append(starts, t)
  BY <1>1 DEF SendSerial
<1>3. /\ sent \in Seq(LineFrame) /\ starts \in Seq(Nat) /\ Len(starts) = n /\ n \in Nat
      /\ t \in Nat
  BY <1>1, LenProperties DEF LineOrder, Bytes
<1>4. /\ sent' \in Seq(LineFrame) /\ starts' \in Seq(Nat) /\ Len(starts') = n + 1 /\ Len(sent') = n + 1
      /\ sent'[n + 1] = frame /\ starts'[n + 1] = t
      /\ \A i \in 1..n : sent'[i] = sent[i] /\ starts'[i] = starts[i]
  BY <1>2, <1>3, AppendProperties
<1>5. Index = 1..n /\ Index' = 1..n + 1
  BY <1>4 DEF Index
<1>6. \A i \in 1..n : EndOf(i)' = EndOf(i)
  BY <1>4 DEF EndOf
<1>7. EndOf(n + 1)' = t + Len(SerializeFrame(frame))
  BY <1>4 DEF EndOf
<1> QED BY <1>1, <1>3, <1>4, <1>5, <1>6, <1>7

LEMMA FrameSent ==
  ASSUME LineOrder, LineSays, NEW frame \in LineFrame, SendSerial(frame)
  PROVE  LineOrder' /\ LineSays'
<1>1. PICK n, m, s : n = Len(sent) /\ m = Len(wire) /\ s = SerializeFrame(frame)
  OBVIOUS
<1>2. /\ n \in Nat /\ Index = 1..n /\ Index' = 1..n + 1
      /\ \A i \in 1..n : sent'[i] = sent[i] /\ starts'[i] = starts[i] /\ EndOf(i)' = EndOf(i)
      /\ sent'[n + 1] = frame /\ starts'[n + 1] = consumed + m
      /\ EndOf(n + 1)' = consumed + m + Len(s)
      /\ sent' \in Seq(LineFrame) /\ starts' \in Seq(Nat) /\ Len(starts') = n + 1 /\ Len(sent') = n + 1
  BY <1>1, FrameAdded
<1>3. s \in Bytes /\ Len(s) \in Nat /\ Len(s) > 0
  <2>1. Len(s) = 12 + Len(frame[4]) /\ s \in Bytes /\ Len(frame[4]) \in Nat
    BY <1>1, FrameSpells, LineFrameIs DEF Spells
  <2> QED BY <2>1
<1>4. /\ wire' = wire \o s /\ wire \in Bytes /\ m \in Nat /\ consumed' = consumed /\ dropped' = dropped
      /\ consumed \in Nat /\ dropped \in Nat
  BY <1>1, LenProperties DEF SendSerial, LineOrder, Bytes
<1>5. /\ wire' \in Bytes /\ Len(wire') = m + Len(s)
      /\ \A k \in 1..m + Len(s) : wire'[k] = IF k <= m THEN wire[k] ELSE s[k - m]
  BY <1>1, <1>3, <1>4, ConcatProperties DEF Bytes
<1>6. \A i \in 1..n : EndOf(i) \in Nat /\ EndOf(i) <= consumed + m /\ starts[i] \in Nat
  BY <1>1, <1>2, LineIs DEF LineOrder
<1>7. LineOrder'
  <2>1. ASSUME NEW i \in 1..n + 1 PROVE EndOf(i)' <= consumed + (m + Len(s))
    <3>1. CASE i \in 1..n
      BY <1>2, <1>3, <1>4, <1>6, <3>1
    <3>2. CASE i = n + 1
      BY <1>2, <1>3, <1>4, <3>2
    <3> QED BY <1>2, <3>1, <3>2
  <2>2. ASSUME NEW i \in 1..n + 1, NEW j \in 1..n + 1, i < j PROVE EndOf(i)' <= starts'[j]
    <3>1. i \in 1..n
      BY <1>2, <2>2
    <3>2. CASE j \in 1..n
      BY <1>2, <2>2, <3>1, <3>2 DEF LineOrder
    <3>3. CASE j = n + 1
      BY <1>2, <1>6, <3>1, <3>3
    <3> QED BY <1>2, <3>2, <3>3
  <2> QED BY <1>2, <1>4, <1>5, <2>1, <2>2 DEF LineOrder
<1>8. ASSUME NEW k \in 1..m + Len(s)
      PROVE  /\ \A i \in 1..n + 1 : Holds(i, consumed + k)' => wire'[k] = ByteAt(i, consumed + k)'
             /\ (\A i \in 1..n + 1 : ~Holds(i, consumed + k)') => wire'[k] # 170
  <2>1. PICK p : p = consumed + k
    OBVIOUS
  <2>2. CASE k <= m
    <3>1. k \in 1..m /\ wire'[k] = wire[k] /\ p <= consumed + m /\ p \in Nat
      BY <1>3, <1>4, <1>5, <2>1, <2>2
    <3>2. ~Holds(n + 1, p)'
      BY <1>2, <1>4, <2>1, <3>1 DEF Holds
    <3>3. \A i \in 1..n : (Holds(i, p)' <=> Holds(i, p)) /\ ByteAt(i, p)' = ByteAt(i, p)
      BY <1>2, <1>4, <2>1 DEF Holds, ByteAt
    <3>4. /\ \A i \in 1..n : Holds(i, p) => wire[k] = ByteAt(i, p)
          /\ (\A i \in 1..n : ~Holds(i, p)) => wire[k] # 170
      BY <1>1, <1>2, <2>1, <3>1 DEF LineSays
    <3>5. \A i \in 1..n + 1 : i \in 1..n \/ i = n + 1
      BY <1>2
    <3>6. \A i \in 1..n : i \in 1..n + 1
      BY <1>2
    <3> QED BY <1>4, <2>1, <3>1, <3>2, <3>3, <3>4, <3>5, <3>6
  <2>3. CASE k > m
    <3>1. p > consumed + m /\ p \in Nat /\ p <= consumed + m + Len(s) /\ wire'[k] = s[k - m]
      BY <1>3, <1>4, <1>5, <2>1, <2>3
    <3>2. \A i \in 1..n : ~Holds(i, p)'
      BY <1>2, <1>4, <1>6, <2>1, <3>1 DEF Holds
    <3>3. Holds(n + 1, p)'
      BY <1>2, <1>4, <2>1, <3>1 DEF Holds
    <3>4. ByteAt(n + 1, p)' = s[k - m]
      <4>1. p - (consumed + m) = k - m
        BY <1>3, <1>4, <2>1
      <4> QED BY <1>1, <1>2, <1>4, <2>1, <4>1 DEF ByteAt
    <3>5. \A i \in 1..n + 1 : i \in 1..n \/ i = n + 1
      BY <1>2
    <3>6. n + 1 \in 1..n + 1
      BY <1>2
    <3> QED BY <1>4, <2>1, <3>1, <3>2, <3>3, <3>4, <3>5, <3>6
  <2>4. k <= m \/ k > m
    BY <1>3, <1>4
  <2> QED BY <2>2, <2>3, <2>4
<1>9. LineSays'
  BY <1>2, <1>4, <1>5, <1>8 DEF LineSays
<1> QED BY <1>7, <1>9

LEMMA SerialSent ==
  ASSUME SerialState, NEW frame \in SerialFrames, SendSerial(frame)
  PROVE  SerialState'
<1>1. PICK n \in Nat : n = Len(sent)
  BY LenProperties DEF SerialState, LineOrder
<1>2. frame \in LineFrame
  BY SerialAssumption DEF LineFrame
<1>3. /\ Index = 1..n /\ Index' = 1..n + 1 /\ Len(sent') = n + 1
      /\ \A i \in 1..n : sent'[i] = sent[i] /\ starts'[i] = starts[i] /\ EndOf(i)' = EndOf(i)
      /\ sent'[n + 1] = frame /\ starts'[n + 1] = consumed + Len(wire)
      /\ EndOf(n + 1)' = consumed + Len(wire) + Len(SerializeFrame(frame))
  BY <1>1, <1>2, FrameAdded DEF SerialState
<1>4. LineOrder' /\ LineSays' /\ LineOrder /\ LineSays
  BY <1>2, FrameSent DEF SerialState
<1>5. /\ parser' = parser /\ received' = received /\ consumed' = consumed /\ dropped' = dropped
      /\ sent' = Append(sent, frame) /\ consumed \in Nat /\ dropped \in Nat /\ Len(wire) \in Nat
  BY <1>4, LenProperties DEF SendSerial, LineOrder, Bytes
<1>6. ASSUME Unmistaken' PROVE Unmistaken
  <2>1. \A i \in 1..n : i \in 1..n + 1
    BY <1>1
  <2> QED BY <1>3, <1>5, <1>6, <2>1 DEF Unmistaken
<1>7. EndOf(n + 1)' > consumed /\ starts'[n + 1] >= consumed
  <2>1. Len(SerializeFrame(frame)) = 12 + Len(frame[4]) /\ Len(frame[4]) \in Nat
    BY <1>2, FrameSpells, LineFrameIs DEF Spells
  <2> QED BY <1>3, <1>5, <2>1
<1>8. ASSUME ParserAt(parser, consumed) PROVE ParserAt(parser, consumed)'
  <2>1. \A i \in 1..n + 1 : i \in 1..n \/ i = n + 1
    BY <1>1
  <2>2. \A i \in 1..n : Within(i, consumed)' <=> Within(i, consumed)
    BY <1>3, <1>5 DEF Within
  <2>3. ~Within(n + 1, consumed)'
    BY <1>3, <1>5, <1>7 DEF Within
  <2>4. \A i \in 1..n : i \in 1..n + 1
    BY <1>1
  <2>5. ASSUME NEW i \in 1..n, Within(i, consumed)
        PROVE  IF starts[i] >= dropped THEN Inside(parser, sent[i], consumed - starts[i])
               ELSE InCut(parser, sent[i], consumed - starts[i])
    BY <1>3, <1>8, <2>5 DEF ParserAt
  <2>6. ASSUME NEW i \in 1..n + 1, Within(i, consumed)'
        PROVE  IF starts'[i] >= dropped' THEN Inside(parser', sent'[i], consumed' - starts'[i])
               ELSE InCut(parser', sent'[i], consumed' - starts'[i])
    <3>1. i \in 1..n /\ Within(i, consumed)
      BY <2>1, <2>2, <2>3, <2>6
    <3> QED BY <1>3, <1>5, <2>5, <3>1
  <2>7. ASSUME \A i \in 1..n + 1 : ~Within(i, consumed)' PROVE parser' = Restarted
    BY <1>3, <1>5, <1>8, <2>2, <2>4, <2>7 DEF ParserAt
  <2> QED BY <1>3, <2>6, <2>7 DEF ParserAt
<1>9. ASSUME ReceivedAt(received, consumed) PROVE ReceivedAt(received, consumed)'
  <2>1. PICK first \in 1..n + 1, last \in 0..n :
          Arrived(consumed) = first..last /\ received = SubSeq(sent, first, last)
    BY <1>1, <1>9 DEF ReceivedAt
  <2>2. Arrived(consumed)' = Arrived(consumed)
    <3>1. \A i \in 1..n + 1 : i \in 1..n \/ i = n + 1
      BY <1>1
    <3>2. \A i \in 1..n : i \in 1..n + 1
      BY <1>1
    <3>3. ~(EndOf(n + 1)' <= consumed)
      <4>1. EndOf(n + 1)' \in Int
        <5>1. Len(SerializeFrame(frame)) = 12 + Len(frame[4]) /\ Len(frame[4]) \in Nat
          BY <1>2, FrameSpells, LineFrameIs DEF Spells
        <5>2. Len(SerializeFrame(frame)) \in Nat
          BY <5>1
        <5>3. consumed + Len(wire) + Len(SerializeFrame(frame)) \in Int
          BY <1>5, <5>2
        <5> QED BY <1>3, <5>3
      <4> QED BY <1>5, <1>7, <4>1
    <3>4. \A i : i \in Arrived(consumed)' <=> i \in Arrived(consumed)
      BY <1>3, <1>5, <3>1, <3>2, <3>3 DEF Arrived
    <3> QED BY <3>4 DEF Arrived
  <2>3. SubSeq(sent', first, last) = SubSeq(sent, first, last)
    <3>1. CASE last < first
      BY <2>1, <3>1, SubSeqEmpty
    <3>2. CASE first <= last
      <4>1. first \in 1..Len(sent) /\ last \in 1..Len(sent)
        BY <1>1, <2>1, <3>2
      <4>2. sent \in Seq(LineFrame) /\ <<frame>> \in Seq(LineFrame)
        BY <1>2, <1>4 DEF LineOrder
      <4>3. sent' = sent \o <<frame>>
        BY <1>2, <1>5, <4>2, AppendIsConcat
      <4> QED BY <4>1, <4>2, <4>3, SubSeqOfConcat1
    <3> QED BY <1>1, <2>1, <3>1, <3>2
  <2>4. first \in 1..(n + 1) + 1 /\ last \in 0..n + 1
    BY <1>1, <2>1
  <2> QED BY <1>3, <1>5, <2>1, <2>2, <2>3, <2>4 DEF ReceivedAt
<1>10. parser.at # "start" /\ Unmistaken' => Sound(parser, received, consumed)'
  BY <1>6, <1>8, <1>9 DEF SerialState, Sound
<1> QED BY <1>4, <1>5, <1>10 DEF SerialState

LEMMA NoiseHeard ==
  ASSUME SerialState, NEW byte \in NoiseBytes, Noise(byte)
  PROVE  SerialState'
<1>1. PICK m \in Nat : m = Len(wire)
  BY LenProperties DEF SerialState, LineOrder, Bytes
<1>2. byte \in Byte /\ byte # 170
  BY SerialAssumption DEF NORMAL_PREAMBLE_VALUE
<1>3. /\ wire' = Append(wire, byte) /\ sent' = sent /\ starts' = starts /\ received' = received
      /\ parser' = parser /\ dropped' = dropped /\ consumed' = consumed
  BY DEF Noise, serialVars
<1>4. LineOrder /\ LineSays /\ wire \in Seq(Byte) /\ consumed \in Nat
  BY DEF SerialState, LineOrder, Bytes
<1>5. /\ wire' \in Bytes /\ Len(wire') = m + 1 /\ wire'[m + 1] = byte
      /\ \A k \in 1..m : wire'[k] = wire[k]
  BY <1>1, <1>2, <1>3, <1>4, AppendProperties DEF Bytes
<1>6. /\ Index' = Index
      /\ \A i : /\ EndOf(i)' = EndOf(i)
                /\ \A p : Holds(i, p)' <=> Holds(i, p)
                /\ \A p : ByteAt(i, p)' = ByteAt(i, p)
  BY <1>3 DEF Index, EndOf, Holds, ByteAt
<1>7. \A i \in Index : EndOf(i) <= consumed + m /\ EndOf(i) \in Nat /\ starts[i] \in Nat
  BY <1>1, <1>4, LineIs DEF LineOrder
<1>8. LineOrder'
  BY <1>1, <1>3, <1>4, <1>5, <1>6, <1>7 DEF LineOrder
<1>9. LineSays'
  <2>1. \A i \in Index : ~Holds(i, consumed + (m + 1))
    BY <1>4, <1>7 DEF Holds
  <2>2. \A k \in 1..m + 1 : k \in 1..m \/ k = m + 1
    OBVIOUS
  <2> QED BY <1>1, <1>2, <1>3, <1>4, <1>5, <1>6, <2>1, <2>2 DEF LineSays
<1>10. /\ Unmistaken' <=> Unmistaken
       /\ Sound(parser, received, consumed)' <=> Sound(parser, received, consumed)
  BY <1>3, <1>6 DEF Unmistaken, Sound, ParserAt, Within, ReceivedAt, Arrived
<1> QED BY <1>3, <1>8, <1>9, <1>10 DEF SerialState

(* What is left of the line after a chunk.                                  *)
LEMMA LineRead ==
  ASSUME LineOrder, LineSays, NEW length \in 1..Len(wire), ReceiveSerial(length)
  PROVE  LineOrder' /\ LineSays'
<1>1. PICK m \in Nat : m = Len(wire)
  BY LenProperties DEF LineOrder, Bytes
<1>2. /\ wire' = SubSeq(wire, length + 1, m) /\ sent' = sent /\ starts' = starts
      /\ consumed' = consumed + length /\ dropped' = IF parser.at = "start" THEN length ELSE dropped
  BY <1>1 DEF ReceiveSerial
<1>3. /\ wire \in Seq(Byte) /\ consumed \in Nat /\ dropped' \in Nat /\ length \in Nat /\ consumed' \in Nat
      /\ 1 <= length /\ length <= m
  BY <1>1, <1>2 DEF LineOrder, Bytes
<1>4. /\ wire' \in Bytes /\ Len(wire') = m - length
      /\ \A k \in 1..m - length : wire'[k] = wire[k + length]
  <2>1. \A k \in length + 1..m : wire[k] \in Byte
    BY <1>1, <1>3, ElementOfSeq
  <2>2. length + 1 \in Int /\ m \in Int
    BY <1>3
  <2>3. /\ SubSeq(wire, length + 1, m) \in Seq(Byte)
        /\ Len(SubSeq(wire, length + 1, m)) = IF length + 1 <= m THEN m - (length + 1) + 1 ELSE 0
        /\ \A k \in 1..m - (length + 1) + 1 : SubSeq(wire, length + 1, m)[k] = wire[length + 1 + k - 1]
    BY <2>1, <2>2, SubSeqProperties
  <2>4. m - (length + 1) + 1 = m - length /\ (~(length + 1 <= m) => m - length = 0)
    BY <1>3
  <2>5. \A k \in 1..m - length : length + 1 + k - 1 = k + length
    BY <1>3
  <2> QED BY <1>2, <2>3, <2>4, <2>5 DEF Bytes
<1>5. /\ Index' = Index
      /\ \A i : /\ EndOf(i)' = EndOf(i)
                /\ \A p : Holds(i, p)' <=> Holds(i, p)
                /\ \A p : ByteAt(i, p)' = ByteAt(i, p)
  BY <1>2 DEF Index, EndOf, Holds, ByteAt
<1>6. LineOrder'
  <2>1. consumed' + Len(wire') = consumed + m
    BY <1>2, <1>3, <1>4
  <2> QED BY <1>1, <1>2, <1>3, <1>4, <1>5, <2>1 DEF LineOrder
<1>7. LineSays'
  <2>1. ASSUME NEW k \in 1..m - length
        PROVE  /\ \A i \in Index : Holds(i, consumed' + k) => wire'[k] = ByteAt(i, consumed' + k)
               /\ (\A i \in Index : ~Holds(i, consumed' + k)) => wire'[k] # 170
    <3>1. PICK j : j = k + length
      OBVIOUS
    <3>2. j \in 1..m /\ consumed' + k = consumed + j /\ wire'[k] = wire[j]
      BY <1>2, <1>3, <1>4, <3>1
    <3>3. /\ \A i \in Index : Holds(i, consumed + j) => wire[j] = ByteAt(i, consumed + j)
          /\ (\A i \in Index : ~Holds(i, consumed + j)) => wire[j] # 170
      BY <1>1, <3>2 DEF LineSays
    <3> QED BY <3>2, <3>3
  <2> QED BY <1>4, <1>5, <2>1 DEF LineSays
<1> QED BY <1>6, <1>7

(* The first chunk goes nowhere.                                            *)
LEMMA FirstChunkLost ==
  ASSUME SerialState, parser.at = "start", NEW length \in 1..Len(wire), ReceiveSerial(length)
  PROVE  SerialState'
<1>1. LineOrder /\ LineSays /\ LineOrder' /\ LineSays'
  BY LineRead DEF SerialState
<1>2. /\ parser' = Restarted /\ received' = <<>> /\ dropped' = length /\ consumed' = length
      /\ length \in Nat /\ sent' = sent /\ starts' = starts
  <2>1. DispatchReceivedBytes(parser, SubSeq(wire, 1, length)) = [parser |-> Restarted, frames |-> <<>>]
    BY DEF DispatchReceivedBytes
  <2>2. received = <<>> /\ consumed = 0
    BY DEF SerialState
  <2>3. received' = <<>> \o <<>> /\ consumed' = 0 + length
    BY <2>1, <2>2 DEF ReceiveSerial
  <2>4. <<>> \o <<>> = <<>> /\ 0 + length = length /\ length \in Nat
    BY <1>1, LenProperties DEF LineOrder, Bytes
  <2> QED BY <2>1, <2>3, <2>4 DEF ReceiveSerial
<1>3. Restarted.at # "start" /\ Restarted \in Running /\ <<>> \in Found
  BY BytesJoin DEF Restarted, Running, Found
<1>4. Index' = Index /\ \A i \in Index : EndOf(i)' = EndOf(i) /\ starts'[i] = starts[i] /\ sent'[i] = sent[i]
  BY <1>2 DEF Index, EndOf
<1>5. \A i \in Index : starts[i] \in Nat /\ EndOf(i) \in Nat /\ starts[i] < EndOf(i)
  BY <1>1, LineIs
<1>6. ParserAt(parser, consumed)'
  <2>1. ASSUME NEW i \in Index, Within(i, consumed)'
        PROVE  /\ ~(starts'[i] >= dropped')
               /\ InCut(Restarted, sent[i], consumed' - starts'[i])
    <3>1. ~(starts'[i] >= dropped')
      BY <1>2, <1>4, <1>5, <2>1 DEF Within
    <3>2. InPreamble(Restarted, 0)
      BY NothingRead
    <3>3. \A o : InCut(Restarted, sent[i], o)
      <4>1. 0 \in 0..6
        OBVIOUS
      <4> QED BY <3>2, <4>1 DEF InCut
    <3> QED BY <3>1, <3>3
  <2> QED BY <1>2, <1>4, <2>1 DEF ParserAt
<1>7. ReceivedAt(received, consumed)'
  <2>1. Arrived(consumed)' = {}
    <3>1. \A i \in Index : ~(starts[i] >= length /\ EndOf(i) <= length)
      BY <1>2, <1>5
    <3> QED BY <1>2, <1>4, <3>1 DEF Arrived
  <2>2. SubSeq(sent', 1, 0) = <<>>
    BY SubSeqEmpty
  <2>3. 1 \in 1..Len(sent') + 1 /\ 0 \in 0..Len(sent')
    BY <1>1, LenProperties DEF LineOrder
  <2>4. 1..0 = {}
    OBVIOUS
  <2> QED BY <1>2, <2>1, <2>2, <2>3, <2>4 DEF ReceivedAt
<1>8. dropped' <= consumed' /\ parser'.at # "start" /\ parser' \in Running /\ received' \in Found
  BY <1>2, <1>3
<1> QED BY <1>1, <1>6, <1>7, <1>8 DEF SerialState, Sound

LEMMA ChunkReceived ==
  ASSUME SerialState, parser.at # "start", NEW length \in 1..Len(wire), ReceiveSerial(length)
  PROVE  SerialState'
<1>1. LineOrder /\ LineSays /\ LineOrder' /\ LineSays' /\ length \in Nat
  <2>1. LineOrder /\ LineSays
    BY DEF SerialState
  <2>2. Len(wire) \in Nat
    BY <2>1, LenProperties DEF LineOrder, Bytes
  <2> QED BY <2>1, <2>2, LineRead
<1>2. PICK chunk, result :
        chunk = SubSeq(wire, 1, length) /\ result = FoldLeft(ReadByte, Reading(parser, <<>>), chunk)
  OBVIOUS
<1>3. /\ parser' = result.parser /\ received' = received \o result.frames /\ dropped' = dropped
      /\ consumed' = consumed + length /\ sent' = sent /\ starts' = starts
  BY <1>2 DEF ReceiveSerial, DispatchReceivedBytes, Reading
<1>4. result \in Readings
  <2>1. chunk \in Bytes /\ Len(chunk) = length
    <3>1. \A k \in 1..length : wire[k] \in Byte
      BY <1>1, ElementOfSeq DEF LineOrder, Bytes
    <3>2. 1 <= length /\ length - 1 + 1 = length
      BY <1>1
    <3>3. 1 \in Int /\ length \in Int
      BY <1>1
    <3>4. SubSeq(wire, 1, length) \in Seq(Byte) /\ Len(SubSeq(wire, 1, length)) = length
      BY <3>1, <3>2, <3>3, SubSeqProperties
    <3> QED BY <1>2, <3>4 DEF Bytes
  <2>2. Reading(parser, <<>>) \in Readings
    <3>1. parser \in Running /\ <<>> \in Found
      BY DEF SerialState, Found
    <3> QED BY <3>1 DEF Reading, Readings
  <2>3. PICK c \in [0..length -> Readings] : ReadsChunk(c, length, Reading(parser, <<>>), chunk)
    BY <1>1, <2>1, <2>2, ChunkRead
  <2>4. length \in 0..length
    BY <1>1
  <2> QED BY <1>2, <2>3, <2>4 DEF ReadsChunk
<1>5. result.parser \in Running /\ result.frames \in Found /\ received \in Found
  BY <1>4 DEF Readings, SerialState
<1>6. parser'.at # "start" /\ parser' \in Running /\ received' \in Found
  BY <1>3, <1>5, ConcatProperties DEF Running, Found
<1>7. dropped' <= consumed'
  BY <1>1, <1>3 DEF SerialState, LineOrder
<1>8. ASSUME Unmistaken' PROVE Sound(parser, received, consumed)'
  <2>1. Unmistaken /\ parser \in Running /\ dropped <= consumed
    BY <1>3, <1>8 DEF Unmistaken, Index, EndOf, SerialState
  <2>2. Sound(parser, received, consumed)
    BY <2>1 DEF SerialState
  <2>3. Sound(result.parser, received \o result.frames, consumed + length)
    BY <1>1, <1>2, <1>5, <2>1, <2>2, ChunkSound
  <2>4. Sound(parser', received', consumed')
    BY <1>3, <2>3
  <2> QED BY <1>3, <2>4 DEF Sound, ParserAt, ReceivedAt, Arrived, Within, Index, EndOf
<1> QED BY <1>1, <1>6, <1>7, <1>8 DEF SerialState

LEMMA SerialInductive ==
  /\ Init => SerialInv
  /\ Fresh /\ SerialInv /\ [Next]_vars => SerialInv'
<1>1. Init => SerialInv
  BY DEF Init, SerialInv
<1>2. ASSUME Fresh, SerialInv, Next, way' = "serial" PROVE SerialState'
  <2>1. ASSUME way \in {"none", "serial"}, NEW frame \in SerialFrames, SendSerial(frame)
        PROVE  SerialState'
    <3>1. SerialState
      BY <1>2, <2>1, SerialStart DEF SerialInv
    <3> QED BY <2>1, <3>1, SerialSent
  <2>2. ASSUME way = "serial", NEW byte \in NoiseBytes, Noise(byte) PROVE SerialState'
    BY <1>2, <2>2, NoiseHeard DEF SerialInv
  <2>3. ASSUME way = "serial", NEW length \in 1..Len(wire), ReceiveSerial(length) PROVE SerialState'
    <3>1. SerialState
      BY <1>2, <2>3 DEF SerialInv
    <3> QED BY <2>3, <3>1, FirstChunkLost, ChunkReceived
  <2> QED BY <1>2, <2>1, <2>2, <2>3, Ways
<1>3. ASSUME SerialInv, UNCHANGED vars PROVE SerialInv'
  <2>1. /\ way' = way /\ sent' = sent /\ wire' = wire /\ received' = received /\ parser' = parser
        /\ starts' = starts /\ dropped' = dropped /\ consumed' = consumed
    BY <1>3 DEF vars
  <2>2. LineOrder' <=> LineOrder
    BY <2>1 DEF LineOrder, Index, EndOf
  <2>3. LineSays' <=> LineSays
    BY <2>1 DEF LineSays, Holds, ByteAt, Index, EndOf
  <2>4. Unmistaken' <=> Unmistaken
    BY <2>1 DEF Unmistaken, Index, EndOf
  <2>5. ParserAt(parser, consumed)' <=> ParserAt(parser, consumed)
    BY <2>1 DEF ParserAt, Within, Index, EndOf
  <2>6. ReceivedAt(received, consumed)' <=> ReceivedAt(received, consumed)
    BY <2>1 DEF ReceivedAt, Arrived, Index, EndOf
  <2> QED BY <1>3, <2>1, <2>2, <2>3, <2>4, <2>5, <2>6 DEF SerialInv, SerialState, Sound
<1> QED BY <1>1, <1>2, <1>3 DEF SerialInv

LEMMA ArriveInOrder ==
  ASSUME SerialState, NEW n, n = Len(sent),
         \/ \A i \in DOMAIN starts : ~(starts[i] < dropped /\ dropped < EndOf(i))
         \/ \A i \in DOMAIN sent : 170 \notin Range(sent[i][4])
  PROVE  \E first \in 1..n + 1, last \in 0..n :
           {i \in DOMAIN starts : starts[i] >= dropped /\ EndOf(i) <= consumed} = first..last
             /\ received = SubSeq(sent, first, last)
<1>1. /\ n \in Nat /\ DOMAIN starts = Index /\ DOMAIN sent = Index /\ LineOrder
      /\ Index = 1..n
  BY LenProperties DEF SerialState, LineOrder, Index
<1>2. Unmistaken
  BY <1>1 DEF Unmistaken
<1>3. CASE parser.at = "start"
  <2>1. received = <<>> /\ consumed = 0
    BY <1>3 DEF SerialState
  <2>2. \A i \in Index : ~(EndOf(i) <= consumed)
    <3>1. \A i \in Index : starts[i] \in Nat /\ EndOf(i) \in Nat /\ starts[i] < EndOf(i)
      BY <1>1, LineIs
    <3> QED BY <2>1, <3>1
  <2>3. {i \in DOMAIN starts : starts[i] >= dropped /\ EndOf(i) <= consumed} = 1..0
    BY <1>1, <2>2
  <2>4. SubSeq(sent, 1, 0) = <<>>
    BY SubSeqEmpty
  <2>5. 1 \in 1..n + 1 /\ 0 \in 0..n
    BY <1>1
  <2> QED BY <2>1, <2>3, <2>4, <2>5
<1>4. CASE parser.at # "start"
  <2>1. ReceivedAt(received, consumed)
    BY <1>2, <1>4 DEF SerialState, Sound
  <2> QED BY <1>1, <2>1 DEF ReceivedAt, Arrived
<1> QED BY <1>3, <1>4

(* Of what is written to the serial line, every frame that starts after the *)
(* first chunk arrives once, in order and as it was, for every frame, every *)
(* noise without the preamble and every cut into chunks: if the first chunk *)
(* ends with a frame, or what it leaves of one has no preamble in it.       *)
THEOREM SerialInOrderHolds == Spec => []SerialInOrder
<1>1. ASSUME SerialInv PROVE SerialInOrder
  <2>1. ASSUME way = "serial",
               \/ \A i \in DOMAIN starts : ~(starts[i] < dropped /\ dropped < EndOf(i))
               \/ \A i \in DOMAIN sent : 170 \notin Range(sent[i][4])
        PROVE  \E first \in 1..Len(sent) + 1, last \in 0..Len(sent) :
                 {i \in DOMAIN starts : starts[i] >= dropped /\ EndOf(i) <= consumed} = first..last
                   /\ received = SubSeq(sent, first, last)
    <3>1. SerialState
      BY <1>1, <2>1 DEF SerialInv
    <3> QED BY <2>1, <3>1, ArriveInOrder
  <2> QED BY <2>1 DEF SerialInOrder, EndOf, NORMAL_PREAMBLE_VALUE
<1>2. Init => Fresh /\ SerialInv
  BY FreshInductive, SerialInductive
<1>3. Fresh /\ SerialInv /\ [Next]_vars => Fresh' /\ SerialInv'
  BY FreshInductive, SerialInductive
<1> QED BY <1>1, <1>2, <1>3, PTL DEF Spec

=============================================================================
