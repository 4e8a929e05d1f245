------------------------------- MODULE MCWire -------------------------------
(* An instance of Wire: values at the boundaries of every field of every    *)
(* message, one field at a time.                                            *)
EXTENDS Wire

Repeated(value, n) == [i \in 1..n |-> value]

Texts == << <<>>, << <<104>>, <<195, 169>>, <<240, 159, 146, 169>> >>,
            Repeated(<<227, 129, 130>>, 85) >>

(* The elements of a set, in some order.                                   *)
Listed(S) == FoldSet(LAMBDA x, list : Append(list, x), <<>>, S)

Mapped(list, Op(_)) == FoldLeft(LAMBDA mapped, x : Append(mapped, Op(x)), <<>>, list)

UintSamples == <<<<0, 255>>, <<258, 65535>>, <<>>, <<16909060, 2147483647>>>>

RECURSIVE Samples(_)

(* All parts at their first sample, and each part in turn at the others.    *)
TupleSamples(parts) ==
  FoldLeft(
    LAMBDA tuples, part :
      LET samples == Samples(part)
          first == samples[1]
          old == Mapped(tuples, LAMBDA tuple : Append(tuple, first))
          new == Mapped(Tail(samples), LAMBDA sample : Append(tuples[1], sample))
      IN  old \o new,
    << <<>> >>, parts)

VariantSamples(of) ==
  FoldSet(LAMBDA index, list : list \o Mapped(Samples(of[index]), LAMBDA value : <<index, value>>),
          <<>>, DOMAIN of)

VectorSamples(samples) == << <<>>, samples, Repeated(samples[1], 255) >>

Samples(serdeable) ==
  LET form == serdeable.form
  IN  CASE form.is = "uint" -> UintSamples[form.width]
        [] form.is = "bool" -> <<FALSE, TRUE>>
        [] form.is = "fixed" -> <<Repeated(7, form.length)>>
        [] form.is = "remaining" -> << <<>>, <<1, 170>> >>
        [] form.is = "constant" -> << <<>> >>
        [] form.is = "enum" -> Listed(serdeable.values)
        [] form.is = "flags" -> <<0, form.all>>
        [] form.is = "optional" -> << <<>> >> \o Mapped(Samples(form.of), LAMBDA x : <<x>>)
        [] form.is = "vector" -> VectorSamples(Samples(form.of))
        [] form.is = "variable" -> << <<>>, Repeated(7, 255) >>
        [] form.is = "text" -> Texts
        [] form.is = "tuple" -> TupleSamples(form.parts)
        [] form.is = "variant" -> VariantSamples(form.of)

MCMessages ==
  FoldSet(LAMBDA kind, list :
            list \o Mapped(Samples(Kinds[kind].writer), LAMBDA value : [kind |-> kind, value |-> value]),
          <<>>, DOMAIN Kinds)

Serial(n) == <<1, <<n>>>>
Udp(n) == <<3, <<10, 0, 0, n, 136, 19>>>>
Nobody == <<Broadcast, <<>>>>

MCStreams ==
  FlattenSeq([i \in 1..2 |-> [j \in 1..3 |->
    [source |-> <<<<Serial(1), Udp(1)>>[i], 0>>,
     destination |-> << <<Serial(2), 0>>, <<Udp(2), 3>>, <<Nobody, 3>> >>[j],
     length |-> StreamMaxPayload(<<<<Serial(1), Udp(1)>>[i], 0>>,
                                 << <<Serial(2), 0>>, <<Udp(2), 3>>, <<Nobody, 3>> >>[j]),
     byte |-> 255]]]) \o
  << [source |-> <<Serial(1), 0>>, destination |-> <<Serial(2), 0>>, length |-> 1, byte |-> 170],
     [source |-> <<Serial(1), 0>>, destination |-> <<Serial(2), 0>>, length |-> 0, byte |-> 0],
     \* The words of this one add up to 67 * 65536 + 65479: folding the 67 in carries again.
     [source |-> <<Serial(1), 0>>, destination |-> <<Serial(5), 0>>, length |-> 135, byte |-> 255] >>

MCSource0 == <<Udp(9), 0>>
MCDestination0 == <<Udp(8), 0>>

Link(n) == <<2, <<Udp(n), Udp(n + 1), 5>>>>
Node(n) == <<1, <<Udp(n), <<3>>, <<>>>>>>
Received == <<4, <<Serial(1)>>>>

MCUpdates == << [i \in 1..30 |-> Link(i)], [i \in 1..30 |-> Node(i)],
                [i \in 1..130 |-> IF i = 5 THEN Link(1) ELSE Received] >>

MCSerialFrames ==
  {<<1, 1, 2, <<>>>>, <<5, 1, 2, <<9>>>>, <<2, 1, 2, <<170, 171>>>>}
=============================================================================
