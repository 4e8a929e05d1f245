------------------------------ MODULE Checksum ------------------------------
(***************************************************************************)
(* The checksum of trusted frames (trusted/checksum.ts): bytes make words, *)
(* the low byte first, words are added up, and the carries of the sum are  *)
(* folded into its low sixteen bits once.                                  *)
(***************************************************************************)
EXTENDS Integers, SequencesExt

Word == 65536

(* WordAccumulator, with the padding of a last odd byte.                    *)
Words(bytes) ==
  [i \in 1..((Len(bytes) + 1) \div 2) |->
    bytes[2 * i - 1] + IF 2 * i <= Len(bytes) THEN 256 * bytes[2 * i] ELSE 0]

WordSum(bytes) == FoldLeft(+, 0, Words(bytes))

(* sumBits + overflowCount.                                                 *)
Folded(sum) == (sum % Word) + (sum \div Word)

ChecksumOf(sum) == Word - 1 - (Folded(sum) % Word)
Verify(sum) == (Folded(sum) % Word) = Word - 1

ChecksumOfBytes(bytes) == ChecksumOf(WordSum(bytes))
VerifyBytes(bytes) == Verify(WordSum(bytes))
=============================================================================
