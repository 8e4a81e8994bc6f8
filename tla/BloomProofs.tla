---------------------------- MODULE BloomProofs ----------------------------
(* What a Bloom filter promises, for every width of a hash, every rotation *)
(* and every sequence of hashes.                                           *)
EXTENDS Bloom, TLAPS

\* The length of the filter for n hashes, in bits: whole bytes.
FilterLength(n) == ((FilterBits(n) + 7) \div 8) * 8

\* A filter has at least 64 bits, so that the remainder by its length exists.
LEMMA FilterLengthPositive ==
    ASSUME NEW n \in Nat
    PROVE  FilterLength(n) \in Nat /\ FilterLength(n) >= 64
BY DEF FilterLength, FilterBits, BitsPerKey

(***************************************************************************)
(* A filter never denies a hash it was built from, as long as its length   *)
(* in bits fits a hash: the lookup cuts the length to that width, the      *)
(* construction does not (Bloom::build_from_key_hashes, may_contain).      *)
(***************************************************************************)
THEOREM NoFalseNegatives ==
    ASSUME NEW hashes \in Seq(HashRange), NEW j \in 1..Len(hashes),
           FilterLength(Len(hashes)) < 2^HashBits
    PROVE  MayContain(BuildFilter(hashes), hashes[j])
<1> DEFINE k     == Clamp((BitsPerKey * 69) \div 100, 1, 30)
           nbits == FilterLength(Len(hashes))
           h     == hashes[j]
<1>1. nbits \in Nat /\ nbits >= 64
  BY FilterLengthPositive
<1>2. nbits % 2^HashBits = nbits
  <2>1. 2^HashBits \in Int /\ 2^HashBits > nbits
    BY <1>1, BloomAssumption
  <2> HIDE DEF nbits
  <2> QED BY <1>1, <2>1
<1>3. \A i \in 0..k - 1 : Probe(h, i) % nbits \in BuildBits(hashes, k, nbits)
  BY DEF BuildBits
<1>4. BuildFilter(hashes) = [bits |-> BuildBits(hashes, k, nbits), nbits |-> nbits, k |-> k]
  BY DEF BuildFilter, FilterLength
<1> HIDE DEF k, nbits
<1> QED BY <1>2, <1>3, <1>4 DEF MayContain
=============================================================================
