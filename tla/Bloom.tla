------------------------------- MODULE Bloom -------------------------------
(***************************************************************************)
(* The Bloom filter of an SST.  A filter is the set of the bits that are   *)
(* set, its length in bits, and the number of probes for each key hash.    *)
(***************************************************************************)
EXTENDS Integers, Sequences

CONSTANTS
    HashBits,       \* width of a key hash: 32
    RotateBits      \* the rotation that gives the step between probes: 15

ASSUME BloomAssumption ==
    /\ HashBits \in Nat \ {0}
    /\ RotateBits \in 0..HashBits

HashRange == 0..2^HashBits - 1

\* u32::rotate_left.
Rotate(h) == ((h * 2^RotateBits) % 2^HashBits) + (h \div 2^(HashBits - RotateBits))

\* The i-th probe: h after i wrapping additions of delta.
Probe(h, i) == (h + i * Rotate(h)) % 2^HashBits

\* Bloom::bloom_bits_per_key at the rate 0.01, whatever the number of entries.
BitsPerKey == 10

Clamp(n, low, high) == IF n < low THEN low ELSE IF n > high THEN high ELSE n

\* Mutated form: one probe less than may_contain makes.
BuildBitsOneProbeShort(hashes, k, nbits) ==
    {Probe(hashes[j], i) % nbits : j \in 1..Len(hashes), i \in 1..k - 1}

BuildBits(hashes, k, nbits) ==
    {Probe(hashes[j], i) % nbits : j \in 1..Len(hashes), i \in 0..k - 1}

\* A filter has 64 bits at least.
FilterBits(n) == IF n * BitsPerKey < 64 THEN 64 ELSE n * BitsPerKey

BuildFilter(hashes) ==
    LET k     == Clamp((BitsPerKey * 69) \div 100, 1, 30)
        nbits == ((FilterBits(Len(hashes)) + 7) \div 8) * 8
    IN  [bits |-> BuildBits(hashes, k, nbits), nbits |-> nbits, k |-> k]

\* The length is cut to the width of a hash.
MayContain(filter, h) ==
    \/ filter.k > 30
    \/ \A i \in 0..filter.k - 1 :
          Probe(h, i) % (filter.nbits % 2^HashBits) \in filter.bits

=============================================================================
