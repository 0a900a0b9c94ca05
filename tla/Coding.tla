------------------------------- MODULE Coding -------------------------------
(***************************************************************************)
(* The integer encodings of util/coding.cpp, on the little-endian path     *)
(* (kLittleEndian) that x86 takes.                                         *)
(*                                                                         *)
(* The widths are constants: the code has groups of 7 bits in bytes of 8,  *)
(* words of 4 bytes and at most 5 groups to a word.  A buffer is a         *)
(* sequence of bytes, a pointer into it a position that counts from 0.     *)
(***************************************************************************)
EXTENDS Integers, Sequences, FiniteSetsExt

CONSTANTS
    GroupBits,     \* payload bits of a varint byte: 7
    FixedBytes,    \* sizeof(uint32_t): 4
    VarintBytes    \* the longest varint of a uint32_t: 5

B == 2 ^ GroupBits
Byte == 0 .. 2 * B - 1
WordSize == (2 * B) ^ FixedBytes     \* 2^32

ASSUME WidthAssumption ==
    /\ GroupBits \in Nat \ {0} /\ FixedBytes \in Nat \ {0} /\ VarintBytes \in Nat \ {0}
    /\ B \in Nat /\ B > 1
    /\ B ^ (VarintBytes - 1) < WordSize /\ WordSize <= B ^ VarintBytes

VarintLength(v) ==
    LET len[w \in Nat] == IF w >= B THEN 1 + len[w \div B] ELSE 1
    IN len[v]

\* Faulty variant: the first threshold includes the last one-byte value.
ThresholdsOffByOne(v) == {n \in 1 .. VarintBytes - 1 : v >= B ^ n - 1}

(* The comparisons with 1<<7, 1<<14... that v reaches.                     *)
Thresholds(v) == {n \in 1 .. VarintBytes - 1 : v >= B ^ n}

EncodeVarint32(v) ==
    LET more == Cardinality(Thresholds(v))
    IN [i \in 1 .. more + 1 |-> ((v \div B ^ (i - 1)) % B) + (IF i <= more THEN B ELSE 0)]

EncodeVarint64(v) ==
    LET put[w \in Nat] == IF w >= B THEN <<(w % B) + B>> \o put[w \div B] ELSE <<w>>
    IN put[v]

(* GetVarint32Ptr and GetVarint64Ptr: the bytes up to the first without a  *)
(* continuation bit, of which there may be no more than groups or size.    *)
GetVarint(bytes, p, size, groups, wordSize) ==
    LET ends == {i \in 1 .. size : i <= groups /\ p + i <= Len(bytes) /\ bytes[p + i] < B}
        n == Min(ends)
    IN IF ends = {}
         THEN [length |-> -1, value |-> 0]
         ELSE [length |-> n,
               value |-> MapThenSumSet(LAMBDA i : (bytes[p + i] % B) * B ^ (i - 1), 1 .. n)
                           % wordSize]

GetVarint32(bytes, p, size) == GetVarint(bytes, p, size, VarintBytes, WordSize)
GetVarint64(bytes, p, size) == GetVarint(bytes, p, size, 2 * VarintBytes, WordSize * WordSize)

ByteOf(v, i) == (v \div (2 * B) ^ (i - 1)) % (2 * B)

(* EncodeFixed32 and EncodeFixed64 for n = FixedBytes and 2 * FixedBytes.  *)
EncodeFixed(v, n) == [i \in 1 .. n |-> ByteOf(v, i)]
GetFixed(bytes, p, n) == MapThenSumSet(LAMBDA i : bytes[p + i] * (2 * B) ^ (i - 1), 1 .. n)

EncodeFixed32(v) == EncodeFixed(v, FixedBytes)
GetFixed32(bytes, p) == GetFixed(bytes, p, FixedBytes)
=============================================================================
