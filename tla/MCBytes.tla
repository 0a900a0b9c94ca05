------------------------------ MODULE MCBytes -------------------------------
(***************************************************************************)
(* BufferBytes for TLC, with bytes of 3 bits and words of 12, so that      *)
(* sizes of 4 bytes and more need two groups and every word can be tried.  *)
(***************************************************************************)
EXTENDS BufferBytes

VARIABLE word    \* a word that unit-tests/coding_test.cpp could draw

MCKeys == {<<2>>, <<2, 5>>, <<3, 0, 7, 7, 1>>}
MCValues == {<<>>, <<4>>, <<7, 0, 7, 1, 7>>}
MCFirstKey == <<1, 1, 1, 1, 1>>
MCNodeSize == <<4, 8>>

MCInit == Init /\ word \in 0 .. WordSize - 1
MCNext == word = 0 /\ Next /\ UNCHANGED word
MCSpec == MCInit /\ [][MCNext]_<<bufferVars, word>>

Long == word * WordSize + (WordSize - 1 - word)

(* Decoding inverts encoding, whatever bytes follow, and VarintLength is   *)
(* the length that EncodeVarint32 writes; a varint that is cut short is    *)
(* refused.  The 64-bit forms agree with the 32-bit ones on every word.    *)
CodingInverse ==
    LET code == EncodeVarint32(word)
        long == EncodeVarint64(Long)
    IN /\ Len(code) = VarintLength(word) /\ code = EncodeVarint64(word)
       /\ \A rest \in {<<>>, <<0>>, <<2 * B - 1>>} :
            GetVarint32(code \o rest, 0, VarintBytes) = [length |-> Len(code), value |-> word]
       /\ \A n \in 0 .. Len(code) - 1 : GetVarint32(code, 0, n).length = -1
       /\ GetVarint64(long, 0, 2 * VarintBytes) = [length |-> Len(long), value |-> Long]
       /\ GetFixed32(EncodeFixed32(word), 0) = word
       /\ GetFixed(EncodeFixed(Long, 2 * FixedBytes), 0, 2 * FixedBytes) = Long
=============================================================================
