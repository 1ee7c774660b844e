-------------------------------- MODULE Crc32 --------------------------------
(***************************************************************************)
(* The checksum of the game file (core/crc32.hpp), by table as the program *)
(* computes it and by polynomial division as it is defined.                *)
(*                                                                         *)
(* A word of 32 bits, and a byte, is the set of the places of its ones.    *)
(***************************************************************************)
EXTENDS Integers, Sequences, SequencesExt

Byte == 0..7
Word == 0..31
Ones(w) == Word \ w
Xor(v, w) == (v \ w) \cup (w \ v)
ShiftRight(w, n) == {k - n : k \in {place \in w : place >= n}}

\* 0xEDB88320
Polynomial == {5, 8, 9, 15, 19, 20, 21, 23, 24, 26, 27, 29, 30, 31}

\* generate_crc_table
Step(w) == IF 0 \in w THEN Xor(ShiftRight(w, 1), Polynomial) ELSE ShiftRight(w, 1)
CrcTable == [b \in SUBSET Byte |-> FoldLeft(LAMBDA w, j : Step(w), b, [j \in 1..8 |-> j])]

InitialCrc32 == Word
IncrementalCrc32(crc, bytes) ==
    FoldLeft(LAMBDA w, c : Xor(ShiftRight(w, 8), CrcTable[Xor(w \cap Byte, c)]), crc, bytes)
FinalizeCrc32(crc) == Ones(crc)
CalculateCrc32(bytes) == FinalizeCrc32(IncrementalCrc32(InitialCrc32, bytes))

-----------------------------------------------------------------------------
(* The definition: a text is a polynomial, its first bit the coefficient   *)
(* of the highest power and its first 32 bits inverted; the checksum is    *)
(* the inverted remainder of its product with x^32, read from the highest  *)
(* power down, by x^32 + x^26 + ... + 1.                                   *)

Generator == {31 - k : k \in Polynomial} \cup {32}
Powers(bytes) == UNION {{32 + 8 * (Len(bytes) - i) + 7 - bit : bit \in bytes[i]} : i \in DOMAIN bytes}
Reduce(powers, top) ==
    IF top \in powers THEN Xor(powers, {top - 32 + k : k \in Generator}) ELSE powers
Checksum(bytes) ==
    LET n == 8 * Len(bytes)
        inverted == Xor(Powers(bytes), (n..(n + 31)))
        rest == FoldLeft(Reduce, inverted, [i \in 1..n |-> n + 32 - i])
    IN Ones({31 - k : k \in rest})
=============================================================================
