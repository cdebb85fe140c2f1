----------------------------- MODULE MC_Pieces -----------------------------
(* Small instances of the machines. *)
EXTENDS Pieces, TLC

\* Slices of three and more have three pivots; the generator moves an item far or not.
MCSampleBits == [n \in 0 .. 7 |-> IF n < 3 THEN 1 ELSE 2]

\* All of a C long of 8 bits, and numbers of up to four digits of 3 bits.
Long == {x \in -4095 .. 4095 : x % 241 \in {0, 1} \/ x \in {-513, -512, -511, 511, 512, 513}}
MCLeft == (-128 .. 127) \cup Long
MCRight ==
  (-12 .. 12) \cup {x \in -128 .. 127 : x % 11 = 7}
    \cup {-128, -127, -65, -64, -63, 63, 64, 65, 127, 128} \cup Long
MCModuli == {-7, 0, 3, 30}

MCTexts == UNION {[1 .. n -> Bytes] : n \in 0 .. 5}

\* Up to two references of each object, the first to the next one; the first of all
\* has one.
Refs(o) == {<<>>, <<o + 1>>} \cup {<<o + 1, p>> : p \in o + 1 .. Number}
MCGraphs ==
  {<<e, b, c, d, <<>>>> : e \in {<<2>>, <<2, 3>>, <<2, 4>>}, b \in Refs(2), c \in Refs(3),
                          d \in Refs(4)}

\* Hashes that differ in the start, in the first increment, and with increment 0.
MCHashes == {0, 1, 5, 8, 9, 1000, 65535, 1000003}
=============================================================================
