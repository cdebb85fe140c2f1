---------------------------- MODULE DictArith ----------------------------
(***************************************************************************)
(* The arithmetic of lookdict (Source/Objects/dictobject.c): the slots that *)
(* the search for a key visits, by cycling through GF(2^n)-{0}.  A hash is  *)
(* an unsigned word, as the masks and shifts of the code see it.            *)
(***************************************************************************)
EXTENDS Integers, Sequences, Bitwise

MINBITS == 2

\* The low parts of polys[0], polys[1], ...: the polynomials without the leading power.
polyLow == <<3, 3, 3, 5, 3, 3, 29, 17, 9, 5, 83, 27, 43, 3, 45>>

TableSize(b) == 2^b
Mask(b) == TableSize(b) - 1
Poly(b) == TableSize(b) + polyLow[b - MINBITS + 1]

\* i = (~hash) & mask
Start(h, b) == Mask(b) - (h % TableSize(b))

\* incr = (hash ^ (hash >> 3)) & mask, and mask instead of 0.
FirstIncr(h, b) ==
  LET x == (h ^^ (h \div 8)) % TableSize(b) IN IF x = 0 THEN Mask(b) ELSE x

\* The fault of dropping the highest bit without adding the polynomial.
IncrShifted(x, b) == (2 * x) % TableSize(b)
\* incr << 1, reduced by the polynomial.
NextIncr(x, b) == IF 2 * x > Mask(b) THEN (2 * x) ^^ Poly(b) ELSE 2 * x

Slot(s, x, b) == (s + x) % TableSize(b)

\* The slots in the order of the search, the start first.
ProbeOrder(h, b) ==
  LET incrs[j \in 2..TableSize(b)] ==
        IF j = 2 THEN FirstIncr(h, b) ELSE NextIncr(incrs[j-1], b)
  IN  [j \in 1..TableSize(b) |->
         IF j = 1 THEN Start(h, b) ELSE Slot(Start(h, b), incrs[j], b)]
=============================================================================
