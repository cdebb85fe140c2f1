------------------------------ MODULE IntArith ------------------------------
(***************************************************************************)
(* Arithmetic of plain integers (src/Source/Objects/intobject.c): C longs    *)
(* of LONG_BIT bits in two's complement, whose operations wrap, and the      *)
(* tests that find that they did.  A function that may fail returns a        *)
(* sequence, empty after an exception.                                     *)
(***************************************************************************)
EXTENDS Integers, Sequences

CONSTANT LONG_BIT     \* the bits of a C long

Words == 2 ^ LONG_BIT
HALF == 2 ^ (LONG_BIT \div 2)

\* Two halves make a word, and a half has two bits or more.  The powers are spelt out
\* for the provers, which know nothing of ^.
ASSUME IntAssumption ==
  /\ LONG_BIT \in Nat /\ LONG_BIT >= 4 /\ LONG_BIT % 2 = 0
  /\ HALF \in Nat /\ HALF >= 4 /\ HALF = 2 * (HALF \div 2)
  /\ Words = HALF * HALF

Word(x) == x % Words
Signed(x) == IF 2 * Word(x) < Words THEN Word(x) ELSE Word(x) - Words
Most == Words \div 2 - 1
Least == -Most - 1

\* / and % of C, of which the first is cut off.
Cut(x, y) ==
  LET q == (IF x < 0 THEN -x ELSE x) \div (IF y < 0 THEN -y ELSE y)
  IN  Signed(IF (x < 0) # (y < 0) THEN -q ELSE q)
Rest(x, y) == Signed(x - Cut(x, y) * y)

\* The sign of x ^ y.
Unlike(x, y) == (x < 0) # (y < 0)

int_add(a, b) ==
  LET x == Signed(a + b) IN IF Unlike(x, a) /\ Unlike(x, b) THEN <<>> ELSE <<x>>

int_sub(a, b) ==
  LET x == Signed(a - b) IN IF Unlike(x, a) /\ ~Unlike(x, b) THEN <<>> ELSE <<x>>

int_neg(a) == LET x == Signed(-a) IN IF a < 0 /\ x < 0 THEN <<>> ELSE <<x>>

-----------------------------------------------------------------------------
(* Multiplication by halves of words *)

High(a) == a \div HALF

\* The product, if it is not negative.
Product(a, b) == LET x == Signed(a * b) IN IF x < 0 THEN <<>> ELSE <<x>>

\* The fault of a limit for the upper product that leaves no room for the sign.
HighLimit == HALF
HighFits == HALF \div 2

\* a >= b >= 0, and the upper half of b is 0.
LongTimesShort(a, b) ==
  LET y == Signed(High(a) * b)
      x == Product(a % HALF, b)
  IN  IF y >= HighFits \/ x = <<>> THEN <<>>
      ELSE LET z == Signed(x[1] + y * HALF) IN IF z < 0 THEN <<>> ELSE <<z>>

int_mul(a, b) ==
  LET m == Signed(IF a < 0 THEN -a ELSE a)
      n == Signed(IF b < 0 THEN -b ELSE b)
      negative == (a < 0) # (b < 0)
      x == IF High(m) = 0 /\ High(n) = 0 THEN Product(m, n)
           ELSE IF m < n THEN LongTimesShort(n, m) ELSE LongTimesShort(m, n)
  IN  IF High(a) = 0 /\ High(b) = 0 THEN Product(a, b)
      ELSE IF m < 0 THEN IF b \in {0, 1} THEN <<Signed(a * b)>> ELSE <<>>
      ELSE IF n < 0 THEN IF m = 0 \/ (m = 1 /\ a = 1) THEN <<Signed(m * n)>> ELSE <<>>
      ELSE IF (High(m) # 0 /\ High(n) # 0) \/ x = <<>> THEN <<>>
      ELSE <<Signed(IF negative THEN -x[1] ELSE x[1])>>

-----------------------------------------------------------------------------
(* Division *)

\* Quotient and remainder, from the division of absolute values.
i_divmod(x, y) ==
  LET m == IF x < 0 THEN Signed(-x) ELSE x
      n == IF y < 0 THEN Signed(-y) ELSE y
      div == IF (x < 0) # (y < 0) THEN Signed(-Cut(m, n)) ELSE Cut(m, n)
      mod == Signed(x - div * y)
  IN  IF y = 0 \/ (x < 0 /\ y = -1 /\ m < 0) THEN <<>>
      ELSE IF (mod < 0 /\ y > 0) \/ (mod > 0 /\ y < 0)
           THEN <<Signed(div - 1), Signed(mod + y)>>
           ELSE <<div, mod>>

-----------------------------------------------------------------------------
(* What the operations are to compute: the exact result, or nothing where it does *)
(* not fit.  A product of absolute values does not reach the least integer.  The  *)
(* division of the least integer is left out: its absolute value wraps, and      *)
(* -128 / 3 gives 42 in a C long of 8 bits.                                     *)

Fits(x) == x \in Least .. Most
Exactly(x) == IF Fits(x) THEN <<x>> ELSE <<>>

Floor(x, y) == IF y < 0 THEN (-x) \div (-y) ELSE x \div y
Modulo(x, y) == x - y * Floor(x, y)

SumsAreExact(a, b) ==
  int_add(a, b) = Exactly(a + b) /\ int_sub(a, b) = Exactly(a - b) /\ int_neg(a) = Exactly(-a)
ProductsAreExact(a, b) ==
  int_mul(a, b) = IF a * b = Least /\ 1 \notin {a, b} THEN <<>> ELSE Exactly(a * b)
QuotientsAreExact(a, b) ==
  a # Least => i_divmod(a, b) = IF b = 0 THEN <<>> ELSE <<Floor(a, b), Modulo(a, b)>>
=============================================================================
