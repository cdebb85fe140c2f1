----------------------------- MODULE Arithmetic -----------------------------
(***************************************************************************)
(* What the operations on plain and long integers compute, compared with the *)
(* integers.  The variable st holds the two operands.                      *)
(***************************************************************************)
EXTENDS LongArith, IntPower

CONSTANTS
  Left, Right,   \* the operands
  Moduli         \* of pow

VARIABLE st

Init == \E a \in Left : st = [machine |-> "numbers", a |-> a, b |-> 0]

\* The next question.
Next == st.machine = "numbers" /\ st.b = 0 /\ \E b \in Right : st' = [st EXCEPT !.b = b]

-----------------------------------------------------------------------------
(* The reference *)

Abs(x) == IF x < 0 THEN -x ELSE x
Power(x, n) == IF n = 0 THEN 1 ELSE x ^ n

\* The long integer of x, of which there is one.
Bits == 5 * SHIFT
OfInt(x) == Long(x < 0, [i \in 1 .. 5 |-> (Abs(x) \div BASE ^ (i - 1)) % BASE])

\* Two's complement with more bits than any operand has.
BitsOf(x) == x % 2 ^ Bits
OfBits(n) == IF 2 * n < 2 ^ Bits THEN n ELSE n - 2 ^ Bits

-----------------------------------------------------------------------------
(* Properties *)

DivisionIsExact(a, b, x, y) ==
  l_divmod(x, y) = IF b = 0 THEN <<>> ELSE <<OfInt(Floor(a, b)), OfInt(Modulo(a, b))>>

ShiftsAreExact(a, b, x, y) ==
  b \in 0 .. Bits =>
    /\ Abs(a) < 2 ^ LONG_BIT /\ b < LONG_BIT => long_lshift(x, y) = <<OfInt(a * 2 ^ b)>>
    /\ long_rshift(x, y) = <<OfInt(a \div 2 ^ b)>>

BitwiseIsExact(a, b, x, y) ==
  \A op \in {"&", "|", "^"} :
    long_bitwise(x, op, y) = OfInt(OfBits(DigitOp(op, BitsOf(a), BitsOf(b))))

Small(a, b) == b \in 0 .. 3 \/ (b \in 4 .. 12 /\ Abs(a) <= 3)

PowersAreExact(a, b, x, y) ==
  Small(a, b) /\ Abs(a) <= Most =>
    /\ Abs(Power(a, b)) < 2 ^ Bits => long_pow(x, y, <<>>) = <<OfInt(Power(a, b))>>
    /\ \A m \in Moduli :
         long_pow(x, y, <<OfInt(m)>>) = IF m = 0 THEN <<>> ELSE <<OfInt(Modulo(Power(a, b), m))>>

\* Long integers are the integers, whatever the number of their digits: every result
\* is the exact one and in the one form that equal numbers have.  A long that fits a
\* C long converts to it and has the hash of the plain integer it equals.
LongsAreIntegers ==
  st.machine = "numbers" =>
    LET a == st.a  b == st.b  x == OfInt(a)  y == OfInt(b)
    IN  /\ long_add(x, y) = OfInt(a + b) /\ long_sub(x, y) = OfInt(a - b)
        /\ Abs(a * b) < 2 ^ Bits => long_mul(x, y) = OfInt(a * b)
        /\ DivisionIsExact(a, b, x, y) /\ PowersAreExact(a, b, x, y)
        /\ ShiftsAreExact(a, b, x, y) /\ BitwiseIsExact(a, b, x, y)
        /\ long_invert(x) = OfInt(-a - 1)
        /\ long_compare(x, y) = Sign(a - b)
        /\ PyLong_AsLong(x) = Exactly(a)
        /\ Fits(a) => PyLong_FromLong(a) = x /\ long_hash(x) = IF a = -1 THEN -2 ELSE a

\* Plain integers: the result is the exact one, or OverflowError, and that only if
\* the exact one does not fit (IntArith); pow with a modulus may give up where only a
\* product on the way does not fit.
IntsAreExact ==
  st.machine = "numbers" /\ Fits(st.a) /\ Fits(st.b) =>
    LET a == st.a  b == st.b
    IN  /\ SumsAreExact(a, b) /\ ProductsAreExact(a, b) /\ QuotientsAreExact(a, b)
        /\ Small(a, b) => int_pow(a, b, <<>>) = Exactly(Power(a, b))
        /\ Small(a, b) /\ Power(a, b) # Least =>
             \A m \in Moduli \ {0} :
               int_pow(a, b, <<m>>) \in {<<>>, <<Modulo(Power(a, b), m)>>}
=============================================================================
