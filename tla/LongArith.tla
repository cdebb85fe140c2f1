------------------------------ MODULE LongArith ------------------------------
(***************************************************************************)
(* Long integers (src/Source/Objects/longobject.c): a sign and digits of     *)
(* SHIFT bits, the lowest first, the last not 0.  A digit is kept in a word  *)
(* that is one bit wider, products in one of 2 * SHIFT + 2 bits; both are    *)
(* unsigned and wrap.  A C function that may fail returns a sequence here,   *)
(* empty after an exception.                                               *)
(***************************************************************************)
EXTENDS IntArith, Sequences, Bitwise

LOCAL INSTANCE SequencesExt
LOCAL INSTANCE FiniteSetsExt

CONSTANT SHIFT

LongAssumption == SHIFT \in Nat \ {0} /\ LONG_BIT \in SHIFT .. 5 * SHIFT

BASE == 2 ^ SHIFT
MASK == BASE - 1
Digit(x) == x % (2 * BASE)
TwoDigits(x) == x % (4 * BASE * BASE)

long_normalize(d) == SubSeq(d, 1, Max({0} \cup {i \in DOMAIN d : d[i] # 0}))
Long(neg, d) == LET n == long_normalize(d) IN [neg |-> neg /\ n # <<>>, d |-> n]
Zero == Long(FALSE, <<>>)
One == Long(FALSE, <<1>>)

Width(a) == Len(a.d)
At(d, i) == IF i \in DOMAIN d THEN d[i] ELSE 0

\* A loop over n digits: Step gives each digit and what it hands on to the next.
Loop(n, Step(_, _)) ==
  LET out[i \in 1 .. n] == Step(i, IF i = 1 THEN 0 ELSE out[i - 1].carry) IN out
Digits(out) == [i \in DOMAIN out |-> out[i].digit]

-----------------------------------------------------------------------------
(* To and from a C long *)

PyLong_FromLong(ival) ==
  LET t == IF ival < 0 THEN Word(-ival) ELSE ival
  IN  Long(ival < 0, [i \in 1 .. 5 |-> (t \div BASE ^ (i - 1)) % BASE])

\* A word that no longer holds what was shifted out of it has overflowed.
PyLong_AsLong(a) ==
  LET Push(x, digit) ==
        IF x = <<>> THEN x
        ELSE LET y == Word(x[1] * BASE + digit)
             IN  IF y \div BASE = x[1] THEN <<y>> ELSE <<>>
      x == FoldRight(LAMBDA digit, y : Push(y, digit), a.d, <<0>>)
  IN  IF x = <<>> \/ (Signed(x[1]) < 0 /\ (~a.neg \/ Word(2 * x[1]) # 0)) THEN <<>>
      ELSE <<Signed(IF a.neg THEN -x[1] ELSE x[1])>>

\* Each digit is added to the hash turned round by SHIFT bits.
long_hash(a) ==
  LET Turn(x) == Word(x * BASE) + x \div 2 ^ (LONG_BIT - SHIFT)
      x == FoldRight(LAMBDA digit, y : Word(Turn(y) + digit), a.d, 0)
      hash == Signed(IF a.neg THEN -x ELSE x)
  IN  IF hash = -1 THEN -2 ELSE hash

-----------------------------------------------------------------------------
(* Comparison and the operations on absolute values *)

Greatest(a, b) == IF a < b THEN b ELSE a
Sign(x) == CASE x < 0 -> -1 [] x = 0 -> 0 [] OTHER -> 1

\* The highest digit where two numbers of one length differ, 0 if there is none.
Differ(d, e) == Max({0} \cup {i \in DOMAIN d : d[i] # e[i]})

ob_size(a) == IF a.neg THEN -Width(a) ELSE Width(a)
long_compare(a, b) ==
  IF ob_size(a) # ob_size(b) THEN Sign(ob_size(a) - ob_size(b))
  ELSE LET i == Differ(a.d, b.d)
           sign == Sign(At(a.d, i) - At(b.d, i))
       IN  IF a.neg THEN -sign ELSE sign

x_add(a, b) ==
  LET Step(i, carry) ==
        LET sum == Digit(carry + At(a.d, i) + At(b.d, i))
        IN  [digit |-> sum % BASE, carry |-> sum \div BASE]
  IN  Long(FALSE, Digits(Loop(Greatest(Width(a), Width(b)) + 1, Step)))

\* The smaller is taken from the larger.
x_sub(a, b) ==
  LET i == IF Width(a) = Width(b) THEN Differ(a.d, b.d) ELSE Greatest(Width(a), Width(b))
      swap == At(a.d, i) < At(b.d, i)
      large == IF swap THEN b.d ELSE a.d
      small == IF swap THEN a.d ELSE b.d
      Step(j, borrow) ==
        LET diff == Digit(large[j] - At(small, j) - borrow)
        IN  [digit |-> diff % BASE, carry |-> (diff \div BASE) % 2]
  IN  Long(swap, Digits(Loop(i, Step)))

muladd1(d, n, extra) ==
  LET Step(i, carry) ==
        LET sum == TwoDigits((IF i = 1 THEN extra ELSE carry) + At(d, i) * n)
        IN  [digit |-> sum % BASE, carry |-> sum \div BASE]
  IN  long_normalize(Digits(Loop(Len(d) + 1, Step)))

\* The digits from the highest on.
divrem1(d, n) ==
  LET m == Len(d)
      Step(i, rem) ==
        LET x == TwoDigits(rem * BASE + d[m + 1 - i])
        IN  [digit |-> x \div n, carry |-> x % n]
      out == Loop(m, Step)
  IN  [div |-> long_normalize(Reverse(Digits(out))),
       rem |-> IF m = 0 THEN 0 ELSE out[m].carry]

-----------------------------------------------------------------------------
(* Division *)

\* The digit k of the quotient is guessed from the first two digits of what is left,
\* and lowered until it fits the first three.
Guess(v, w, k) ==
  LET n == Len(w)
      vj == At(v, k + n + 1)
      first == IF vj = w[n] THEN MASK ELSE (vj * BASE + v[k + n]) \div w[n]
      TooLarge(q) ==
        TwoDigits(w[n - 1] * q)
          > TwoDigits((vj * BASE + v[k + n] - q * w[n]) * BASE + v[k + n - 1])
  IN  Max({q \in 0 .. first : ~TooLarge(q)})

\* The fault of trusting the guess.
NoAddBack(v, w, k, carry) == FALSE
AddBack(v, w, k, carry) == carry # 0

\* Digit q of the quotient, times w, is taken from the accumulator v, and given back
\* once if that was too much; a is the quotient so far.
Subtracted(s, w, k, q) ==
  LET n == Len(w)
      Take(i, carry) ==
        LET z == w[i] * q
            x == carry + s.v[i + k] - (z % BASE)
        IN  [digit |-> x % BASE, carry |-> x \div BASE - z \div BASE]
      taken == Loop(n, Take)
  IN  [v |-> [i \in DOMAIN s.v |-> IF i \in k + 1 .. k + n THEN taken[i - k].digit
                                   ELSE IF i = k + n + 1 THEN 0 ELSE s.v[i]],
       a |-> <<q>> \o s.a,
       carry |-> taken[n].carry + At(s.v, k + n + 1)]

GivenBack(s, w, k) ==
  LET Give(i, c) ==
        LET x == c + s.v[i + k] + w[i] IN [digit |-> x % BASE, carry |-> x \div BASE]
      given == Loop(Len(w), Give)
  IN  [s EXCEPT !.v = [i \in DOMAIN s.v |->
                         IF i \in k + 1 .. k + Len(w) THEN given[i - k].digit ELSE s.v[i]],
                !.a[1] = Digit(@ - 1)]

Corrected(s, w, k) == IF AddBack(s.v, w, k, s.carry) THEN GivenBack(s, w, k) ELSE s

Quotient(v, w) ==
  FoldRight(LAMBDA k, s : Corrected(Subtracted(s, w, k, Guess(s.v, w, k)), w, k),
            [k \in 1 .. Len(v) - Len(w) + 1 |-> k - 1], [v |-> v, a |-> <<>>])

x_divrem(v1, w1) ==
  LET d == BASE \div (Last(w1) + 1)
      Result(s) == [div |-> s.a, rem |-> divrem1(s.v, d).div]
  IN  Result(Quotient(muladd1(v1, d, 0), muladd1(w1, d, 0)))

\* The remainder has the sign of a.
long_divrem(a, b) ==
  LET Result(x) == <<Long(a.neg # b.neg, x.div), Long(a.neg, x.rem)>>
      Single(x) == [x EXCEPT !.rem = <<@>>]
  IN  IF Width(b) = 0 THEN <<>>
      ELSE IF Width(a) < Width(b) \/ (Width(a) = Width(b) /\ Last(a.d) < Last(b.d))
           THEN <<Zero, a>>
      ELSE Result(IF Width(b) = 1 THEN Single(divrem1(a.d, b.d[1])) ELSE x_divrem(a.d, b.d))

-----------------------------------------------------------------------------
(* The operations of the type *)

long_neg(a) == Long(~a.neg, a.d)
long_add(a, b) ==
  CASE a.neg /\ b.neg -> long_neg(x_add(a, b))
    [] a.neg /\ ~b.neg -> x_sub(b, a)
    [] ~a.neg /\ b.neg -> x_sub(a, b)
    [] OTHER -> x_add(a, b)
long_sub(a, b) ==
  CASE a.neg /\ b.neg -> long_neg(x_sub(a, b))
    [] a.neg /\ ~b.neg -> long_neg(x_add(a, b))
    [] ~a.neg /\ b.neg -> x_add(a, b)
    [] OTHER -> x_sub(a, b)

long_mul(a, b) ==
  LET few == IF Width(a) > Width(b) THEN b.d ELSE a.d
      many == IF Width(a) > Width(b) THEN a.d ELSE b.d
      n == Width(a) + Width(b)
      AddRow(z, i) ==
        LET Step(j, carry) ==
              LET sum == TwoDigits(carry + z[j] + (IF j < i THEN 0 ELSE At(many, j - i + 1) * few[i]))
              IN  [digit |-> sum % BASE, carry |-> sum \div BASE]
        IN  Digits(Loop(n, Step))
  IN  Long(a.neg # b.neg, FoldLeft(AddRow, [j \in 1 .. n |-> 0], [i \in DOMAIN few |-> i]))

\* The remainder gets the sign of the divisor.
Floored(x, b) ==
  IF x # <<>> /\ ((x[2].neg /\ ob_size(b) > 0) \/ (ob_size(x[2]) > 0 /\ b.neg))
  THEN <<long_sub(x[1], One), long_add(x[2], b)>>
  ELSE x
l_divmod(a, b) == Floored(long_divrem(a, b), b)

\* c is empty or holds the modulus.
long_pow(a, b, c) ==
  LET Reduced(x) == IF c = <<>> THEN x ELSE l_divmod(x, c[1])[2]
      Bit(i) == (b.d[(i - 1) \div SHIFT + 1] \div 2 ^ ((i - 1) % SHIFT)) % 2
      last == Max({0} \cup {i \in 1 .. SHIFT * Width(b) : Bit(i) = 1})
      Square(s, i) ==
        [z |-> IF Bit(i) = 1 THEN Reduced(long_mul(s.z, s.a)) ELSE s.z,
         a |-> IF i = last THEN s.a ELSE Reduced(long_mul(s.a, s.a))]
      s == FoldLeft(Square, [z |-> One, a |-> a], [i \in 1 .. last |-> i])
  IN  IF b.neg \/ (c # <<>> /\ Width(c[1]) = 0) THEN <<>> ELSE <<Reduced(s.z)>>

long_invert(a) == long_neg(long_add(a, One))

RightShifted(d, words, bits) ==
  [i \in 1 .. Greatest(Len(d) - words, 0) |->
     d[i + words] \div 2 ^ bits + ((At(d, i + words + 1) * 2 ^ (SHIFT - bits)) % BASE)]

long_rshift(a, b) ==
  LET by == PyLong_AsLong(b)
      Shift(d) == Long(FALSE, RightShifted(d, by[1] \div SHIFT, by[1] % SHIFT))
  IN  IF by = <<>> \/ by[1] < 0 THEN <<>>
      ELSE IF a.neg THEN <<long_invert(Shift(long_invert(a).d))>>
      ELSE <<Shift(a.d)>>

\* accum holds the bits that do not fit the digit.
long_lshift(a, b) ==
  LET by == PyLong_AsLong(b)
      words == by[1] \div SHIFT
      bits == by[1] % SHIFT
      Step(i, accum) ==
        LET x == TwoDigits(accum + At(a.d, i) * 2 ^ bits)
        IN  [digit |-> x % BASE, carry |-> x \div BASE]
      out == Digits(Loop(Width(a) + (IF bits = 0 THEN 0 ELSE 1), Step))
  IN  IF by = <<>> \/ by[1] < 0 THEN <<>>
      ELSE <<Long(a.neg, [i \in 1 .. words |-> 0] \o out)>>

-----------------------------------------------------------------------------
(* & | ^ on numbers of unlimited length in two's complement *)

ResultSize(op, maska, maskb, m, n) ==
  IF op # "&" THEN Greatest(m, n)
  ELSE IF maska # 0 THEN n
  ELSE IF maskb # 0 THEN m
  ELSE IF m > n THEN n ELSE m

DigitOp(op, x, y) == CASE op = "&" -> x & y [] op = "|" -> x | y [] OTHER -> x ^^ y

\* A negative number is taken as the complement of its inverse; then the operation is
\* turned into one whose result is not negative.
long_bitwise(a, op, b) ==
  LET x == IF a.neg THEN long_invert(a) ELSE a
      y == IF b.neg THEN long_invert(b) ELSE b
      negz == CASE op = "^" -> a.neg # b.neg
                [] op = "&" -> a.neg /\ b.neg
                [] OTHER -> a.neg \/ b.neg
      used == IF ~negz \/ op = "^" THEN op ELSE IF op = "&" THEN "|" ELSE "&"
      maska == IF a.neg # negz THEN MASK ELSE 0
      maskb == IF b.neg # (negz /\ op # "^") THEN MASK ELSE 0
      z == Long(FALSE, [i \in 1 .. ResultSize(used, maska, maskb, Width(x), Width(y)) |->
                          DigitOp(used, At(x.d, i) ^^ maska, At(y.d, i) ^^ maskb)])
  IN  IF negz THEN long_invert(z) ELSE z
=============================================================================
