------------------------------ MODULE IntPower ------------------------------
(***************************************************************************)
(* Powers of plain integers (int_pow of src/Source/Objects/intobject.c).     *)
(***************************************************************************)
EXTENDS IntArith

\* A product that does not divide back has overflowed.
Times(x, y) ==
  LET z == Signed(x * y) IN IF y # 0 /\ Cut(z, y) # x THEN <<>> ELSE <<z>>

\* iz is 0 without a modulus.
RECURSIVE PowerLoop(_, _, _, _)
PowerLoop(ix, temp, iw, iz) ==
  LET x == IF iw % 2 = 1 THEN Times(ix, temp) ELSE <<ix>>
      square == Times(temp, temp)
      Mod(y) == IF iz = 0 THEN y ELSE Rest(y, iz)
  IN  IF iw = 0 THEN <<ix>>
      ELSE IF x = <<>> THEN <<>>
      ELSE IF temp = 0 /\ iw % 2 = 1 THEN <<0>>
      ELSE IF iw \div 2 = 0 THEN x
      ELSE IF square = <<>> THEN <<>>
      ELSE PowerLoop(Mod(x[1]), Mod(square[1]), iw \div 2, iz)

\* z is empty or holds the modulus.
int_pow(v, w, z) ==
  LET x == PowerLoop(1, v, w, IF z = <<>> THEN 0 ELSE z[1])
  IN  IF w < 0 \/ z = <<0>> \/ x = <<>> THEN <<>>
      ELSE IF z = <<>> THEN x
      ELSE LET y == i_divmod(x[1], z[1]) IN IF y = <<>> THEN <<>> ELSE <<y[2]>>
=============================================================================
