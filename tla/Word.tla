------------------------------- MODULE Word -------------------------------
(* The integers of the simulated machine: words of W bits (the code has 32)   *)
(* of four bytes, kept as naturals.  Fields of a word scale with W.           *)
EXTENDS Integers, Bitwise

CONSTANT W

Word == 0 .. 2^W - 1
ByteBits == W \div 4
HalfBits == W \div 2

AsWord(n) == n % 2^W
Negative(x) == x >= 2^(W - 1)           \* x & SIGN_BIT
Signed(x) == IF Negative(x) THEN x - 2^W ELSE x
Complement(x) == 2^W - 1 - x
Minus(x) == AsWord(-x)
Low(x, bits) == x % 2^bits              \* a mask of the low bits

(* The bit at the top of the low bits is copied upwards.                      *)
Extended(x, bits) == AsWord(IF Low(x, bits) < 2^(bits - 1) THEN Low(x, bits) ELSE Low(x, bits) - 2^bits)

(* C's shifts of an int and of an unsigned.                                   *)
Left(x, n) == AsWord(x * 2^n)
Right(x, n) == AsWord(Signed(x) \div 2^n)
RightUnsigned(x, n) == x \div 2^n

(* C's division rounds towards zero.                                          *)
Abs(n) == IF n < 0 THEN -n ELSE n
Quotient(a, b) == IF (a < 0) = (b < 0) THEN Abs(a) \div Abs(b) ELSE -(Abs(a) \div Abs(b))
Remainder(a, b) == a - b * Quotient(a, b)
=============================================================================
