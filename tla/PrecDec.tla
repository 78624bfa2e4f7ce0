-------------------------------- MODULE PrecDec --------------------------------
(***************************************************************************)
(* utils/math/prec_dec.go: decimals as integers in units of 1/Precision    *)
(* (10^-27 in the code).  Mul and Quo round half to even, QuoInt cuts off. *)
(* Only non-negative decimals are multiplied or divided.                   *)
(***************************************************************************)
EXTENDS Integers

CONSTANT Precision      \* units of one: an even number, as 10^27 is

ASSUME PrecisionAssumption == Precision \in Nat /\ Precision >= 2 /\ Precision % 2 = 0

One == Precision

\* chopPrecisionAndRound: x / Precision, ties to the even neighbour
ChopRound(x) ==
    LET quo == x \div Precision
        rem == x % Precision
    IN  IF rem * 2 < Precision \/ (rem * 2 = Precision /\ quo % 2 = 0) THEN quo ELSE quo + 1

Dec(n) == n * Precision
Mul(x, y) == ChopRound(x * y)
Quo(x, y) == ChopRound((x * Precision * Precision) \div y)
MulInt(x, n) == x * n
QuoInt(x, n) == x \div n
TruncateInt(x) == x \div Precision
CeilInt(x) == (x + Precision - 1) \div Precision

MinDec(x, y) == IF x <= y THEN x ELSE y
MaxDec(x, y) == IF x >= y THEN x ELSE y

=============================================================================
