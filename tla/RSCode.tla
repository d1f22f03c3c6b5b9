-------------------------------- MODULE RSCode --------------------------------
(***************************************************************************)
(* The arithmetic of the Reed-Solomon code: the field of 256 elements that *)
(* the galois library implements, the coding matrix, and determinants as a *)
(* reference for what elimination may invert.                              *)
(***************************************************************************)
EXTENDS Integers, Functions, Bitwise, TLC

\* Powers of 2 in the field: a left shift reduced by x^8+x^4+x^3+x^2+1.  The
\* tables are built with @@ so that TLC computes them once.
Power[n \in 0 .. 254] ==
  IF n = 0 THEN 1
  ELSE LET d == 2 * Power[n - 1] IN IF d > 255 THEN d ^^ 285 ELSE d

Exp == (0 :> 1) @@ Power
Log == (1 :> 0) @@ [x \in 2 .. 255 |-> CHOOSE n \in 1 .. 254 : Exp[n] = x]

\* galois_single_multiply(a, b, 8) and galois_single_divide(1, a, 8)
Mul(a, b) ==
  IF a = 0 \/ b = 0 THEN 0 ELSE Exp[(Log[a] + Log[b]) % 255]
Inv(a) == Exp[(255 - Log[a]) % 255]

\* Addition in the field is exclusive or.
XorSum(fun) == FoldFunction(LAMBDA a, b : a ^^ b, 0, fun)
MulAll(fun) == FoldFunction(Mul, 1, fun)

\* reed_sol_sub_stream_coding_matrix: the coefficient of packet c in the FEC
\* packet of generation g that protects mask.  GenerateBaseNumList gives
\* generation g the base number 2^g, and tmp is multiplied by it once for every
\* position after the first, protected or not.
Coefficient(g, mask, c) ==
  IF c \in mask
  THEN LET first == CHOOSE m \in mask : \A d \in mask : m <= d
       IN Exp[(g * (c - first)) % 255]
  ELSE 0

\* The determinant of the leading m x m part of a matrix, by permutations;
\* there are no signs in characteristic 2.
Determinant(A, m) ==
  XorSum([p \in Bijection(1 .. m, 1 .. m) |-> MulAll([i \in 1 .. m |-> A[i][p[i]]])])

\* Elimination that never exchanges rows needs every leading minor.
HasZeroMinor(A, n) == \E m \in 1 .. n : Determinant(A, m) = 0
===============================================================================
