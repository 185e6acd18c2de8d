------------------------------ MODULE Rounding ------------------------------
(* How the browser kernel rounds a number to the places it shows           *)
(* (formatNumber() in yuruna.i18n.js).  A finite magnitude of the engine   *)
(* is num/den with den a power of two; a count of decimals is given as     *)
(* scale = 10^decimals and binary = 2^(decimals+1).                        *)
EXTENDS Integers

\* Number.prototype.toFixed: the nearest number of 1/scale, the larger of
\* two that are equally near.
ToFixed(num, den, scale) == (2 * num * scale + den) \div (2 * den)

\* binary % 2 === 1 in the code: num/den times a power of two is an odd
\* integer.
IsOdd(num, den) == num % den = 0 /\ (num \div den) % 2 = 1

\* Mutant: the engine's tie stands.
RoundedUp(num, den, scale, binary) == ToFixed(num, den, scale)

\* The kernel's correction: at an exact tie, an odd last digit goes down.
Rounded(num, den, scale, binary) ==
  LET text == ToFixed(num, den, scale)
  IN  IF IsOdd(num * binary, den) /\ (text % 10) % 2 = 1
      THEN text - 1
      ELSE text

\* The two counts of decimals the catalogs use: integer and decimal.
Places == {[scale |-> 1, binary |-> 2], [scale |-> 100, binary |-> 8]}

-----------------------------------------------------------------------------
\* What the three runtimes agree on (format-agreement.json): the nearest
\* value, and the even one of two that are equally near.
IsHalfEven(text, num, den, scale) ==
  LET twice == 2 * (text * den - num * scale)
  IN  /\ twice \in -den .. den
      /\ twice \in {-den, den} => text % 2 = 0
=============================================================================
