--------------------------------- MODULE Arith ---------------------------------
(***************************************************************************)
(* Integer arithmetic as C does it.                                          *)
(***************************************************************************)
EXTENDS Integers

\* Division by a positive number, towards zero.
Trunc(a, b) == IF a >= 0 THEN a \div b ELSE -((-a) \div b)

Abs(a) == IF a >= 0 THEN a ELSE -a

\* lmax() of rtqueue.c.
lmax(a, b) == IF a > b THEN a ELSE b

\* lceil() of rtqueue.c, for positive b.
lceil(a, b) == Trunc(a + b - 1, b)
===============================================================================
