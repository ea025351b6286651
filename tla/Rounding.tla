------------------------------- MODULE Rounding -------------------------------
(***************************************************************************)
(* round(), as the code uses it on quotients.                              *)
(***************************************************************************)
EXTENDS Integers

\* The integer nearest to a / b.  Python's round() takes an exact tie to the
\* even neighbour, this to the upper one; no property tells the two apart.
RoundedDiv(a, b) == (2 * a + b) \div (2 * b)
=============================================================================
