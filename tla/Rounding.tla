------------------------------ MODULE Rounding ------------------------------
(***************************************************************************)
(* Rounding as IEEE 754 has it: to a significand of p bits, and to an even *)
(* one when two are as near.                                               *)
(***************************************************************************)
EXTENDS Integers

twoTo[n \in Nat] == IF n = 0 THEN 1 ELSE 2 * twoTo[n - 1]

Abs(n) == IF n < 0 THEN -n ELSE n

\* n to the nearest multiple of unit, to an even one when two are as near.
Nearest(n, unit) ==
    LET q == n \div unit
        r == 2 * (n % unit)
    IN  IF r > unit \/ (r = unit /\ q % 2 = 1) THEN (q + 1) * unit ELSE q * unit

\* The scale of the numbers of p bits around n: they are the multiples of its power of two.
Scale(n, p) ==
    CHOOSE e \in 0..n : n < twoTo[p + e] /\ (e = 0 \/ n >= twoTo[p + e - 1])

\* The number with a significand of p bits that is nearest to n.
Round(n, p) == Nearest(n, twoTo[Scale(n, p)])
=============================================================================
