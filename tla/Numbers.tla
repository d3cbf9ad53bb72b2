------------------------------ MODULE Numbers ------------------------------
(***************************************************************************)
(* Go's numbers with scaled widths, for Convert and Json.                  *)
(*                                                                         *)
(* A finite number is given by its halves, so that there are fractions to  *)
(* cut off: 5 is 2.5.  In Go Bits is 32 and 64, Precision is 24 and 53,    *)
(* and the largest finite float is far above the largest integer.  Floats  *)
(* closer to zero than a half, and the sign of zero, are left out.         *)
(***************************************************************************)
EXTENDS Rounding

CONSTANTS
    Bits,              \* of each width, 32 and 64: the bits of its integers
    Precision,         \* the bits of the significand of its floats
    MaxScale           \* the scale of its largest float

Width == {32, 64}

\* The halves of the largest float.
Largest == [w \in Width |-> (twoTo[Precision[w]] - 1) * twoTo[MaxScale[w]]]

ASSUME NumbersAssumption ==
    /\ Bits \in [Width -> Nat \ {0}] /\ Bits[32] =< Bits[64]
    /\ Precision \in [Width -> Nat \ {0}] /\ Precision[32] =< Precision[64]
    /\ MaxScale \in [Width -> Nat] /\ Largest[32] =< Largest[64]

MinInt(w) == -twoTo[Bits[w] - 1]
MaxInt(w) == twoTo[Bits[w] - 1] - 1
MaxUint(w) == twoTo[Bits[w]] - 1

IntOf(w) == MinInt(w)..MaxInt(w)
UintOf(w) == 0..MaxUint(w)

NaN == <<"NaN">>
Inf(sign) == <<"Inf", sign>>
Finite(h) == <<"finite", h>>
IsFinite(f) == f[1] = "finite"

\* The float of width w that is nearest to h halves; infinite beyond the largest.
Rounded(h, w) ==
    LET n == Round(Abs(h), Precision[w])
        sign == IF h < 0 THEN -1 ELSE 1
    IN  IF n > Largest[w] THEN Inf(sign) ELSE Finite(sign * n)

\* The floats of width w.
FloatOf == [w \in Width |->
    {Finite(h) : h \in {h \in -Largest[w]..Largest[w] : Rounded(h, w) = Finite(h)}}
    \cup {Inf(1), Inf(-1), NaN}]
=============================================================================
