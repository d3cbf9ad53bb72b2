---------------------------- MODULE InputProofs ----------------------------
(***************************************************************************)
(* Proofs about Inputs, for any characters, widths and configurations:     *)
(* numbers are converted right (NumbersConverted), their texts are read as *)
(* the same numbers, but for a float32 that is rounded twice               *)
(* (TextsReadBack), configurations are accepted exactly when the readme    *)
(* allows it (ConfigsParsed), what they name can be addressed              *)
(* (FieldsAddressable), and paths are read as what they mean (PathsParsed).*)
(*                                                                         *)
(* The invariant says little: a job is what came from outside or what the  *)
(* program made of an earlier result, and the result is that of the job.   *)
(* The work is in what the three operators do.  Those that follow a loop   *)
(* of the code are recursive functions of the number of iterations, which  *)
(* are shown to exist by induction over that number, with an invariant of  *)
(* the loop.                                                               *)
(***************************************************************************)
EXTENDS Inputs, DataLemmas, FiniteSetTheorems

-----------------------------------------------------------------------------
(* Floats *)

\* A number to p bits, its sign kept.
Near(h, p) == IF h < 0 THEN -Round(-h, p) ELSE Round(h, p)

LEMMA LargestIs ==
    /\ \A w \in Width : /\ Precision[w] \in Nat \ {0} /\ Largest[w] \in Nat
                        /\ Round(Largest[w], Precision[w]) = Largest[w]
    /\ Precision[32] =< Precision[64] /\ Largest[32] =< Largest[64]
<1>1. /\ \A w \in Width : Precision[w] \in Nat \ {0} /\ MaxScale[w] \in Nat
      /\ Precision[32] =< Precision[64] /\ Largest[32] =< Largest[64]
    BY NumbersAssumption
<1>2. ASSUME NEW w \in Width
      PROVE  Largest[w] \in Nat /\ Round(Largest[w], Precision[w]) = Largest[w]
    <2>1. Largest[w] = (twoTo[Precision[w]] - 1) * twoTo[MaxScale[w]]
        BY DEF Largest
    <2> QED BY <1>1, <2>1, LargestStays
<1> QED BY <1>1, <1>2

LEMMA ZeroStays ==
    ASSUME NEW p \in Nat \ {0}
    PROVE  Round(0, p) = 0
<1>1. Scale(0, p) \in 0 .. 0
    BY ScaleIs
<1>2. Scale(0, p) = 0 /\ twoTo[0] = 1
    BY <1>1, TwoToIs
<1>3. Nearest(0, 1) = 0
    BY DEF Nearest
<1> QED BY <1>2, <1>3 DEF Round

LEMMA NearIs ==
    ASSUME NEW p \in Nat \ {0}
    PROVE  /\ \A h \in Int : /\ Near(h, p) \in Int /\ Abs(h) \in Nat
                             /\ Abs(Near(h, p)) = Round(Abs(h), p)
                             /\ Near(Near(h, p), p) = Near(h, p)
                             /\ Near(h, p) = h <=> Round(Abs(h), p) = Abs(h)
           /\ \A h, g \in Int : h =< g => Near(h, p) =< Near(g, p)
<1>1. \A a \in Nat : Round(a, p) \in Nat /\ Round(Round(a, p), p) = Round(a, p)
    BY RoundAgain
<1>2. \A a, b \in Nat : a =< b => Round(a, p) =< Round(b, p)
    BY RoundGrows
<1>3. Round(0, p) = 0
    BY ZeroStays
<1>4. ASSUME NEW h \in Int
      PROVE  /\ Near(h, p) \in Int /\ Abs(h) \in Nat
             /\ Abs(Near(h, p)) = Round(Abs(h), p)
             /\ Near(Near(h, p), p) = Near(h, p)
             /\ Near(h, p) = h <=> Round(Abs(h), p) = Abs(h)
    <2>1. CASE h < 0
        <3>1. -h \in Nat /\ Abs(h) = -h /\ Near(h, p) = -Round(-h, p)
            BY <2>1 DEF Near, Abs
        <3>2. Round(-h, p) \in Nat /\ Round(Round(-h, p), p) = Round(-h, p)
            BY <1>1, <3>1
        <3> DEFINE r == Round(-h, p)
        <3> HIDE DEF r
        <3>3. r \in Nat /\ Round(r, p) = r /\ Near(h, p) = -r /\ Abs(h) \in Nat /\ Round(Abs(h), p) = r
            BY <3>1, <3>2 DEF r
        <3>4. Abs(-r) = r
            BY <3>3 DEF Abs
        <3>5. Near(-r, p) = -r
            <4>1. CASE r = 0
                BY <1>3, <4>1 DEF Near
            <4>2. CASE r # 0
                <5>1. -r < 0 /\ -(-r) = r
                    BY <3>3, <4>2
                <5> QED BY <3>3, <5>1 DEF Near
            <4> QED BY <4>1, <4>2
        <3>6. -r = h <=> r = -h
            BY <3>3
        <3> QED BY <3>1, <3>3, <3>4, <3>5, <3>6
    <2>2. CASE ~(h < 0)
        <3>1. h \in Nat /\ Abs(h) = h /\ Near(h, p) = Round(h, p)
            BY <2>2 DEF Near, Abs
        <3>2. Round(h, p) \in Nat /\ Round(Round(h, p), p) = Round(h, p)
            BY <1>1, <3>1
        <3>3. ~(Round(h, p) < 0)
            BY <3>2
        <3>4. Abs(Round(h, p)) = Round(h, p) /\ Near(Round(h, p), p) = Round(h, p)
            BY <3>2, <3>3 DEF Abs, Near
        <3> QED BY <3>1, <3>2, <3>4
    <2> QED BY <2>1, <2>2
<1>5. ASSUME NEW h \in Int, NEW g \in Int, h =< g
      PROVE  Near(h, p) =< Near(g, p)
    <2>1. CASE h < 0 /\ g < 0
        <3>1. -h \in Nat /\ -g \in Nat /\ -g =< -h
            BY <1>5, <2>1
        <3>2. Round(-g, p) =< Round(-h, p) /\ Round(-g, p) \in Nat /\ Round(-h, p) \in Nat
            BY <1>1, <1>2, <3>1
        <3>3. Near(h, p) = -Round(-h, p) /\ Near(g, p) = -Round(-g, p)
            BY <2>1 DEF Near
        <3> QED BY <3>2, <3>3
    <2>2. CASE h < 0 /\ ~(g < 0)
        <3>1. -h \in Nat /\ g \in Nat
            BY <2>2
        <3>2. Round(-h, p) \in Nat /\ Round(g, p) \in Nat
            BY <1>1, <3>1
        <3>3. Near(h, p) = -Round(-h, p) /\ Near(g, p) = Round(g, p)
            BY <2>2 DEF Near
        <3> QED BY <3>2, <3>3
    <2>3. CASE ~(h < 0)
        <3>1. h \in Nat /\ g \in Nat /\ ~(g < 0)
            BY <1>5, <2>3
        <3> QED BY <1>2, <1>5, <2>3, <3>1 DEF Near
    <2> QED BY <2>1, <2>2, <2>3
<1> QED BY <1>4, <1>5

LEMMA NearGrows ==
    ASSUME NEW p \in Nat \ {0}, NEW h \in Int, NEW g \in Int, h =< g
    PROVE  Near(h, p) =< Near(g, p)
BY NearIs

LEMMA FiniteIs ==
    /\ \A x : IsFinite(Finite(x)) /\ Finite(x)[2] = x
    /\ \A s : ~IsFinite(Inf(s))
    /\ ~IsFinite(NaN)
BY DEF IsFinite, Finite, Inf, NaN

LEMMA RoundedIs ==
    ASSUME NEW w \in Width, NEW h \in Int
    PROVE  /\ IsFinite(Rounded(h, w)) <=> Round(Abs(h), Precision[w]) =< Largest[w]
           /\ IsFinite(Rounded(h, w)) => Rounded(h, w) = Finite(Near(h, Precision[w]))
           /\ ~IsFinite(Rounded(h, w)) => Rounded(h, w) \in {Inf(1), Inf(-1)}
<1> DEFINE p == Precision[w]
           n == Round(Abs(h), p)
           s == IF h < 0 THEN -1 ELSE 1
<1>1. p \in Nat \ {0} /\ Largest[w] \in Nat
    BY LargestIs
<1>2. Abs(h) \in Nat /\ n \in Nat
    BY <1>1, NearIs, RoundIs
<1>3. Rounded(h, w) = IF n > Largest[w] THEN Inf(s) ELSE Finite(s * n)
    BY DEF Rounded
<1>4. s * n = Near(h, p)
    <2>1. CASE h < 0
        <3>1. s = -1 /\ n = Round(-h, p) /\ Near(h, p) = -Round(-h, p)
            BY <2>1 DEF Abs, Near
        <3> HIDE DEF n, s
        <3>2. (-1) * n = -n
            BY <1>2
        <3>3. s * n = (-1) * n
            BY <3>1, Zenon
        <3> QED BY <3>1, <3>2, <3>3, Zenon
    <2>2. CASE ~(h < 0)
        <3>1. s = 1 /\ n = Round(h, p) /\ Near(h, p) = Round(h, p)
            BY <2>2 DEF Abs, Near
        <3> HIDE DEF n, s
        <3>2. 1 * n = n
            BY <1>2
        <3>3. s * n = 1 * n
            BY <3>1, Zenon
        <3> QED BY <3>1, <3>2, <3>3, Zenon
    <2> QED BY <2>1, <2>2
<1>5. s \in {1, -1}
    OBVIOUS
<1> HIDE DEF p, n, s
<1>6. n > Largest[w] <=> ~(n =< Largest[w])
    BY <1>1, <1>2
<1>7. n = Round(Abs(h), Precision[w]) /\ p = Precision[w]
    BY DEF n, p
<1>8. IsFinite(Rounded(h, w)) <=> n =< Largest[w]
    <2>1. CASE n > Largest[w]
        BY <1>3, <1>6, <2>1, FiniteIs
    <2>2. CASE ~(n > Largest[w])
        BY <1>3, <1>6, <2>2, FiniteIs
    <2> QED BY <2>1, <2>2
<1>9. IsFinite(Rounded(h, w)) => Rounded(h, w) = Finite(Near(h, p))
    BY <1>3, <1>4, <1>6, <1>8
<1>10. ~IsFinite(Rounded(h, w)) => Rounded(h, w) \in {Inf(1), Inf(-1)}
    BY <1>3, <1>5, <1>6, <1>8
<1> QED BY <1>7, <1>8, <1>9, <1>10

\* The finite floats.
LEMMA FloatIs ==
    ASSUME NEW w \in Width
    PROVE  /\ \A g \in FloatOf[w] : IsFinite(g) =>
                /\ g = Finite(g[2]) /\ g[2] \in Int /\ Near(g[2], Precision[w]) = g[2]
                /\ Abs(g[2]) =< Largest[w]
           /\ \A x \in Int : Near(x, Precision[w]) = x /\ Abs(x) =< Largest[w] =>
                Finite(x) \in FloatOf[w] /\ Rounded(x, w) = Finite(x)
           /\ \A g \in FloatOf[w] : ~IsFinite(g) => g \in {NaN, Inf(1), Inf(-1)}
           /\ {NaN, Inf(1), Inf(-1)} \subseteq FloatOf[w]
<1> DEFINE p == Precision[w]
           L == Largest[w]
<1>1. p \in Nat \ {0} /\ L \in Nat
    BY LargestIs
<1>2. \A x \in Int : x \in -L..L <=> Abs(x) =< L
    BY <1>1 DEF Abs
<1>3. ASSUME NEW x \in Int
      PROVE  Rounded(x, w) = Finite(x) <=> Near(x, p) = x /\ Abs(x) =< L
    <2>1. /\ IsFinite(Rounded(x, w)) <=> Round(Abs(x), p) =< L
          /\ IsFinite(Rounded(x, w)) => Rounded(x, w) = Finite(Near(x, p))
        BY RoundedIs
    <2>2. Near(x, p) = x <=> Round(Abs(x), p) = Abs(x)
        BY <1>1, NearIs
    <2> HIDE DEF p, L
    <2>3. ASSUME Rounded(x, w) = Finite(x)
          PROVE  Near(x, p) = x /\ Abs(x) =< L
        <3>1. IsFinite(Rounded(x, w)) /\ Rounded(x, w)[2] = x
            BY <2>3, FiniteIs
        <3>2. Near(x, p) = x
            BY <2>1, <3>1, FiniteIs
        <3> QED BY <2>1, <2>2, <3>1, <3>2
    <2>4. ASSUME Near(x, p) = x, Abs(x) =< L
          PROVE  Rounded(x, w) = Finite(x)
        BY <2>1, <2>2, <2>4
    <2> QED BY <2>3, <2>4
<1>4. \A g \in FloatOf[w] : IsFinite(g) =>
            g = Finite(g[2]) /\ g[2] \in Int /\ Near(g[2], p) = g[2] /\ Abs(g[2]) =< L
    <2> SUFFICES ASSUME NEW g \in FloatOf[w], IsFinite(g)
                 PROVE  g = Finite(g[2]) /\ g[2] \in Int /\ Near(g[2], p) = g[2] /\ Abs(g[2]) =< L
        OBVIOUS
    <2>1. g \notin {Inf(1), Inf(-1), NaN}
        BY FiniteIs
    <2>2. PICK h \in -L..L : g = Finite(h) /\ Rounded(h, w) = Finite(h)
        BY <2>1 DEF FloatOf
    <2>3. h \in Int /\ g[2] = h
        BY <1>1, <2>2, FiniteIs
    <2> HIDE DEF p, L
    <2> QED BY <1>3, <2>2, <2>3
<1>5. \A x \in Int : Near(x, p) = x /\ Abs(x) =< L => Finite(x) \in FloatOf[w] /\ Rounded(x, w) = Finite(x)
    <2> SUFFICES ASSUME NEW x \in Int, Near(x, p) = x, Abs(x) =< L
                 PROVE  Finite(x) \in FloatOf[w] /\ Rounded(x, w) = Finite(x)
        OBVIOUS
    <2>1. Rounded(x, w) = Finite(x) /\ x \in -L..L
        BY <1>2, <1>3
    <2> QED BY <2>1 DEF FloatOf
<1>6. \A g \in FloatOf[w] : ~IsFinite(g) => g \in {NaN, Inf(1), Inf(-1)}
    BY FiniteIs DEF FloatOf
<1>7. {NaN, Inf(1), Inf(-1)} \subseteq FloatOf[w]
    BY DEF FloatOf
<1> QED BY <1>4, <1>5, <1>6, <1>7

\* A number that no float is between and h is a neighbour of h.
LEMMA NeighbourIs ==
    ASSUME NEW w \in Width, NEW h \in Int, NEW x \in Int,
           Near(x, Precision[w]) = x, Abs(x) =< Largest[w],
           \A y \in Int : Near(y, Precision[w]) = y => (y =< h => y =< x) /\ (h =< y => x =< y)
    PROVE  IsNeighbour(Finite(x), h, w)
<1>1. Finite(x) \in FloatOf[w] /\ IsFinite(Finite(x)) /\ Finite(x)[2] = x
    BY FloatIs, FiniteIs
<1>2. ASSUME NEW g \in FloatOf[w], IsFinite(g), (x < g[2] /\ g[2] =< h) \/ (h =< g[2] /\ g[2] < x)
      PROVE  FALSE
    <2>1. g[2] \in Int /\ Near(g[2], Precision[w]) = g[2]
        BY <1>2, FloatIs
    <2> QED BY <1>2, <2>1
<1> QED BY <1>1, <1>2 DEF IsNeighbour

\* What is rounded once, or first to a double and then to a float, is a neighbour.
LEMMA RoundedNeighbour ==
    ASSUME NEW w \in Width, NEW h \in Int, IsFinite(Rounded(h, w))
    PROVE  IsNeighbour(Rounded(h, w), h, w)
<1> DEFINE p == Precision[w]
           x == Near(h, p)
<1>1. p \in Nat \ {0} /\ Largest[w] \in Nat
    BY LargestIs
<1>2. Rounded(h, w) = Finite(x) /\ Round(Abs(h), p) =< Largest[w]
    BY RoundedIs
<1>3. x \in Int /\ Abs(x) =< Largest[w] /\ Near(x, p) = x
    BY <1>1, <1>2, NearIs
<1>4. \A y \in Int : Near(y, p) = y => (y =< h => y =< x) /\ (h =< y => x =< y)
    BY <1>1, NearIs
<1> HIDE DEF x
<1>5. IsNeighbour(Finite(x), h, w)
    BY <1>3, <1>4, NeighbourIs
<1> QED BY <1>2, <1>5

LEMMA TwiceNeighbour ==
    ASSUME NEW h \in Int, IsFinite(Rounded(h, 64)), IsFinite(Rounded(Rounded(h, 64)[2], 32))
    PROVE  /\ IsFinite(Rounded(h, 32))
           /\ IsNeighbour(Rounded(Rounded(h, 64)[2], 32), h, 32)
<1> DEFINE p == Precision[32]
           q == Precision[64]
           y == Near(h, q)
           x == Near(y, p)
<1>1. p \in Nat \ {0} /\ q \in Nat \ {0} /\ p =< q /\ Largest[32] \in Nat /\ MaxScale[32] \in Nat
    BY LargestIs, NumbersAssumption DEF Width
<1>2. Rounded(h, 64) = Finite(y) /\ Rounded(h, 64)[2] = y
    BY RoundedIs, FiniteIs DEF Width
<1>3. y \in Int
    BY <1>1, NearIs
<1>4. Rounded(y, 32) = Finite(x) /\ Round(Abs(y), p) =< Largest[32]
    BY <1>2, <1>3, RoundedIs DEF Width
<1>5. x \in Int /\ Abs(x) =< Largest[32] /\ Near(x, p) = x
    BY <1>1, <1>3, <1>4, NearIs
<1>6. Abs(h) \in Nat /\ Abs(y) = Round(Abs(h), q)
    BY <1>1, NearIs
<1>7. Largest[32] = (twoTo[p] - 1) * twoTo[MaxScale[32]]
    BY DEF Largest, Width
<1>8. Round(Abs(h), p) =< Largest[32]
    <2> HIDE DEF p, q, y, x
    <2> QED BY <1>1, <1>4, <1>6, <1>7, RoundedTwice
<1>9. IsFinite(Rounded(h, 32))
    BY <1>8, RoundedIs DEF Width
<1>10. ASSUME NEW g \in Int, Near(g, p) = g
       PROVE  (g =< h => g =< x) /\ (h =< g => x =< g)
    <2>1. Abs(g) \in Nat /\ Round(Abs(g), p) = Abs(g)
        BY <1>1, <1>10, NearIs
    <2>2. Round(Abs(g), q) = Abs(g)
        BY <1>1, <2>1, MoreBits
    <2>3. Near(g, q) = g
        BY <1>1, <2>2, NearIs
    <2>4. (g =< h => g =< y) /\ (h =< g => y =< g)
        <3>1. g =< h => Near(g, q) =< y
            BY <1>1, NearGrows
        <3>2. h =< g => y =< Near(g, q)
            BY <1>1, NearGrows
        <3> QED BY <2>3, <3>1, <3>2
    <2>5. (g =< y => g =< x) /\ (y =< g => x =< g)
        <3>1. g =< y => Near(g, p) =< x
            BY <1>1, <1>3, NearGrows
        <3>2. y =< g => x =< Near(g, p)
            BY <1>1, <1>3, NearGrows
        <3> QED BY <1>10, <3>1, <3>2
    <2> QED BY <2>4, <2>5
<1> HIDE DEF x, y, p, q
<1>11. IsNeighbour(Finite(x), h, 32)
    BY <1>5, <1>10, NeighbourIs DEF p, Width
<1> QED BY <1>2, <1>4, <1>9, <1>11

\* Only what is beyond the largest float becomes infinite.
LEMMA SmallIsFinite ==
    ASSUME NEW w \in Width, NEW h \in Int, Abs(h) =< Largest[w]
    PROVE  IsFinite(Rounded(h, w))
<1>1. /\ Precision[w] \in Nat \ {0} /\ Largest[w] \in Nat
      /\ Round(Largest[w], Precision[w]) = Largest[w]
    BY LargestIs
<1>2. Abs(h) \in Nat
    BY DEF Abs
<1>3. Round(Abs(h), Precision[w]) =< Largest[w]
    BY <1>1, <1>2, RoundGrows
<1> QED BY <1>3, RoundedIs

LEMMA SmallIsFiniteTwice ==
    ASSUME NEW h \in Int, Abs(h) =< Largest[32]
    PROVE  IsFinite(Rounded(h, 64)) /\ IsFinite(Rounded(Rounded(h, 64)[2], 32))
<1>1. /\ Precision[32] \in Nat \ {0} /\ Largest[32] \in Nat /\ Largest[64] \in Nat
      /\ Precision[64] \in Nat \ {0} /\ Precision[32] =< Precision[64]
      /\ Round(Largest[32], Precision[32]) = Largest[32] /\ Largest[32] =< Largest[64]
    BY LargestIs DEF Width
<1>2. Abs(h) \in Nat
    BY DEF Abs
<1>3. Abs(h) =< Largest[64]
    BY <1>1, <1>2
<1>4. IsFinite(Rounded(h, 64))
    BY <1>3, SmallIsFinite DEF Width
<1>5. Rounded(h, 64)[2] = Near(h, Precision[64])
    BY <1>4, RoundedIs, FiniteIs DEF Width
<1>6. Near(h, Precision[64]) \in Int /\ Abs(Near(h, Precision[64])) = Round(Abs(h), Precision[64])
    BY <1>1, NearIs
<1>7. Round(Largest[32], Precision[64]) = Largest[32]
    BY <1>1, MoreBits
<1>8. Round(Abs(h), Precision[64]) =< Largest[32]
    BY <1>1, <1>2, <1>7, RoundGrows
<1>9. IsFinite(Rounded(Near(h, Precision[64]), 32))
    BY <1>6, <1>8, SmallIsFinite DEF Width
<1> QED BY <1>4, <1>5, <1>9

\* A narrow float is a wide one.
LEMMA NarrowIsWide == FloatOf[32] \subseteq FloatOf[64]
<1> SUFFICES ASSUME NEW g \in FloatOf[32] PROVE g \in FloatOf[64]
    OBVIOUS
<1>1. 32 \in Width /\ 64 \in Width
    BY DEF Width
<1>2. CASE IsFinite(g)
    <2>1. /\ g = Finite(g[2]) /\ g[2] \in Int /\ Near(g[2], Precision[32]) = g[2]
          /\ Abs(g[2]) =< Largest[32]
        BY <1>1, <1>2, FloatIs
    <2>2. /\ Precision[32] \in Nat \ {0} /\ Largest[32] \in Nat /\ Largest[64] \in Nat
          /\ Precision[64] \in Nat \ {0} /\ Precision[32] =< Precision[64] /\ Largest[32] =< Largest[64]
        BY <1>1, LargestIs
    <2>3. Abs(g[2]) \in Nat /\ Round(Abs(g[2]), Precision[32]) = Abs(g[2])
        BY <2>1, <2>2, NearIs
    <2>4. Round(Abs(g[2]), Precision[64]) = Abs(g[2])
        BY <2>2, <2>3, MoreBits
    <2>5. Near(g[2], Precision[64]) = g[2]
        BY <2>1, <2>2, <2>4, NearIs
    <2>6. Abs(g[2]) =< Largest[64]
        BY <2>1, <2>2, <2>3
    <2> QED BY <1>1, <2>1, <2>5, <2>6, FloatIs
<1>3. CASE ~IsFinite(g)
    BY <1>1, <1>3, FloatIs
<1> QED BY <1>2, <1>3

-----------------------------------------------------------------------------
(* The conversion of numbers to integers *)
LEMMA KindsAre ==
    /\ DOMAIN IntKind = {"int32", "int64"} /\ IntKind["int32"] = 32 /\ IntKind["int64"] = 64
    /\ DOMAIN UintKind = {"uint32", "uint64"} /\ UintKind["uint32"] = 32 /\ UintKind["uint64"] = 64
    /\ DOMAIN FloatKind = {"float32", "float64", "namedFloat32"}
    /\ FloatKind["float32"] = 32 /\ FloatKind["float64"] = 64 /\ FloatKind["namedFloat32"] = 32
    /\ NumberKind = {"int32", "int64", "uint32", "uint64", "float32", "float64", "namedFloat32"}
    /\ StringKind = {"string", "namedString"} /\ StringKind \cap NumberKind = {}
BY DEF IntKind, UintKind, FloatKind, NumberKind, StringKind

LEMMA FieldsAre ==
    /\ DOMAIN IntegerField = {"int32", "int64", "uint32", "uint64"}
    /\ IntegerField["int32"] = IntOf(32) /\ IntegerField["int64"] = IntOf(64)
    /\ IntegerField["uint32"] = UintOf(32) /\ IntegerField["uint64"] = UintOf(64)
    /\ DOMAIN FloatField = {"float", "double"} /\ FloatField["float"] = 32 /\ FloatField["double"] = 64
BY DEF IntegerField, FloatField

\* The bounds of integers; a wide one has the narrow ones.
LEMMA BoundsAre ==
    /\ \A w \in Width : /\ MinInt(w) \in Int /\ MaxInt(w) \in Nat /\ MaxUint(w) \in Nat
                        /\ MinInt(w) =< 0 /\ MaxInt(w) =< MaxUint(w) /\ -MaxUint(w) =< MinInt(w)
    /\ MaxInt(32) =< MaxInt(64) /\ MinInt(64) =< MinInt(32) /\ MaxUint(32) =< MaxUint(64)
<1>1. ASSUME NEW w \in Width
      PROVE  Bits[w] \in Nat /\ Bits[w] - 1 \in Nat /\ (Bits[w] - 1) + 1 = Bits[w]
    BY NumbersAssumption
<1>2. ASSUME NEW w \in Width
      PROVE  /\ MinInt(w) \in Int /\ MaxInt(w) \in Nat /\ MaxUint(w) \in Nat
             /\ MinInt(w) =< 0 /\ MaxInt(w) =< MaxUint(w) /\ -MaxUint(w) =< MinInt(w)
    <2>1. twoTo[Bits[w] - 1] \in Nat /\ twoTo[Bits[w] - 1] > 0
        BY <1>1, TwoToPositive
    <2>2. twoTo[(Bits[w] - 1) + 1] = 2 * twoTo[Bits[w] - 1]
        BY <1>1, TwoToIs
    <2>3. twoTo[Bits[w]] = 2 * twoTo[Bits[w] - 1]
        BY <1>1, <2>2
    <2> QED BY <2>1, <2>3 DEF MinInt, MaxInt, MaxUint
<1>3. Bits[32] =< Bits[64] /\ 32 \in Width /\ 64 \in Width
    BY NumbersAssumption DEF Width
<1>4. \A m, n \in Nat : m =< n => twoTo[m] =< twoTo[n]
    BY TwoToGrows
<1>5. twoTo[Bits[32]] =< twoTo[Bits[64]] /\ twoTo[Bits[32] - 1] =< twoTo[Bits[64] - 1]
    BY <1>1, <1>3, <1>4
<1>6. /\ twoTo[Bits[32]] \in Nat /\ twoTo[Bits[64]] \in Nat
      /\ twoTo[Bits[32] - 1] \in Nat /\ twoTo[Bits[64] - 1] \in Nat
    BY <1>1, <1>3, TwoToPositive
<1> QED BY <1>2, <1>5, <1>6 DEF MinInt, MaxInt, MaxUint

LEMMA TruncIs ==
    /\ \A h \in Int : Trunc(h) \in Int
    /\ \A n \in Int : Trunc(2 * n) = n
    /\ \A h \in Int : h % 2 = 0 => Trunc(h) = h \div 2 /\ 2 * (h \div 2) = h
<1>1. \A n \in Nat : (2 * n) \div 2 = n
    OBVIOUS
<1>2. ASSUME NEW n \in Int
      PROVE  Trunc(2 * n) = n
    <2>1. CASE n < 0
        <3>1. -(2 * n) = 2 * (-n) /\ -n \in Nat /\ 2 * n < 0
            BY <2>1
        <3>2. (2 * (-n)) \div 2 = -n
            BY <1>1, <3>1
        <3>3. Trunc(2 * n) = -(-(2 * n) \div 2)
            BY <3>1 DEF Trunc
        <3> QED BY <3>1, <3>2, <3>3
    <2>2. CASE ~(n < 0)
        <3>1. n \in Nat /\ ~(2 * n < 0)
            BY <2>2
        <3> QED BY <1>1, <3>1 DEF Trunc
    <2> QED BY <2>1, <2>2
<1>3. ASSUME NEW h \in Int
      PROVE  Trunc(h) \in Int /\ (h % 2 = 0 => Trunc(h) = h \div 2 /\ 2 * (h \div 2) = h)
    <2>1. h \div 2 \in Int /\ -h \div 2 \in Int
        OBVIOUS
    <2>2. Trunc(h) \in Int
        BY <2>1 DEF Trunc
    <2>3. h % 2 = 0 => h = 2 * (h \div 2)
        OBVIOUS
    <2> QED BY <1>2, <2>1, <2>2, <2>3
<1> QED BY <1>2, <1>3

\* The one number that an argument can be for an integer field.
LEMMA ToIntegerIs ==
    ASSUME NEW ft, NEW arg, NEW n
    PROVE  /\ /\ IsNumber(arg) /\ IsFinite(NumberOf(arg)) /\ n = Trunc(NumberOf(arg)[2])
              /\ arg.kind \in StringKind => IsTextFor(ft, arg.v)
              => ToInteger(ft, arg) = When(n \in IntegerField[ft], n)
           /\ \/ ~IsNumber(arg)
              \/ ~IsFinite(NumberOf(arg))
              \/ arg.kind \in StringKind /\ ~IsTextFor(ft, arg.v)
              => ToInteger(ft, arg) = Mismatch
<1> DEFINE fits == {k \in IntegerField[ft] :
                       /\ IsNumber(arg) /\ IsFinite(NumberOf(arg))
                       /\ k = Trunc(NumberOf(arg)[2])
                       /\ arg.kind \in StringKind => IsTextFor(ft, arg.v)}
<1>1. ToInteger(ft, arg) = IF fits = {} THEN Mismatch ELSE Converted(CHOOSE k \in fits : TRUE)
    BY DEF ToInteger
<1>2. ASSUME IsNumber(arg), IsFinite(NumberOf(arg)), n = Trunc(NumberOf(arg)[2]),
             arg.kind \in StringKind => IsTextFor(ft, arg.v)
      PROVE  ToInteger(ft, arg) = When(n \in IntegerField[ft], n)
    <2>1. \A k \in fits : k = n
        BY <1>2
    <2>2. n \in fits <=> n \in IntegerField[ft]
        BY <1>2
    <2> HIDE DEF fits
    <2>3. CASE n \in fits
        <3>1. (CHOOSE k \in fits : TRUE) = n /\ fits # {}
            BY <2>1, <2>3
        <3> QED BY <1>1, <2>2, <2>3, <3>1 DEF When
    <2>4. CASE n \notin fits
        <3>1. fits = {}
            BY <2>1, <2>4
        <3> QED BY <1>1, <2>2, <2>4, <3>1 DEF When
    <2> QED BY <2>3, <2>4
<1>3. ASSUME ~IsNumber(arg) \/ ~IsFinite(NumberOf(arg)) \/ (arg.kind \in StringKind /\ ~IsTextFor(ft, arg.v))
      PROVE  ToInteger(ft, arg) = Mismatch
    BY <1>1, <1>3
<1> QED BY <1>2, <1>3

\* The four checks of bounds.
LEMMA ChecksAre ==
    ASSUME NEW w \in Width, NEW n \in Int
    PROVE  /\ checkInt(n, w) = When(n \in IntOf(w), n)
           /\ n >= 0 => checkUintToInt(n, w) = When(n \in IntOf(w), n)
           /\ checkIntToUint(n, w) = When(n \in UintOf(w), n)
           /\ n >= 0 => checkUintRange(n, w) = When(n \in UintOf(w), n)
<1>1. MinInt(w) \in Int /\ MaxInt(w) \in Nat /\ MaxUint(w) \in Nat /\ MinInt(w) =< 0
    BY BoundsAre
<1>2. n \in IntOf(w) <=> n >= MinInt(w) /\ n =< MaxInt(w)
    BY <1>1 DEF IntOf
<1>3. n \in UintOf(w) <=> n >= 0 /\ n =< MaxUint(w)
    BY <1>1 DEF UintOf
<1>4. n >= 0 => n >= MinInt(w)
    BY <1>1
<1> QED BY <1>2, <1>3, <1>4 DEF checkInt, checkUintToInt, checkIntToUint, checkUintRange, When

LEMMA FloatChecksAre ==
    ASSUME NEW w \in Width, NEW f, IsFinite(f), f[2] \in Int
    PROVE  /\ checkFloatToInt(f, w) = When(Trunc(f[2]) \in IntOf(w), Trunc(f[2]))
           /\ checkFloatToUint(f, w) = When(Trunc(f[2]) \in UintOf(w), Trunc(f[2]))
<1> DEFINE t == Trunc(f[2])
<1>1. t \in Int
    BY TruncIs
<1>2. MinInt(w) \in Int /\ MaxInt(w) \in Nat /\ MaxUint(w) \in Nat
    BY BoundsAre
<1>3. /\ checkFloatToInt(f, w) = IF w = 32 THEN When(t >= MinInt(32) /\ t =< MaxInt(32), t)
                                 ELSE When(t >= MinInt(64) /\ t < MaxInt(64) + 1, t)
      /\ checkFloatToUint(f, w) = IF w = 32 THEN When(t >= 0 /\ t =< MaxUint(32), t)
                                  ELSE When(t >= 0 /\ t < MaxUint(64) + 1, t)
    BY DEF checkFloatToInt, checkFloatToUint
<1> HIDE DEF t
<1>4. w = 32 \/ w = 64
    BY DEF Width
<1>5. t \in IntOf(w) <=> t >= MinInt(w) /\ t =< MaxInt(w)
    BY <1>1, <1>2 DEF IntOf
<1>6. t \in UintOf(w) <=> t >= 0 /\ t =< MaxUint(w)
    BY <1>1, <1>2 DEF UintOf
<1>7. (t < MaxInt(w) + 1 <=> t =< MaxInt(w)) /\ (t < MaxUint(w) + 1 <=> t =< MaxUint(w))
    BY <1>1, <1>2
<1>8. /\ checkFloatToInt(f, w) = When(t \in IntOf(w), t)
      /\ checkFloatToUint(f, w) = When(t \in UintOf(w), t)
    <2>1. CASE w = 32
        BY <1>3, <1>5, <1>6, <2>1 DEF When
    <2>2. CASE w = 64
        BY <1>3, <1>5, <1>6, <1>7, <2>2 DEF When
    <2> QED BY <1>4, <2>1, <2>2
<1> QED BY <1>8 DEF t

\* What a number of each kind is.
LEMMA NumbersAre ==
    ASSUME NEW arg, IsArg(arg)
    PROVE  /\ arg.kind \in DOMAIN IntKind =>
                /\ IsNumber(arg) /\ NumberOf(arg) = Finite(2 * arg.v) /\ arg.v \in Int
                /\ -MaxUint(64) =< arg.v /\ arg.v =< MaxUint(64)
           /\ arg.kind \in DOMAIN UintKind =>
                /\ IsNumber(arg) /\ NumberOf(arg) = Finite(2 * arg.v) /\ arg.v \in Int
                /\ 0 =< arg.v /\ arg.v =< MaxUint(64)
           /\ arg.kind \in DOMAIN FloatKind =>
                IsNumber(arg) /\ NumberOf(arg) = arg.v /\ arg.v \in FloatOf[64]
           /\ arg.kind \in StringKind =>
                (IsNumber(arg) <=> IsNumeral(arg.v)) /\ NumberOf(arg) = arg.v[2].f
           /\ arg.kind \notin NumberKind \cup StringKind => ~IsNumber(arg)
<1>1. 32 \in Width /\ 64 \in Width
    BY DEF Width
<1>2. /\ \A w \in Width : /\ MinInt(w) \in Int /\ MaxInt(w) \in Nat /\ MaxUint(w) \in Nat
                          /\ MinInt(w) =< 0 /\ MaxInt(w) =< MaxUint(w) /\ -MaxUint(w) =< MinInt(w)
      /\ MaxInt(32) =< MaxInt(64) /\ MinInt(64) =< MinInt(32) /\ MaxUint(32) =< MaxUint(64)
    BY BoundsAre
<1>3. CASE arg.kind \in DOMAIN IntKind
    <2>1. arg.v \in IntOf(32) \/ arg.v \in IntOf(64)
        BY <1>3, KindsAre DEF IsArg
    <2>2. arg.v \in Int /\ -MaxUint(64) =< arg.v /\ arg.v =< MaxUint(64)
        BY <1>1, <1>2, <2>1 DEF IntOf
    <2>3. IsNumber(arg) /\ NumberOf(arg) = Finite(2 * arg.v)
        BY <1>3, KindsAre DEF IsNumber, NumberOf
    <2> QED BY <1>3, <2>2, <2>3, KindsAre
<1>4. CASE arg.kind \in DOMAIN UintKind
    <2>1. arg.v \in UintOf(32) \/ arg.v \in UintOf(64)
        BY <1>4, KindsAre DEF IsArg
    <2>2. arg.v \in Int /\ 0 =< arg.v /\ arg.v =< MaxUint(64)
        BY <1>1, <1>2, <2>1 DEF UintOf
    <2>3. IsNumber(arg) /\ NumberOf(arg) = Finite(2 * arg.v)
        BY <1>4, KindsAre DEF IsNumber, NumberOf
    <2> QED BY <1>4, <2>2, <2>3, KindsAre
<1>5. CASE arg.kind \in DOMAIN FloatKind
    <2>1. arg.v \in FloatOf[32] \/ arg.v \in FloatOf[64]
        BY <1>5, KindsAre DEF IsArg
    <2>2. IsNumber(arg) /\ NumberOf(arg) = arg.v
        BY <1>5, KindsAre DEF IsNumber, NumberOf
    <2> QED BY <1>5, <2>1, <2>2, KindsAre, NarrowIsWide
<1>6. CASE arg.kind \notin NumberKind
    <2>1. ASSUME arg.kind \in StringKind
          PROVE  (IsNumber(arg) <=> IsNumeral(arg.v)) /\ NumberOf(arg) = arg.v[2].f
        <3>1. arg.kind \notin DOMAIN FloatKind
            BY <1>6 DEF NumberKind
        <3>2. NumberOf(arg) = arg.v[2].f
            BY <2>1, <3>1 DEF NumberOf
        <3>3. IsNumber(arg) <=> IsNumeral(arg.v)
            BY <1>6, <2>1 DEF IsNumber
        <3> QED BY <3>2, <3>3
    <2>2. arg.kind \notin StringKind => ~IsNumber(arg)
        BY <1>6 DEF IsNumber
    <2> QED BY <1>6, <2>1, <2>2, KindsAre
<1> QED BY <1>3, <1>4, <1>5, <1>6, KindsAre

\* An integer field takes exactly the numbers without fraction that are its own.
LEMMA IntegerIs ==
    ASSUME NEW ft \in DOMAIN IntegerField, NEW arg, IsArg(arg)
    PROVE  convertScalar(ft, arg) = ToInteger(ft, arg)
<1> DEFINE signed == ft \in {"int32", "int64"}
           w == IF ft \in {"int32", "uint32"} THEN 32 ELSE 64
<1>1. w \in Width
    BY DEF Width
<1>2. /\ IntegerField[ft] = IF signed THEN IntOf(w) ELSE UintOf(w)
      /\ convertScalar(ft, arg) = IF signed THEN convertInt(arg, w) ELSE convertUint(arg, w)
      /\ ~signed <=> ft \in {"uint32", "uint64"}
    <2>1. CASE ft = "int32"
        BY <2>1, FieldsAre DEF convertScalar
    <2>2. CASE ft = "int64"
        BY <2>2, FieldsAre DEF convertScalar
    <2>3. CASE ft = "uint32"
        BY <2>3, FieldsAre DEF convertScalar
    <2>4. CASE ft = "uint64"
        BY <2>4, FieldsAre DEF convertScalar
    <2> QED BY <2>1, <2>2, <2>3, <2>4, FieldsAre
<1> HIDE DEF w, signed
<1>3. CASE arg.kind \in DOMAIN IntKind
    <2> DEFINE n == arg.v
    <2>1. n \in Int /\ IsNumber(arg) /\ NumberOf(arg) = Finite(2 * n)
        BY <1>3, NumbersAre
    <2>2. arg.kind \notin StringKind /\ arg.kind \notin DOMAIN UintKind /\ arg.kind \notin DOMAIN FloatKind
        BY <1>3, KindsAre
    <2>3. IsFinite(NumberOf(arg)) /\ n = Trunc(NumberOf(arg)[2])
        BY <2>1, FiniteIs, TruncIs
    <2>4. ToInteger(ft, arg) = When(n \in IntegerField[ft], n)
        BY <2>1, <2>2, <2>3, ToIntegerIs
    <2>5. convertInt(arg, w) = checkInt(n, w) /\ convertUint(arg, w) = checkIntToUint(n, w)
        BY <1>3, <2>2 DEF convertInt, convertUint
    <2> QED BY <1>1, <1>2, <2>1, <2>4, <2>5, ChecksAre
<1>4. CASE arg.kind \in DOMAIN UintKind
    <2> DEFINE n == arg.v
    <2>1. n \in Int /\ n >= 0 /\ IsNumber(arg) /\ NumberOf(arg) = Finite(2 * n)
        BY <1>4, NumbersAre
    <2>2. arg.kind \notin StringKind /\ arg.kind \notin DOMAIN IntKind /\ arg.kind \notin DOMAIN FloatKind
        BY <1>4, KindsAre
    <2>3. IsFinite(NumberOf(arg)) /\ n = Trunc(NumberOf(arg)[2])
        BY <2>1, FiniteIs, TruncIs
    <2>4. ToInteger(ft, arg) = When(n \in IntegerField[ft], n)
        BY <2>1, <2>2, <2>3, ToIntegerIs
    <2>5. convertInt(arg, w) = checkUintToInt(n, w) /\ convertUint(arg, w) = checkUintRange(n, w)
        BY <1>4, <2>2 DEF convertInt, convertUint
    <2> QED BY <1>1, <1>2, <2>1, <2>4, <2>5, ChecksAre
<1>5. CASE arg.kind \in DOMAIN FloatKind
    <2> DEFINE f == arg.v
    <2>1. f \in FloatOf[64] /\ IsNumber(arg) /\ NumberOf(arg) = f
        BY <1>5, NumbersAre
    <2>2. arg.kind \notin StringKind /\ arg.kind \notin DOMAIN IntKind /\ arg.kind \notin DOMAIN UintKind
        BY <1>5, KindsAre
    <2>3. convertInt(arg, w) = checkFloatToInt(f, w) /\ convertUint(arg, w) = checkFloatToUint(f, w)
        BY <1>5, <2>2 DEF convertInt, convertUint
    <2>4. CASE IsFinite(f)
        <3>1. f[2] \in Int
            BY <2>1, <2>4, FloatIs DEF Width
        <3>2. ToInteger(ft, arg) = When(Trunc(f[2]) \in IntegerField[ft], Trunc(f[2]))
            BY <2>1, <2>2, <2>4, ToIntegerIs
        <3> QED BY <1>1, <1>2, <2>3, <2>4, <3>1, <3>2, FloatChecksAre
    <2>5. CASE ~IsFinite(f)
        <3>1. ToInteger(ft, arg) = Mismatch
            BY <2>1, <2>5, ToIntegerIs
        <3>2. checkFloatToInt(f, w) = Mismatch /\ checkFloatToUint(f, w) = Mismatch
            BY <2>5 DEF checkFloatToInt, checkFloatToUint
        <3> QED BY <1>2, <2>3, <3>1, <3>2
    <2> QED BY <2>4, <2>5
<1>6. CASE arg.kind \in StringKind
    <2> DEFINE t == arg.v[2]
               n == t.f[2] \div 2
    <2>1. arg.kind \notin DOMAIN IntKind \cup DOMAIN UintKind \cup DOMAIN FloatKind
        BY <1>6, KindsAre
    <2>2. convertInt(arg, w) = ParseInt(arg.v, w) /\ convertUint(arg, w) = ParseUint(arg.v, w)
        BY <1>6, <2>1 DEF convertInt, convertUint
    <2>3. (IsNumber(arg) <=> IsNumeral(arg.v)) /\ NumberOf(arg) = t.f
        BY <1>6, NumbersAre
    <2>4. IsTextFor(ft, arg.v) <=> t.digits /\ (~signed => t.sign = "")
        BY <1>2 DEF IsTextFor
    <2>5. CASE IsNumeral(arg.v) /\ IsTextFor(ft, arg.v)
        <3>1. /\ IsFinite(t.f) /\ t.f[2] \in Int /\ t.f[2] % 2 = 0
              /\ t.f[2] < 0 => t.sign = "-"
            BY <1>6, <2>4, <2>5 DEF IsArg, IsText
        <3>2. n \in Int /\ n = Trunc(t.f[2]) /\ 2 * n = t.f[2]
            BY <3>1, TruncIs
        <3>3. ToInteger(ft, arg) = When(n \in IntegerField[ft], n)
            BY <2>3, <2>5, <3>1, <3>2, ToIntegerIs
        <3>4. t.sign = "" => n >= 0
            <4>1. t.sign = "" => t.sign # "-"
                OBVIOUS
            <4>2. ~(t.f[2] < 0) => t.f[2] >= 0
                BY <3>1
            <4>3. t.sign = "" => t.f[2] >= 0
                BY <3>1, <4>1, <4>2
            <4> HIDE DEF n
            <4>4. 2 * n >= 0 => n >= 0
                BY <3>2
            <4> QED BY <3>2, <4>3, <4>4
        <3>5. CASE signed
            <4>1. ParseInt(arg.v, w) = checkInt(n, w)
                BY <2>4, <2>5 DEF ParseInt
            <4> HIDE DEF n
            <4> QED BY <1>1, <1>2, <2>2, <3>2, <3>3, <3>5, <4>1, ChecksAre
        <3>6. CASE ~signed
            <4>1. ParseUint(arg.v, w) = checkUintRange(n, w) /\ t.sign = ""
                BY <2>4, <2>5, <3>6 DEF ParseUint
            <4> HIDE DEF n
            <4> QED BY <1>1, <1>2, <2>2, <3>2, <3>3, <3>4, <3>6, <4>1, ChecksAre
        <3> QED BY <3>5, <3>6
    <2>6. CASE ~(IsNumeral(arg.v) /\ IsTextFor(ft, arg.v))
        <3>1. ToInteger(ft, arg) = Mismatch
            BY <1>6, <2>3, <2>6, ToIntegerIs
        <3>2. (signed => ParseInt(arg.v, w) = Mismatch) /\ (~signed => ParseUint(arg.v, w) = Mismatch)
            BY <2>4, <2>6 DEF ParseInt, ParseUint
        <3> QED BY <1>2, <2>2, <3>1, <3>2
    <2> QED BY <2>5, <2>6
<1>7. CASE arg.kind \notin NumberKind \cup StringKind
    <2>1. ToInteger(ft, arg) = Mismatch
        BY <1>7, NumbersAre, ToIntegerIs
    <2>2. arg.kind \notin DOMAIN IntKind \cup DOMAIN UintKind \cup DOMAIN FloatKind /\ arg.kind \notin StringKind
        BY <1>7 DEF NumberKind
    <2>3. convertInt(arg, w) = Mismatch /\ convertUint(arg, w) = Mismatch
        BY <2>2 DEF convertInt, convertUint
    <2> QED BY <1>2, <2>1, <2>3
<1> QED BY <1>3, <1>4, <1>5, <1>6, <1>7 DEF NumberKind

-----------------------------------------------------------------------------
(* The conversion of numbers to floats, and of texts back to numbers *)

\* Every number is first rounded to a double, and refused when that makes it infinite.
LEMMA ToDouble ==
    ASSUME NEW arg, IsArg(arg)
    PROVE  LET f == NumberOf(arg) IN
           /\ ~IsNumber(arg) => convertFloat(arg) = Mismatch
           /\ IsNumber(arg) /\ ~IsFinite(f) => convertFloat(arg) = Converted(f)
           /\ IsNumber(arg) /\ IsFinite(f) =>
                /\ f[2] \in Int
                /\ convertFloat(arg) = When(IsFinite(Rounded(f[2], 64)), Rounded(f[2], 64))
<1> DEFINE f == NumberOf(arg)
<1>1. 64 \in Width
    BY DEF Width
<1>2. CASE arg.kind \in DOMAIN IntKind \cup DOMAIN UintKind
    <2>1. /\ IsNumber(arg) /\ f = Finite(2 * arg.v) /\ arg.v \in Int
          /\ -MaxUint(64) =< arg.v /\ arg.v =< MaxUint(64)
        <3>1. MaxUint(64) \in Nat
            BY <1>1, BoundsAre
        <3>2. CASE arg.kind \in DOMAIN IntKind
            BY <3>2, NumbersAre
        <3>3. CASE arg.kind \in DOMAIN UintKind
            <4>1. /\ IsNumber(arg) /\ f = Finite(2 * arg.v) /\ arg.v \in Int
                  /\ 0 =< arg.v /\ arg.v =< MaxUint(64)
                BY <3>3, NumbersAre
            <4> HIDE DEF f
            <4> QED BY <3>1, <4>1
        <3> QED BY <1>2, <3>2, <3>3
    <2>2. 2 * MaxUint(64) =< Largest[64] /\ MaxUint(64) \in Nat /\ Largest[64] \in Nat
        BY <1>1, ConvertAssumption, BoundsAre, LargestIs
    <2>3. 2 * arg.v \in Int /\ Abs(2 * arg.v) =< Largest[64]
        BY <2>1, <2>2 DEF Abs
    <2>4. IsFinite(Rounded(2 * arg.v, 64))
        BY <1>1, <2>3, SmallIsFinite
    <2>5. convertFloat(arg) = Converted(Rounded(2 * arg.v, 64))
        <3>1. arg.kind \notin DOMAIN FloatKind /\ arg.kind \notin StringKind
            BY <1>2, KindsAre
        <3> QED BY <1>2, <3>1 DEF convertFloat
    <2>6. IsFinite(f) /\ f[2] = 2 * arg.v
        BY <2>1, FiniteIs
    <2> QED BY <2>1, <2>3, <2>4, <2>5, <2>6 DEF When
<1>3. CASE arg.kind \in DOMAIN FloatKind
    <2>1. IsNumber(arg) /\ f = arg.v /\ f \in FloatOf[64]
        BY <1>3, NumbersAre
    <2>2. convertFloat(arg) = Converted(f)
        <3>1. arg.kind \notin DOMAIN IntKind \cup DOMAIN UintKind /\ arg.kind \notin StringKind
            BY <1>3, KindsAre
        <3> QED BY <1>3, <2>1, <3>1 DEF convertFloat
    <2>3. ASSUME IsFinite(f)
          PROVE  f[2] \in Int /\ Rounded(f[2], 64) = f
        BY <1>1, <2>1, <2>3, FloatIs
    <2> QED BY <2>1, <2>2, <2>3 DEF When
<1>4. CASE arg.kind \in StringKind
    <2>1. convertFloat(arg) = ParseFloat(arg.v)
        <3>1. arg.kind \notin DOMAIN IntKind \cup DOMAIN UintKind /\ arg.kind \notin DOMAIN FloatKind
            BY <1>4, KindsAre
        <3> QED BY <1>4, <3>1 DEF convertFloat
    <2>2. (IsNumber(arg) <=> IsNumeral(arg.v)) /\ f = arg.v[2].f
        BY <1>4, NumbersAre
    <2>3. IsNumeral(arg.v) /\ IsFinite(f) => f[2] \in Int
        BY <1>4, <2>2 DEF IsArg, IsText
    <2> QED BY <2>1, <2>2, <2>3 DEF ParseFloat
<1>5. CASE arg.kind \notin NumberKind \cup StringKind
    <2>1. ~IsNumber(arg)
        BY <1>5, NumbersAre
    <2>2. convertFloat(arg) = Mismatch
        BY <1>5 DEF NumberKind, convertFloat
    <2> QED BY <2>1, <2>2
<1> QED BY <1>2, <1>3, <1>4, <1>5 DEF NumberKind

LEMMA ResultsAre ==
    /\ \A v : Converted(v).err = "nil" /\ Converted(v).v = v
    /\ Mismatch.err = "ErrTypeMismatch"
BY DEF Converted, Mismatch

\* A float field takes what it should.
LEMMA FloatConverted ==
    ASSUME NEW ft \in DOMAIN FloatField, NEW arg, IsArg(arg)
    PROVE  ToFloat(ft, arg, convertScalar(ft, arg))
<1> DEFINE f == NumberOf(arg)
           c == convertFloat(arg)
           h == f[2]
<1>1. 32 \in Width /\ 64 \in Width
    BY DEF Width
<1>2. /\ ~IsNumber(arg) => c = Mismatch
      /\ IsNumber(arg) /\ ~IsFinite(f) => c = Converted(f)
      /\ IsNumber(arg) /\ IsFinite(f) => h \in Int /\ c = When(IsFinite(Rounded(h, 64)), Rounded(h, 64))
    BY ToDouble
<1>3. \A w \in Width : Largest[w] \in Nat
    BY LargestIs
<1>4. ASSUME h \in Int
      PROVE  Abs(h) \in Nat
    BY <1>4 DEF Abs
<1> HIDE DEF f, c, h
<1>5. CASE ft = "double"
    <2>1. convertScalar(ft, arg) = c /\ FloatField[ft] = 64
        BY <1>5, FieldsAre DEF convertScalar, c
    <2>2. ASSUME IsNumber(arg), IsFinite(f)
          PROVE  \/ c.err = "nil" /\ IsFinite(Rounded(h, 64)) /\ IsNeighbour(c.v, h, 64)
                 \/ c = Mismatch /\ Abs(h) > Largest[64]
        <3>1. CASE IsFinite(Rounded(h, 64))
            <4>1. c = Converted(Rounded(h, 64))
                BY <1>2, <2>2, <3>1 DEF When
            <4>2. IsNeighbour(Rounded(h, 64), h, 64)
                BY <1>1, <1>2, <2>2, <3>1, RoundedNeighbour
            <4> QED BY <3>1, <4>1, <4>2, ResultsAre
        <3>2. CASE ~IsFinite(Rounded(h, 64))
            <4>1. c = Mismatch
                BY <1>2, <2>2, <3>2 DEF When
            <4>2. ~(Abs(h) =< Largest[64])
                BY <1>1, <1>2, <2>2, <3>2, SmallIsFinite
            <4>3. Abs(h) > Largest[64]
                BY <1>1, <1>2, <1>3, <1>4, <2>2, <4>2
            <4> QED BY <4>1, <4>3
        <3> QED BY <3>1, <3>2
    <2> QED BY <1>2, <2>1, <2>2 DEF ToFloat, f, h
<1>6. CASE ft = "float"
    <2> DEFINE r == IF c.err = "nil" THEN toFloat32(c.v) ELSE c
    <2>1. convertScalar(ft, arg) = r /\ FloatField[ft] = 32
        BY <1>6, FieldsAre DEF convertScalar, c
    <2>2. ~IsNumber(arg) => r = Mismatch
        BY <1>2, ResultsAre
    <2>3. IsNumber(arg) /\ ~IsFinite(f) => r = Converted(f)
        BY <1>2, ResultsAre DEF toFloat32
    <2>4. ASSUME IsNumber(arg), IsFinite(f)
          PROVE  \/ r.err = "nil" /\ IsFinite(Rounded(h, 32)) /\ IsNeighbour(r.v, h, 32)
                 \/ r = Mismatch /\ Abs(h) > Largest[32]
        <3> DEFINE g == Rounded(h, 64)
                   k == Rounded(g[2], 32)
        <3>1. CASE IsFinite(g) /\ IsFinite(k)
            <4>1. c = Converted(g)
                BY <1>2, <2>4, <3>1 DEF When
            <4>2. r = Converted(k)
                BY <3>1, <4>1, ResultsAre DEF toFloat32, When
            <4>3. IsFinite(Rounded(h, 32)) /\ IsNeighbour(k, h, 32)
                BY <1>2, <2>4, <3>1, TwiceNeighbour
            <4> HIDE DEF g, k, r
            <4> QED BY <4>2, <4>3, ResultsAre
        <3>2. CASE ~IsFinite(g)
            <4>1. c = Mismatch
                BY <1>2, <2>4, <3>2 DEF When
            <4>2. r = Mismatch
                BY <4>1, ResultsAre
            <4>3. ~(Abs(h) =< Largest[32])
                BY <1>2, <2>4, <3>2, SmallIsFiniteTwice
            <4>4. Abs(h) > Largest[32]
                BY <1>1, <1>2, <1>3, <1>4, <2>4, <4>3
            <4> QED BY <4>2, <4>4
        <3>3. CASE IsFinite(g) /\ ~IsFinite(k)
            <4>1. c = Converted(g)
                BY <1>2, <2>4, <3>3 DEF When
            <4>2. r = Mismatch
                BY <3>3, <4>1, ResultsAre DEF toFloat32, When
            <4>3. ~(Abs(h) =< Largest[32])
                BY <1>2, <2>4, <3>3, SmallIsFiniteTwice
            <4>4. Abs(h) > Largest[32]
                BY <1>1, <1>2, <1>3, <1>4, <2>4, <4>3
            <4> QED BY <4>2, <4>4
        <3> QED BY <3>1, <3>2, <3>3
    <2> HIDE DEF r
    <2> QED BY <2>1, <2>2, <2>3, <2>4 DEF ToFloat, f, h
<1> QED BY <1>5, <1>6, FieldsAre

-----------------------------------------------------------------------------
(* Configurations *)

\* The fields of messages by how deep these are in each other.
RawLevel(g, d) == Seq(RawField(IF d = 0 THEN {} ELSE g[d - 1]))

LEMMA RawFieldsAre ==
    \A d \in 0..Depth : RawFields[d] = RawLevel(RawFields, d)
<1> DEFINE P(f, n) == f = [d \in 0 .. n |-> RawLevel(f, d)]
<1> DEFINE S == {n \in Nat : \E f : P(f, n)}
<1>1. 0 \in S
    <2>1. \A f, g : RawLevel(f, 0) = RawLevel(g, 0)
        BY DEF RawLevel
    <2>2. P([d \in 0 .. 0 |-> RawLevel(<<>>, 0)], 0)
        <3> DEFINE f == [d \in 0 .. 0 |-> RawLevel(<<>>, 0)]
        <3>1. \A d \in 0 .. 0 : RawLevel(<<>>, 0) = RawLevel(f, d)
            BY <2>1
        <3> QED BY <3>1
    <2> HIDE DEF P
    <2> QED BY <2>2
<1>2. ASSUME NEW n \in Nat, n \in S
      PROVE  n + 1 \in S
    <2>1. PICK f : P(f, n)
        BY <1>2
    <2> DEFINE g == [d \in 0 .. n + 1 |-> IF d = n + 1 THEN RawLevel(f, n + 1) ELSE f[d]]
    <2>2. ASSUME NEW d \in 0 .. n + 1
          PROVE  g[d] = RawLevel(g, d)
        <3>1. d # 0 => d - 1 \in 0 .. n + 1 /\ d - 1 # n + 1
            OBVIOUS
        <3>2. RawLevel(g, d) = RawLevel(f, d)
            BY <3>1 DEF RawLevel
        <3>3. CASE d = n + 1
            BY <3>2, <3>3
        <3>4. CASE d # n + 1
            <4>1. d \in 0 .. n
                BY <3>4
            <4> HIDE DEF P
            <4>2. f[d] = RawLevel(f, d)
                BY <2>1, <4>1 DEF P
            <4> QED BY <3>2, <3>4, <4>2
        <3> QED BY <3>3, <3>4
    <2>3. P(g, n + 1)
        BY <2>2
    <2> HIDE DEF P, g
    <2> QED BY <2>3
<1> HIDE DEF P, S
<1>3. Depth \in Nat /\ Nat \subseteq S
    BY <1>1, <1>2, NatSetInduction, SchemaParserAssumption
<1>4. \E f : P(f, Depth)
    BY <1>3 DEF S
<1>5. RawFields = CHOOSE f : P(f, Depth)
    BY DEF P, RawFields, RawLevel
<1>6. P(RawFields, Depth)
    BY <1>4, <1>5, Zenon
<1> QED BY <1>6, Zenon DEF P

\* The schemas of messages by how deep these are in each other.
BuiltLevel(g, d) ==
    [typeID \in Int |-> [rawFields \in RawFields[d] |->
        messageSchema(IF d = 0 THEN <<>> ELSE g[d - 1], typeID, rawFields)]]

LEMMA BuiltIs ==
    \A d \in 0..Depth : built[d] = BuiltLevel(built, d)
<1> DEFINE P(f, n) == f = [d \in 0 .. n |-> BuiltLevel(f, d)]
<1> DEFINE S == {n \in Nat : \E f : P(f, n)}
<1>1. 0 \in S
    <2>1. \A f, g : BuiltLevel(f, 0) = BuiltLevel(g, 0)
        BY DEF BuiltLevel
    <2>2. P([d \in 0 .. 0 |-> BuiltLevel(<<>>, 0)], 0)
        <3> DEFINE f == [d \in 0 .. 0 |-> BuiltLevel(<<>>, 0)]
        <3>1. \A d \in 0 .. 0 : BuiltLevel(<<>>, 0) = BuiltLevel(f, d)
            BY <2>1
        <3> QED BY <3>1
    <2> HIDE DEF P
    <2> QED BY <2>2
<1>2. ASSUME NEW n \in Nat, n \in S
      PROVE  n + 1 \in S
    <2>1. PICK f : P(f, n)
        BY <1>2
    <2> DEFINE g == [d \in 0 .. n + 1 |-> IF d = n + 1 THEN BuiltLevel(f, n + 1) ELSE f[d]]
    <2>2. ASSUME NEW d \in 0 .. n + 1
          PROVE  g[d] = BuiltLevel(g, d)
        <3>1. d # 0 => d - 1 \in 0 .. n + 1 /\ d - 1 # n + 1
            OBVIOUS
        <3>2. BuiltLevel(g, d) = BuiltLevel(f, d)
            BY <3>1 DEF BuiltLevel
        <3>3. CASE d = n + 1
            BY <3>2, <3>3
        <3>4. CASE d # n + 1
            <4>1. d \in 0 .. n
                BY <3>4
            <4> HIDE DEF P
            <4>2. f[d] = BuiltLevel(f, d)
                BY <2>1, <4>1 DEF P
            <4> QED BY <3>2, <3>4, <4>2
        <3> QED BY <3>3, <3>4
    <2>3. P(g, n + 1)
        BY <2>2
    <2> HIDE DEF P, g
    <2> QED BY <2>3
<1> HIDE DEF P, S
<1>3. Depth \in Nat /\ Nat \subseteq S
    BY <1>1, <1>2, NatSetInduction, SchemaParserAssumption
<1>4. \E f : P(f, Depth)
    BY <1>3 DEF S
<1>5. built = CHOOSE f : P(f, Depth)
    BY DEF P, built, BuiltLevel
<1>6. P(built, Depth)
    BY <1>4, <1>5, Zenon
<1> QED BY <1>6, Zenon DEF P

LEMMA BuiltAt ==
    ASSUME NEW d \in 0..Depth, NEW id \in Int, NEW fs \in RawFields[d]
    PROVE  built[d][id][fs] = messageSchema(IF d = 0 THEN <<>> ELSE built[d - 1], id, fs)
<1>1. built[d] = BuiltLevel(built, d)
    BY BuiltIs
<1> DEFINE F(i, x) == messageSchema(IF d = 0 THEN <<>> ELSE built[d - 1], i, x)
<1>2. BuiltLevel(built, d) = [i \in Int |-> [x \in RawFields[d] |-> F(i, x)]]
    BY Zenon DEF BuiltLevel
<1> HIDE DEF F
<1>3. BuiltLevel(built, d)[id][fs] = F(id, fs)
    BY <1>2
<1> QED BY <1>1, <1>3 DEF F

\* What should be a message, by how deep messages are in each other.
MessageLevel(g, d) ==
    [fields \in RawFields[d] |-> IsMessage(IF d = 0 THEN <<>> ELSE g[d - 1], fields)]

LEMMA IsMessageIs ==
    ASSUME NEW d \in 0..Depth, NEW fs \in RawFields[d]
    PROVE  isMessage[d][fs] = IsMessage(IF d = 0 THEN <<>> ELSE isMessage[d - 1], fs)
<1> DEFINE P(f, n) == f = [k \in 0 .. n |-> MessageLevel(f, k)]
<1> DEFINE S == {n \in Nat : \E f : P(f, n)}
<1>1. 0 \in S
    <2>1. \A f, g : MessageLevel(f, 0) = MessageLevel(g, 0)
        BY DEF MessageLevel
    <2>2. P([k \in 0 .. 0 |-> MessageLevel(<<>>, 0)], 0)
        <3> DEFINE f == [k \in 0 .. 0 |-> MessageLevel(<<>>, 0)]
        <3>1. \A k \in 0 .. 0 : MessageLevel(<<>>, 0) = MessageLevel(f, k)
            BY <2>1
        <3> QED BY <3>1
    <2> HIDE DEF P
    <2> QED BY <2>2
<1>2. ASSUME NEW n \in Nat, n \in S
      PROVE  n + 1 \in S
    <2>1. PICK f : P(f, n)
        BY <1>2
    <2> DEFINE g == [k \in 0 .. n + 1 |-> IF k = n + 1 THEN MessageLevel(f, n + 1) ELSE f[k]]
    <2>2. ASSUME NEW k \in 0 .. n + 1
          PROVE  g[k] = MessageLevel(g, k)
        <3>1. k # 0 => k - 1 \in 0 .. n + 1 /\ k - 1 # n + 1
            OBVIOUS
        <3>2. MessageLevel(g, k) = MessageLevel(f, k)
            BY <3>1 DEF MessageLevel
        <3>3. CASE k = n + 1
            BY <3>2, <3>3
        <3>4. CASE k # n + 1
            <4>1. k \in 0 .. n
                BY <3>4
            <4> HIDE DEF P
            <4>2. f[k] = MessageLevel(f, k)
                BY <2>1, <4>1 DEF P
            <4> QED BY <3>2, <3>4, <4>2
        <3> QED BY <3>3, <3>4
    <2>3. P(g, n + 1)
        BY <2>2
    <2> HIDE DEF P, g
    <2> QED BY <2>3
<1> HIDE DEF P, S
<1>3. Depth \in Nat /\ Nat \subseteq S
    BY <1>1, <1>2, NatSetInduction, SchemaParserAssumption
<1>4. \E f : P(f, Depth)
    BY <1>3 DEF S
<1>5. isMessage = CHOOSE f : P(f, Depth)
    BY DEF P, isMessage, MessageLevel
<1>6. P(isMessage, Depth)
    BY <1>4, <1>5, Zenon
<1>7. isMessage[d] = MessageLevel(isMessage, d)
    BY <1>6, Zenon DEF P
<1> DEFINE F(x) == IsMessage(IF d = 0 THEN <<>> ELSE isMessage[d - 1], x)
<1>8. MessageLevel(isMessage, d) = [x \in RawFields[d] |-> F(x)]
    BY Zenon DEF MessageLevel
<1> HIDE DEF F
<1>9. MessageLevel(isMessage, d)[fs] = F(fs)
    BY <1>8
<1> QED BY <1>7, <1>9 DEF F

\* The loop over the fields of a message.
FieldStep(f, i, inner, rawFields) ==
    IF i = 0 THEN Ok(NoFields)
    ELSE IF f[i - 1].err # "nil" \/ ~IsNewField(f[i - 1].v, rawFields[i]) \/ nested(inner, rawFields[i]).err # "nil"
         THEN Malformed
         ELSE Ok(AddField(f[i - 1].v, fieldSchema(inner, rawFields[i])))

LoopResult(typeID, all) ==
    IF all.err # "nil" THEN Malformed
    ELSE Ok([typeID |-> typeID, fields |-> all.v.fields, byName |-> all.v.byName, byNum |-> all.v.byNum])

LEMMA FieldLoop ==
    ASSUME NEW inner, NEW typeID, NEW rawFields, Len(rawFields) \in Nat
    PROVE  \E f : /\ \A i \in 0..Len(rawFields) : f[i] = FieldStep(f, i, inner, rawFields)
                  /\ messageSchema(inner, typeID, rawFields) = LoopResult(typeID, f[Len(rawFields)])
<1> DEFINE E(f, i) == FieldStep(f, i, inner, rawFields)
           P(f, n) == f = [i \in 0 .. n |-> E(f, i)]
           S == {n \in Nat : \E f : P(f, n)}
<1>1. 0 \in S
    <2>1. \A f, g : E(f, 0) = E(g, 0)
        BY DEF FieldStep
    <2> HIDE DEF E
    <2>2. P([i \in 0 .. 0 |-> E(<<>>, 0)], 0)
        <3> DEFINE f == [i \in 0 .. 0 |-> E(<<>>, 0)]
        <3>1. \A i \in 0 .. 0 : E(<<>>, 0) = E(f, i)
            BY <2>1
        <3> QED BY <3>1
    <2> HIDE DEF P
    <2> QED BY <2>2
<1>2. ASSUME NEW n \in Nat, n \in S
      PROVE  n + 1 \in S
    <2>1. PICK f : P(f, n)
        BY <1>2
    <2> DEFINE g == [i \in 0 .. n + 1 |-> IF i = n + 1 THEN E(f, n + 1) ELSE f[i]]
    <2>2. ASSUME NEW i \in 0 .. n + 1
          PROVE  g[i] = E(g, i)
        <3>1. i # 0 => i - 1 \in 0 .. n + 1 /\ i - 1 # n + 1
            OBVIOUS
        <3>2. i # 0 => g[i - 1] = f[i - 1]
            BY <3>1
        <3>3. E(g, i) = E(f, i)
            <4> HIDE DEF g
            <4> QED BY <3>2 DEF FieldStep
        <3> HIDE DEF E
        <3>4. CASE i = n + 1
            BY <3>3, <3>4
        <3>5. CASE i # n + 1
            <4>1. i \in 0 .. n
                BY <3>5
            <4> HIDE DEF P
            <4>2. f[i] = E(f, i)
                BY <2>1, <4>1 DEF P
            <4> QED BY <3>3, <3>5, <4>2
        <3> QED BY <3>4, <3>5
    <2> HIDE DEF E
    <2>3. P(g, n + 1)
        BY <2>2
    <2> HIDE DEF P, g
    <2> QED BY <2>3
<1> HIDE DEF P, S, E
<1>3. \E f : P(f, Len(rawFields))
    BY <1>1, <1>2, NatSetInduction DEF S
<1> DEFINE up == CHOOSE f : P(f, Len(rawFields))
<1>4. P(up, Len(rawFields))
    BY <1>3
<1>5. messageSchema(inner, typeID, rawFields) = LoopResult(typeID, up[Len(rawFields)])
    BY DEF messageSchema, LoopResult, P, E, FieldStep
<1> HIDE DEF up
<1>6. \A i \in 0..Len(rawFields) : up[i] = E(up, i)
    BY <1>4 DEF P
<1> QED BY <1>5, <1>6 DEF E

\* Field j of a message can be taken, the fields before it given.
RawRight(inner, rf) ==
    /\ rf.name # <<>> /\ \A i \in DOMAIN rf.name : rf.name[i] \notin Special
    /\ rf.type \in FieldType /\ rf.num \in 1..MaxNum /\ nested(inner, rf).err = "nil"
RightUpTo(inner, rawFields, i) == \A j \in 1..i :
    /\ RawRight(inner, rawFields[j])
    /\ \A k \in 1..(j - 1) : rawFields[k].name # rawFields[j].name /\ rawFields[k].num # rawFields[j].num

\* The first i fields are done.
DoneUpTo(inner, rawFields, i, v) ==
    /\ IsList(v.fields) /\ Len(v.fields) = i
    /\ \A j \in 1..i : v.fields[j] = fieldSchema(inner, rawFields[j])
    /\ DOMAIN v.byName = {rawFields[j].name : j \in 1..i}
    /\ DOMAIN v.byNum = {rawFields[j].num : j \in 1..i}
    /\ \A j \in 1..i : v.byName[rawFields[j].name] = j /\ v.byNum[rawFields[j].num] = j

LEMMA OkIs ==
    /\ \A v : Ok(v).err = "nil" /\ Ok(v).v = v
    /\ Malformed.err = "ErrMalformedData"
BY DEF Ok, Malformed

LEMMA FieldAdded ==
    ASSUME NEW inner, NEW rawFields, NEW i \in Nat, NEW v, DoneUpTo(inner, rawFields, i, v),
           rawFields[i + 1].name \notin DOMAIN v.byName, rawFields[i + 1].num \notin DOMAIN v.byNum
    PROVE  DoneUpTo(inner, rawFields, i + 1, AddField(v, fieldSchema(inner, rawFields[i + 1])))
<1> DEFINE rf == rawFields[i + 1]
           fs == fieldSchema(inner, rf)
           w == AddField(v, fs)
<1>1. fs.name = rf.name /\ fs.num = rf.num
    BY DEF fieldSchema
<1>2. IsList(v.fields) /\ Len(v.fields) = i
    BY DEF DoneUpTo
<1> HIDE DEF fs
<1>3. /\ w.fields = Append(v.fields, fs) /\ w.byName = With(v.byName, rf.name, i + 1)
      /\ w.byNum = With(v.byNum, rf.num, i + 1)
    BY <1>1, <1>2 DEF AddField
<1> HIDE DEF w
<1>4. /\ IsList(w.fields) /\ Len(w.fields) = i + 1 /\ w.fields[i + 1] = fs
      /\ \A k \in 1..i : w.fields[k] = v.fields[k]
    BY <1>2, <1>3, AppendToList
<1>5. \A j \in 1..(i + 1) : j \in 1..i \/ j = i + 1
    OBVIOUS
<1>6. \A j \in 1..i : j \in 1..(i + 1)
    OBVIOUS
<1>7. i + 1 \in 1..(i + 1)
    OBVIOUS
<1>8. /\ \A j \in 1..i : v.fields[j] = fieldSchema(inner, rawFields[j])
      /\ DOMAIN v.byName = {rawFields[j].name : j \in 1..i}
      /\ DOMAIN v.byNum = {rawFields[j].num : j \in 1..i}
      /\ \A j \in 1..i : v.byName[rawFields[j].name] = j /\ v.byNum[rawFields[j].num] = j
    BY DEF DoneUpTo
<1>9. \A j \in 1..(i + 1) : w.fields[j] = fieldSchema(inner, rawFields[j])
    BY <1>4, <1>5, <1>8 DEF fs
<1>10. DOMAIN w.byName = DOMAIN v.byName \cup {rf.name} /\ DOMAIN w.byNum = DOMAIN v.byNum \cup {rf.num}
    BY <1>3 DEF With
<1>11. /\ DOMAIN w.byName = {rawFields[j].name : j \in 1..(i + 1)}
       /\ DOMAIN w.byNum = {rawFields[j].num : j \in 1..(i + 1)}
    BY <1>5, <1>6, <1>7, <1>8, <1>10
<1>12. /\ w.byName[rf.name] = i + 1 /\ w.byNum[rf.num] = i + 1
       /\ \A n \in DOMAIN v.byName : n # rf.name => w.byName[n] = v.byName[n]
       /\ \A n \in DOMAIN v.byNum : n # rf.num => w.byNum[n] = v.byNum[n]
    BY <1>3 DEF With
<1>13. \A j \in 1..i : /\ rawFields[j].name \in DOMAIN v.byName /\ rawFields[j].name # rf.name
                       /\ rawFields[j].num \in DOMAIN v.byNum /\ rawFields[j].num # rf.num
    BY <1>8
<1>14. \A j \in 1..(i + 1) : w.byName[rawFields[j].name] = j /\ w.byNum[rawFields[j].num] = j
    BY <1>5, <1>8, <1>12, <1>13
<1> QED BY <1>4, <1>9, <1>11, <1>14 DEF DoneUpTo, w, fs

LEMMA SchemaIs ==
    ASSUME NEW inner, NEW typeID, NEW rawFields, IsList(rawFields)
    PROVE  LET r == messageSchema(inner, typeID, rawFields)
           IN  /\ r.err = "nil" <=> RightUpTo(inner, rawFields, Len(rawFields))
               /\ r.err \in {"nil", "ErrMalformedData"}
               /\ r.err = "nil" => /\ r = Ok(r.v) /\ r.v.typeID = typeID
                                   /\ DoneUpTo(inner, rawFields, Len(rawFields), r.v)
<1> DEFINE n == Len(rawFields)
<1>1. n \in Nat
    BY ListLen
<1>2. PICK f : /\ \A i \in 0..n : f[i] = FieldStep(f, i, inner, rawFields)
               /\ messageSchema(inner, typeID, rawFields) = LoopResult(typeID, f[n])
    BY <1>1, FieldLoop
<1> HIDE DEF n
<1> DEFINE I(i) == /\ f[i].err \in {"nil", "ErrMalformedData"}
                   /\ f[i].err = "nil" <=> RightUpTo(inner, rawFields, i)
                   /\ f[i].err = "nil" => DoneUpTo(inner, rawFields, i, f[i].v)
           S == {i \in Nat : i =< n => I(i)}
<1>3. 0 \in S
    <2>1. f[0] = Ok(NoFields)
        BY <1>1, <1>2 DEF FieldStep
    <2>2. f[0].err = "nil" /\ f[0].v = NoFields
        BY <2>1, OkIs
    <2>3. RightUpTo(inner, rawFields, 0)
        BY DEF RightUpTo
    <2>4. DoneUpTo(inner, rawFields, 0, NoFields)
        <3>1. IsList(<<>>) /\ Len(<<>>) = 0 /\ DOMAIN <<>> = {}
            BY DEF IsList
        <3>2. NoFields.fields = <<>> /\ NoFields.byName = <<>> /\ NoFields.byNum = <<>>
            BY DEF NoFields
        <3>3. \A j \in 1..0 : FALSE
            OBVIOUS
        <3> QED BY <3>1, <3>2, <3>3 DEF DoneUpTo
    <2>5. I(0)
        BY <2>2, <2>3, <2>4
    <2> HIDE DEF I
    <2> QED BY <2>5
<1>4. ASSUME NEW i \in Nat, i \in S
      PROVE  i + 1 \in S
    <2> SUFFICES ASSUME i + 1 =< n PROVE I(i + 1)
        BY DEF S
    <2>1. I(i) /\ i + 1 \in 0..n /\ i + 1 # 0 /\ (i + 1) - 1 = i
        <3> HIDE DEF I
        <3> QED BY <1>1, <1>4
    <2> DEFINE rf == rawFields[i + 1]
               v == f[i].v
    <2>2. f[i + 1] = IF f[i].err # "nil" \/ ~IsNewField(v, rf) \/ nested(inner, rf).err # "nil" THEN Malformed
                     ELSE Ok(AddField(v, fieldSchema(inner, rf)))
        BY <1>2, <2>1 DEF FieldStep
    <2>3. RightUpTo(inner, rawFields, i + 1) <=>
            /\ RightUpTo(inner, rawFields, i) /\ RawRight(inner, rf)
            /\ \A k \in 1..i : rawFields[k].name # rf.name /\ rawFields[k].num # rf.num
        <3>1. \A j \in 1..(i + 1) : j \in 1..i \/ j = i + 1
            OBVIOUS
        <3>2. (\A j \in 1..i : j \in 1..(i + 1)) /\ i + 1 \in 1..(i + 1)
            OBVIOUS
        <3> DEFINE R(j) == /\ RawRight(inner, rawFields[j])
                           /\ \A k \in 1..(j - 1) : /\ rawFields[k].name # rawFields[j].name
                                                    /\ rawFields[k].num # rawFields[j].num
        <3>3. \A m : RightUpTo(inner, rawFields, m) <=> \A j \in 1..m : R(j)
            BY DEF RightUpTo
        <3>4. R(i + 1) <=> RawRight(inner, rf) /\ \A k \in 1..i : rawFields[k].name # rf.name /\ rawFields[k].num # rf.num
            BY <2>1
        <3> HIDE DEF R
        <3> QED BY <3>1, <3>2, <3>3, <3>4
    <2>4. CASE f[i].err # "nil"
        BY <2>1, <2>2, <2>3, <2>4, OkIs
    <2>5. CASE f[i].err = "nil"
        <3>1. DoneUpTo(inner, rawFields, i, v) /\ RightUpTo(inner, rawFields, i)
            BY <2>1, <2>5
        <3>2. IsNewField(v, rf) /\ nested(inner, rf).err = "nil" <=>
                /\ RawRight(inner, rf)
                /\ rf.name \notin DOMAIN v.byName /\ rf.num \notin DOMAIN v.byNum
            BY DEF IsNewField, RawRight
        <3>3. /\ rf.name \notin DOMAIN v.byName <=> \A k \in 1..i : rawFields[k].name # rf.name
              /\ rf.num \notin DOMAIN v.byNum <=> \A k \in 1..i : rawFields[k].num # rf.num
            BY <3>1 DEF DoneUpTo
        <3>4. IsNewField(v, rf) /\ nested(inner, rf).err = "nil" <=> RightUpTo(inner, rawFields, i + 1)
            BY <2>3, <3>1, <3>2, <3>3
        <3>5. CASE IsNewField(v, rf) /\ nested(inner, rf).err = "nil"
            <4>1. f[i + 1] = Ok(AddField(v, fieldSchema(inner, rf)))
                BY <2>2, <2>5, <3>5
            <4>2. DoneUpTo(inner, rawFields, i + 1, AddField(v, fieldSchema(inner, rf)))
                BY <3>1, <3>2, <3>5, FieldAdded
            <4> HIDE DEF v, rf
            <4> QED BY <3>4, <3>5, <4>1, <4>2, OkIs
        <3>6. CASE ~(IsNewField(v, rf) /\ nested(inner, rf).err = "nil")
            BY <2>2, <3>4, <3>6, OkIs
        <3> QED BY <3>5, <3>6
    <2> QED BY <2>4, <2>5
<1> HIDE DEF I
<1>5. I(n)
    <2>1. Nat \subseteq S
        <3> HIDE DEF S
        <3> QED BY <1>3, <1>4, NatSetInduction
    <2> QED BY <1>1, <2>1
<1>6. CASE f[n].err # "nil"
    BY <1>2, <1>5, <1>6, OkIs DEF LoopResult, I, n
<1>7. CASE f[n].err = "nil"
    <2> DEFINE v == f[n].v
               s == [typeID |-> typeID, fields |-> v.fields, byName |-> v.byName, byNum |-> v.byNum]
    <2>1. messageSchema(inner, typeID, rawFields) = Ok(s)
        BY <1>2, <1>7 DEF LoopResult
    <2>2. s.typeID = typeID /\ s.fields = v.fields /\ s.byName = v.byName /\ s.byNum = v.byNum
        OBVIOUS
    <2>3. DoneUpTo(inner, rawFields, n, v) /\ RightUpTo(inner, rawFields, n)
        BY <1>5, <1>7 DEF I
    <2> HIDE DEF s, v
    <2>4. DoneUpTo(inner, rawFields, n, s)
        BY <2>2, <2>3 DEF DoneUpTo
    <2> QED BY <2>1, <2>2, <2>3, <2>4, OkIs DEF n
<1> QED BY <1>6, <1>7

LEMMA DistinctIs ==
    ASSUME NEW n \in Nat, NEW s, s = [i \in 1..n |-> s[i]]
    PROVE  Distinct(s) <=> \A i, j \in 1..n : s[i] = s[j] => i = j
<1> DEFINE R == Range(s)
<1>1. DOMAIN s = 1..n /\ R = {s[i] : i \in 1..n}
    BY DEF Range
<1>2. s \in [1..n -> R]
    BY <1>1
<1>3. s \in Seq(R)
    BY <1>2, SeqDef
<1>4. Len(s) \in Nat /\ DOMAIN s = 1..Len(s)
    BY <1>3, LenProperties
<1>5. Len(s) = n
    BY <1>1, <1>4
<1>6. s \in Surjection(1..n, R)
    BY <1>1, <1>2 DEF Surjection
<1>7. IsFiniteSet(1..n) /\ Cardinality(1..n) = n
    <2>1. 1 \in Int /\ n \in Int
        OBVIOUS
    <2>2. IsFiniteSet(1..n) /\ Cardinality(1..n) = IF 1 > n THEN 0 ELSE n - 1 + 1
        BY <2>1, FS_Interval
    <2> QED BY <2>2
<1>8. Cardinality(R) = n <=> s \in Injection(1..n, R)
    BY <1>6, <1>7, FS_Surjection
<1>9. s \in Injection(1..n, R) <=> \A i, j \in 1..n : s[i] = s[j] => i = j
    BY <1>2 DEF Injection, IsInjective
<1> QED BY <1>5, <1>8, <1>9 DEF Distinct

\* What is read of a message.
LEMMA RawIs ==
    ASSUME NEW d \in 0..Depth, NEW fs \in RawFields[d]
    PROVE  /\ IsList(fs) /\ Len(fs) \in Nat /\ DOMAIN fs = 1..Len(fs)
           /\ \A j \in 1..Len(fs) :
                /\ fs[j].num \in Int /\ fs[j].name \in Seq(STRING)
                /\ fs[j].schema[1] = "object" => d # 0 /\ fs[j].schema[2] \in RawFields[d - 1]
<1> DEFINE V == IF d = 0 THEN {} ELSE RawFields[d - 1]
<1>1. fs \in Seq(RawField(V))
    BY RawFieldsAre DEF RawLevel
<1> HIDE DEF V
<1>2. IsList(fs) /\ Len(fs) \in Nat /\ DOMAIN fs = 1..Len(fs)
    BY <1>1, ListIs, LenProperties
<1>3. \A j \in 1..Len(fs) : fs[j] \in RawField(V)
    BY <1>1, <1>2, LenProperties
<1>4. ASSUME NEW rf \in RawField(V)
      PROVE  /\ rf.num \in Int /\ rf.name \in Seq(STRING)
             /\ rf.schema[1] = "object" => rf.schema[2] \in V
    <2>1. rf.num \in Int /\ rf.name \in Seq(STRING) /\ rf.schema \in {Absent, NullSchema, Junk} \cup ({"object"} \X V)
        BY DEF RawField
    <2>2. Absent[1] # "object" /\ NullSchema[1] # "object" /\ Junk[1] # "object"
        BY DEF Absent, NullSchema, Junk
    <2> QED BY <2>1, <2>2
<1>5. ASSUME NEW x \in V
      PROVE  d # 0 /\ x \in RawFields[d - 1]
    BY DEF V
<1> QED BY <1>2, <1>3, <1>4, <1>5

\* A message is built exactly when it should be.
LEMMA BuiltWhenRight ==
    ASSUME NEW d \in Nat, d =< Depth
    PROVE  \A fs \in RawFields[d], id \in Int : built[d][id][fs].err = "nil" <=> isMessage[d][fs]
<1> DEFINE T(k) == \A fs \in RawFields[k], id \in Int : built[k][id][fs].err = "nil" <=> isMessage[k][fs]
           S == {k \in Nat : k =< Depth => T(k)}
<1>1. ASSUME NEW k \in Nat, k =< Depth, k # 0 => T(k - 1)
      PROVE  T(k)
    <2> SUFFICES ASSUME NEW fs \in RawFields[k], NEW id \in Int
                 PROVE  built[k][id][fs].err = "nil" <=> isMessage[k][fs]
        OBVIOUS
    <2> DEFINE b == IF k = 0 THEN <<>> ELSE built[k - 1]
               m == IF k = 0 THEN <<>> ELSE isMessage[k - 1]
               n == Len(fs)
    <2>0. Depth \in Nat
        BY SchemaParserAssumption
    <2>1. k \in 0..Depth
        BY <1>1, <2>0
    <2>2. /\ IsList(fs) /\ n \in Nat /\ DOMAIN fs = 1..n
          /\ \A j \in 1..n :
                /\ fs[j].num \in Int
                /\ fs[j].schema[1] = "object" => k # 0 /\ fs[j].schema[2] \in RawFields[k - 1]
        BY <2>1, RawIs
    <2>3. built[k][id][fs] = messageSchema(b, id, fs)
        BY <2>1, BuiltAt
    <2>4. isMessage[k][fs] = IsMessage(m, fs)
        BY <2>1, IsMessageIs
    <2>5. ASSUME NEW j \in 1..n, fs[j].schema[1] = "object"
          PROVE  b[0][fs[j].schema[2]].err = "nil" <=> m[fs[j].schema[2]]
        <3>1. k # 0 /\ fs[j].schema[2] \in RawFields[k - 1] /\ 0 \in Int
            BY <2>2, <2>5
        <3> QED BY <1>1, <3>1
    <2> HIDE DEF b, m, n
    <2>6. built[k][id][fs].err = "nil" <=> RightUpTo(b, fs, n)
        BY <2>2, <2>3, SchemaIs DEF n
    <2> DEFINE R(f) == /\ f.type \in FieldType /\ f.num >= 1 /\ f.num =< MaxNum
                       /\ f.name # <<>> /\ Range(f.name) \cap Special = {}
                       /\ (f.type = "message") = (f.schema # Absent)
                       /\ f.type = "message" => f.schema[1] = "object" /\ m[f.schema[2]]
    <2>7. ASSUME NEW j \in 1..n
          PROVE  RawRight(b, fs[j]) <=> R(fs[j])
        <3> DEFINE f == fs[j]
        <3>1. f.num \in 1..MaxNum <=> f.num >= 1 /\ f.num =< MaxNum
            BY <2>2, SchemaParserAssumption
        <3>2. (\A i \in DOMAIN f.name : f.name[i] \notin Special) <=> Range(f.name) \cap Special = {}
            BY DEF Range
        <3>3. nested(b, f).err = "nil" <=> /\ (f.type = "message") = (f.schema # Absent)
                                           /\ f.type = "message" => f.schema[1] = "object" /\ m[f.schema[2]]
            <4>1. CASE f.type # "message"
                BY <4>1, OkIs DEF nested
            <4>2. CASE f.type = "message" /\ f.schema[1] = "object"
                <5>1. f.schema # Absent
                    BY <4>2 DEF Absent
                <5>2. nested(b, f) = b[0][f.schema[2]]
                    BY <4>2 DEF nested
                <5>3. b[0][f.schema[2]].err = "nil" <=> m[f.schema[2]]
                    BY <2>5, <4>2
                <5> HIDE DEF f
                <5> QED BY <4>2, <5>1, <5>2, <5>3
            <4>3. CASE f.type = "message" /\ f.schema[1] # "object"
                BY <4>3, OkIs DEF nested
            <4> QED BY <4>1, <4>2, <4>3
        <3> HIDE DEF f
        <3> QED BY <3>1, <3>2, <3>3 DEF RawRight, f
    <2> DEFINE names == [i \in DOMAIN fs |-> fs[i].name]
               nums == [i \in DOMAIN fs |-> fs[i].num]
    <2>8. /\ Distinct(names) <=> \A i, j \in 1..n : fs[i].name = fs[j].name => i = j
          /\ Distinct(nums) <=> \A i, j \in 1..n : fs[i].num = fs[j].num => i = j
        <3>1. names = [i \in 1..n |-> names[i]] /\ nums = [i \in 1..n |-> nums[i]]
            BY <2>2
        <3>2. \A i \in 1..n : names[i] = fs[i].name /\ nums[i] = fs[i].num
            BY <2>2
        <3> HIDE DEF names, nums
        <3>3. /\ Distinct(names) <=> \A i, j \in 1..n : names[i] = names[j] => i = j
              /\ Distinct(nums) <=> \A i, j \in 1..n : nums[i] = nums[j] => i = j
            BY <2>2, <3>1, DistinctIs
        <3> QED BY <3>2, <3>3
    <2>9. IsMessage(m, fs) <=> Distinct(names) /\ Distinct(nums) /\ \A j \in 1..n : R(fs[j])
        <3>1. IsMessage(m, fs) <=> Distinct(names) /\ Distinct(nums) /\ \A f \in Range(fs) : R(f)
            BY Zenon DEF IsMessage
        <3> HIDE DEF R, names, nums
        <3>2. (\A f \in Range(fs) : R(f)) <=> \A j \in 1..n : R(fs[j])
            BY <2>2 DEF Range
        <3> QED BY <3>1, <3>2
    <2> HIDE DEF R, names, nums
    <2>10. RightUpTo(b, fs, n) <=> /\ \A j \in 1..n : RawRight(b, fs[j])
                                   /\ \A i, j \in 1..n : fs[i].name = fs[j].name => i = j
                                   /\ \A i, j \in 1..n : fs[i].num = fs[j].num => i = j
        <3>1. ASSUME RightUpTo(b, fs, n), NEW i \in 1..n, NEW j \in 1..n,
                     fs[i].name = fs[j].name \/ fs[i].num = fs[j].num
              PROVE  i = j
            <4>1. i =< j - 1 => i \in 1..(j - 1)
                OBVIOUS
            <4>2. j =< i - 1 => j \in 1..(i - 1)
                OBVIOUS
            <4>3. ~(i =< j - 1) /\ ~(j =< i - 1)
                BY <3>1, <4>1, <4>2 DEF RightUpTo
            <4> QED BY <4>3
        <3>2. ASSUME \A j \in 1..n : RawRight(b, fs[j]),
                     \A i, j \in 1..n : fs[i].name = fs[j].name => i = j,
                     \A i, j \in 1..n : fs[i].num = fs[j].num => i = j
              PROVE  RightUpTo(b, fs, n)
            <4>1. \A j \in 1..n : \A i \in 1..(j - 1) : i \in 1..n /\ i # j
                BY <2>2
            <4> QED BY <3>2, <4>1 DEF RightUpTo
        <3>3. RightUpTo(b, fs, n) => \A j \in 1..n : RawRight(b, fs[j])
            BY DEF RightUpTo
        <3> QED BY <3>1, <3>2, <3>3
    <2> QED BY <2>4, <2>6, <2>7, <2>8, <2>9, <2>10
<1>2. 0 \in S
    <2>1. 0 =< Depth => T(0)
        BY <1>1
    <2> HIDE DEF T
    <2> QED BY <2>1
<1>3. ASSUME NEW k \in Nat, k \in S
      PROVE  k + 1 \in S
    <2> HIDE DEF T
    <2>1. k + 1 =< Depth => k =< Depth
        BY SchemaParserAssumption
    <2>2. (k + 1) - 1 = k /\ k + 1 \in Nat
        OBVIOUS
    <2> QED BY <1>1, <1>3, <2>1, <2>2
<1>4. Nat \subseteq S
    <2> HIDE DEF S
    <2> QED BY <1>2, <1>3, NatSetInduction
<1> QED BY <1>4

-----------------------------------------------------------------------------
(* What is built can be relied on *)

\* The schemas in a schema, level by level.
SchemaLevel(f, schema, k) == IF k = 0 THEN {schema} ELSE UNION {Inner(s) : s \in f[k - 1]}

LEMMA SchemasAre ==
    ASSUME NEW schema
    PROVE  \E f : /\ \A k \in 0..Depth : f[k] = SchemaLevel(f, schema, k)
                  /\ SchemasIn(schema) = UNION {f[k] : k \in 0..Depth}
<1> DEFINE E(f, i) == SchemaLevel(f, schema, i)
           P(f, n) == f = [i \in 0 .. n |-> E(f, i)]
           S == {n \in Nat : \E f : P(f, n)}
<1>1. 0 \in S
    <2>1. \A f, g : E(f, 0) = E(g, 0)
        BY DEF SchemaLevel
    <2> HIDE DEF E
    <2>2. P([i \in 0 .. 0 |-> E(<<>>, 0)], 0)
        <3> DEFINE f == [i \in 0 .. 0 |-> E(<<>>, 0)]
        <3>1. \A i \in 0 .. 0 : E(<<>>, 0) = E(f, i)
            BY <2>1
        <3> QED BY <3>1
    <2> HIDE DEF P
    <2> QED BY <2>2
<1>2. ASSUME NEW n \in Nat, n \in S
      PROVE  n + 1 \in S
    <2>1. PICK f : P(f, n)
        BY <1>2
    <2> DEFINE g == [i \in 0 .. n + 1 |-> IF i = n + 1 THEN E(f, n + 1) ELSE f[i]]
    <2>2. ASSUME NEW i \in 0 .. n + 1
          PROVE  g[i] = E(g, i)
        <3>1. i # 0 => i - 1 \in 0 .. n + 1 /\ i - 1 # n + 1
            OBVIOUS
        <3>2. i # 0 => g[i - 1] = f[i - 1]
            BY <3>1
        <3>3. E(g, i) = E(f, i)
            <4> HIDE DEF g
            <4> QED BY <3>2 DEF SchemaLevel
        <3> HIDE DEF E
        <3>4. CASE i = n + 1
            BY <3>3, <3>4
        <3>5. CASE i # n + 1
            <4>1. i \in 0 .. n
                BY <3>5
            <4> HIDE DEF P
            <4>2. f[i] = E(f, i)
                BY <2>1, <4>1 DEF P
            <4> QED BY <3>3, <3>5, <4>2
        <3> QED BY <3>4, <3>5
    <2> HIDE DEF E
    <2>3. P(g, n + 1)
        BY <2>2
    <2> HIDE DEF P, g
    <2> QED BY <2>3
<1> HIDE DEF P, S, E
<1>3. \E f : P(f, Depth)
    BY <1>1, <1>2, NatSetInduction, SchemaParserAssumption DEF S
<1> DEFINE level == CHOOSE f : P(f, Depth)
<1>4. P(level, Depth)
    BY <1>3
<1>5. SchemasIn(schema) = UNION {level[k] : k \in 0..Depth}
    BY DEF SchemasIn, P, E, SchemaLevel
<1> HIDE DEF level
<1>6. \A i \in 0..Depth : level[i] = E(level, i)
    BY <1>4 DEF P
<1> QED BY <1>5, <1>6 DEF E

\* What holds of a schema and of the ones of its fields holds at every depth.
LEMMA SchemasStay ==
    ASSUME NEW G, NEW schema \in G, \A s \in G : Inner(s) \subseteq G
    PROVE  SchemasIn(schema) \subseteq G
<1>1. PICK f : /\ \A k \in 0..Depth : f[k] = SchemaLevel(f, schema, k)
               /\ SchemasIn(schema) = UNION {f[k] : k \in 0..Depth}
    BY SchemasAre
<1> DEFINE S == {k \in Nat : k =< Depth => f[k] \subseteq G}
<1>2. Depth \in Nat
    BY SchemaParserAssumption
<1>3. 0 \in S
    <2>1. 0 \in 0..Depth
        BY <1>2
    <2>2. f[0] = SchemaLevel(f, schema, 0)
        BY <1>1, <2>1
    <2>3. f[0] = {schema}
        BY <2>2, Zenon DEF SchemaLevel
    <2> QED BY <2>3
<1>4. ASSUME NEW k \in Nat, k \in S
      PROVE  k + 1 \in S
    <2> SUFFICES ASSUME k + 1 =< Depth PROVE f[k + 1] \subseteq G
        OBVIOUS
    <2>1. k + 1 \in 0..Depth /\ k + 1 # 0 /\ (k + 1) - 1 = k /\ f[k] \subseteq G
        BY <1>2, <1>4
    <2>2. f[k + 1] = UNION {Inner(s) : s \in f[k]}
        BY <1>1, <2>1 DEF SchemaLevel
    <2> QED BY <2>1, <2>2
<1>5. Nat \subseteq S
    <2> HIDE DEF S
    <2> QED BY <1>3, <1>4, NatSetInduction
<1>6. \A k \in 0..Depth : f[k] \subseteq G
    BY <1>2, <1>5
<1> QED BY <1>1, <1>6

\* The schemas that are built, and what their fields are called.
IsBuilt(s) == \E d \in 0..Depth : \E id \in Int : \E fs \in RawFields[d] : built[d][id][fs] = Ok(s)
IsFieldName(name) == name \in Seq(STRING) /\ name # <<>> /\ \A i \in DOMAIN name : name[i] \notin Special

LEMMA BuiltIsRight ==
    ASSUME NEW d \in 0..Depth, NEW id \in Int, NEW fs \in RawFields[d], NEW s, built[d][id][fs] = Ok(s)
    PROVE  /\ s.typeID = id /\ FindsFields(s)
           /\ \A f \in Range(s.fields) : IsFieldName(f.name)
           /\ \A t \in Inner(s) : IsBuilt(t)
<1> DEFINE b == IF d = 0 THEN <<>> ELSE built[d - 1]
           n == Len(fs)
<1>1. /\ IsList(fs) /\ n \in Nat /\ DOMAIN fs = 1..n
      /\ \A j \in 1..n :
            /\ fs[j].num \in Int /\ fs[j].name \in Seq(STRING)
            /\ fs[j].schema[1] = "object" => d # 0 /\ fs[j].schema[2] \in RawFields[d - 1]
    BY RawIs
<1>2. messageSchema(b, id, fs) = Ok(s)
    BY BuiltAt
<1>3. ASSUME NEW x \in RawFields[d - 1], d # 0, NEW i \in Int
      PROVE  b[i][x] = built[d - 1][i][x]
    BY <1>3
<1> HIDE DEF b, n
<1>4. s.typeID = id /\ DoneUpTo(b, fs, n, s) /\ RightUpTo(b, fs, n)
    BY <1>1, <1>2, SchemaIs, OkIs DEF n
<1>5. /\ IsList(s.fields) /\ Len(s.fields) = n
      /\ \A j \in 1..n : s.fields[j] = fieldSchema(b, fs[j])
    BY <1>4 DEF DoneUpTo
<1>6. DOMAIN s.fields = 1..n
    BY <1>5, ListLen
<1>7. ASSUME NEW j \in 1..n
      PROVE  LET f == s.fields[j]
             IN  /\ f.name = fs[j].name /\ f.num = fs[j].num /\ IsFieldName(f.name)
                 /\ IF f.type = "message" THEN f.schema.typeID = 0 /\ IsBuilt(f.schema) ELSE f.schema = <<>>
    <2> DEFINE f == s.fields[j]
               rf == fs[j]
    <2>1. RawRight(b, rf)
        BY <1>4 DEF RightUpTo
    <2>2. f.name = rf.name /\ f.num = rf.num /\ f.type = rf.type /\ f.schema = nested(b, rf).v
        <3>1. f = fieldSchema(b, rf)
            BY <1>5
        <3> HIDE DEF f, rf
        <3>2. fieldSchema(b, rf).schema = nested(b, rf).v
            BY DEF fieldSchema
        <3>3. /\ fieldSchema(b, rf).name = rf.name /\ fieldSchema(b, rf).num = rf.num
              /\ fieldSchema(b, rf).type = rf.type
            BY DEF fieldSchema
        <3> QED BY <3>1, <3>2, <3>3
    <2>3. IsFieldName(f.name)
        BY <1>1, <2>1, <2>2 DEF RawRight, IsFieldName
    <2>4. nested(b, rf).err = "nil"
        BY <2>1 DEF RawRight
    <2>5. CASE rf.type # "message"
        <3>1. nested(b, rf) = Ok(<<>>)
            BY <2>4, <2>5, OkIs DEF nested
        <3> HIDE DEF f, rf
        <3> QED BY <2>2, <2>3, <2>5, <3>1, OkIs DEF f, rf
    <2>6. CASE rf.type = "message"
        <3>1. rf.schema[1] = "object" /\ nested(b, rf) = b[0][rf.schema[2]]
            BY <2>4, <2>6, OkIs DEF nested
        <3>2. d # 0 /\ rf.schema[2] \in RawFields[d - 1] /\ d - 1 \in 0..Depth /\ 0 \in Int
            BY <1>1, <3>1, SchemaParserAssumption
        <3> DEFINE x == rf.schema[2]
        <3>3. nested(b, rf) = built[d - 1][0][x]
            BY <1>3, <3>1, <3>2
        <3> DEFINE c == IF d - 1 = 0 THEN <<>> ELSE built[(d - 1) - 1]
        <3>4. built[d - 1][0][x] = messageSchema(c, 0, x)
            BY <3>2, BuiltAt
        <3>5. IsList(x)
            BY <3>2, RawIs
        <3> HIDE DEF c, x
        <3>6. LET r == messageSchema(c, 0, x) IN r.err = "nil" => r = Ok(r.v) /\ r.v.typeID = 0
            BY <3>5, SchemaIs
        <3>7. f.schema.typeID = 0 /\ built[d - 1][0][x] = Ok(f.schema)
            <4> HIDE DEF f, rf
            <4> QED BY <2>2, <2>4, <3>3, <3>4, <3>6
        <3>8. IsBuilt(f.schema)
            BY <3>2, <3>7 DEF IsBuilt, x
        <3> QED BY <2>2, <2>3, <2>6, <3>7, <3>8
    <2> QED BY <2>5, <2>6
<1>8. FindsFields(s)
    <2>1. Range(s.fields) = {s.fields[j] : j \in 1..n}
        BY <1>6 DEF Range
    <2>2. /\ DOMAIN s.byName = {fs[j].name : j \in 1..n} /\ DOMAIN s.byNum = {fs[j].num : j \in 1..n}
          /\ \A j \in 1..n : s.byName[fs[j].name] = j /\ s.byNum[fs[j].num] = j
        BY <1>4 DEF DoneUpTo
    <2>3. /\ {fs[j].name : j \in 1..n} = {f.name : f \in Range(s.fields)}
          /\ {fs[j].num : j \in 1..n} = {f.num : f \in Range(s.fields)}
        BY <1>7, <2>1
    <2> QED BY <1>6, <1>7, <2>2, <2>3 DEF FindsFields
<1>9. \A f \in Range(s.fields) : IsFieldName(f.name) /\ (f.type = "message" => IsBuilt(f.schema))
    BY <1>6, <1>7 DEF Range
<1> QED BY <1>4, <1>8, <1>9 DEF Inner

\* So it is at every depth.
LEMMA BuiltIsSound ==
    ASSUME NEW d \in 0..Depth, NEW id \in Int, NEW fs \in RawFields[d], NEW s, built[d][id][fs] = Ok(s)
    PROVE  IsSound(s, id) /\ \A name \in NamesIn(s) : IsFieldName(name)
<1> DEFINE All == UNION {{built[e][i][x].v : i \in Int, x \in RawFields[e]} : e \in 0..Depth}
           G == {t \in All : IsBuilt(t)}
<1>1. ASSUME NEW t, IsBuilt(t)
      PROVE  t \in G
    <2>1. PICK e \in 0..Depth : \E i \in Int : \E x \in RawFields[e] : built[e][i][x] = Ok(t)
        BY <1>1 DEF IsBuilt
    <2>2. PICK i \in Int, x \in RawFields[e] : built[e][i][x] = Ok(t)
        BY <2>1
    <2>3. built[e][i][x].v = t
        BY <2>2, OkIs
    <2> QED BY <1>1, <2>3
<1>2. \A t \in G : IsBuilt(t)
    OBVIOUS
<1> HIDE DEF G
<1>3. IsBuilt(s)
    BY DEF IsBuilt
<1>4. ASSUME NEW t, IsBuilt(t)
      PROVE  /\ FindsFields(t) /\ \A f \in Range(t.fields) : IsFieldName(f.name)
             /\ \A u \in Inner(t) : IsBuilt(u)
    <2>1. PICK e \in 0..Depth : \E i \in Int : \E x \in RawFields[e] : built[e][i][x] = Ok(t)
        BY <1>4 DEF IsBuilt
    <2>2. PICK i \in Int, x \in RawFields[e] : built[e][i][x] = Ok(t)
        BY <2>1
    <2> QED BY <2>2, BuiltIsRight
<1>5. \A t \in G : Inner(t) \subseteq G
    BY <1>1, <1>2, <1>4
<1>6. s \in G
    BY <1>1, <1>3
<1>7. SchemasIn(s) \subseteq G
    BY <1>5, <1>6, SchemasStay
<1>8. \A t \in SchemasIn(s) : FindsFields(t) /\ \A f \in Range(t.fields) : IsFieldName(f.name)
    BY <1>2, <1>4, <1>7
<1>9. s.typeID = id
    BY BuiltIsRight
<1> QED BY <1>8, <1>9 DEF IsSound, NamesIn

-----------------------------------------------------------------------------
(* Configurations *)

\* The loop over the types of a configuration.
TypeStep(f, i, types) ==
    IF i = 0 THEN Ok(<<>>)
    ELSE LET id == types[i].typeId
             seen == {types[j].typeId : j \in 1..(i - 1)}
             schema == buildMessageSchema(id, types[i].fields)
         IN  IF f[i - 1].err # "nil" \/ id \notin 1..MaxNum \/ id \in seen \/ schema.err # "nil"
             THEN Malformed
             ELSE Ok(Append(f[i - 1].v, schema.v))

LEMMA TypeLoop ==
    ASSUME NEW types, Len(types) \in Nat, Config(types) # Unreadable
    PROVE  \E f : /\ \A i \in 0..Len(types) : f[i] = TypeStep(f, i, types)
                  /\ ParseSchema(Config(types)) = f[Len(types)]
<1> DEFINE E(f, i) == TypeStep(f, i, types)
           P(f, n) == f = [i \in 0 .. n |-> E(f, i)]
           S == {n \in Nat : \E f : P(f, n)}
<1>1. 0 \in S
    <2>1. \A f, g : E(f, 0) = E(g, 0)
        BY DEF TypeStep
    <2> HIDE DEF E
    <2>2. P([i \in 0 .. 0 |-> E(<<>>, 0)], 0)
        <3> DEFINE f == [i \in 0 .. 0 |-> E(<<>>, 0)]
        <3>1. \A i \in 0 .. 0 : E(<<>>, 0) = E(f, i)
            BY <2>1
        <3> QED BY <3>1
    <2> HIDE DEF P
    <2> QED BY <2>2
<1>2. ASSUME NEW n \in Nat, n \in S
      PROVE  n + 1 \in S
    <2>1. PICK f : P(f, n)
        BY <1>2
    <2> DEFINE g == [i \in 0 .. n + 1 |-> IF i = n + 1 THEN E(f, n + 1) ELSE f[i]]
    <2>2. ASSUME NEW i \in 0 .. n + 1
          PROVE  g[i] = E(g, i)
        <3>1. i # 0 => i - 1 \in 0 .. n + 1 /\ i - 1 # n + 1
            OBVIOUS
        <3>2. i # 0 => g[i - 1] = f[i - 1]
            BY <3>1
        <3>3. E(g, i) = E(f, i)
            <4> HIDE DEF g
            <4> QED BY <3>2 DEF TypeStep
        <3> HIDE DEF E
        <3>4. CASE i = n + 1
            BY <3>3, <3>4
        <3>5. CASE i # n + 1
            <4>1. i \in 0 .. n
                BY <3>5
            <4> HIDE DEF P
            <4>2. f[i] = E(f, i)
                BY <2>1, <4>1 DEF P
            <4> QED BY <3>3, <3>5, <4>2
        <3> QED BY <3>4, <3>5
    <2> HIDE DEF E
    <2>3. P(g, n + 1)
        BY <2>2
    <2> HIDE DEF P, g
    <2> QED BY <2>3
<1> HIDE DEF P, S, E
<1>3. \E f : P(f, Len(types))
    BY <1>1, <1>2, NatSetInduction DEF S
<1> DEFINE up == CHOOSE f : P(f, Len(types))
<1>4. P(up, Len(types))
    BY <1>3
<1>5. ParseSchema(Config(types)) = up[Len(types)]
    <2>1. Config(types)[2] = types
        BY DEF Config
    <2> DEFINE cfg == Config(types)
    <2> HIDE DEF cfg
    <2>2. cfg[2] = types /\ cfg # Unreadable
        BY <2>1 DEF cfg
    <2>3. ParseSchema(cfg) = up[Len(types)]
        BY <2>2 DEF ParseSchema, P, E, TypeStep
    <2> QED BY <2>3 DEF cfg
<1> HIDE DEF up
<1>6. \A i \in 0..Len(types) : up[i] = E(up, i)
    BY <1>4 DEF P
<1> QED BY <1>5, <1>6 DEF E

\* The first i types can be taken, and what they have become.
TypesRight(types, i) == \A j \in 1..i :
    /\ types[j].typeId \in 1..MaxNum /\ isMessage[Depth][types[j].fields]
    /\ \A k \in 1..(j - 1) : types[k].typeId # types[j].typeId
TypesBuilt(types, i, v) ==
    /\ IsList(v) /\ Len(v) = i
    /\ \A j \in 1..i : built[Depth][types[j].typeId][types[j].fields] = Ok(v[j])

LEMMA TypesRead ==
    ASSUME NEW types \in Seq([typeId : Int, fields : RawFields[Depth]])
    PROVE  /\ Len(types) \in Nat /\ DOMAIN types = 1..Len(types)
           /\ \A j \in 1..Len(types) : types[j].typeId \in Int /\ types[j].fields \in RawFields[Depth]
<1> DEFINE T == [typeId : Int, fields : RawFields[Depth]]
<1>1. \A t \in T : t.typeId \in Int /\ t.fields \in RawFields[Depth]
    OBVIOUS
<1>2. types \in Seq(T)
    OBVIOUS
<1> HIDE DEF T
<1>3. Len(types) \in Nat /\ DOMAIN types = 1..Len(types) /\ \A j \in 1..Len(types) : types[j] \in T
    BY <1>2, LenProperties, ElementOfSeq
<1> QED BY <1>1, <1>3

LEMMA TypesAre ==
    ASSUME NEW types \in Seq([typeId : Int, fields : RawFields[Depth]])
    PROVE  LET r == ParseSchema(Config(types))
           IN  /\ r.err = "nil" <=> TypesRight(types, Len(types))
               /\ r.err = "nil" => TypesBuilt(types, Len(types), r.v)
               /\ r # NoResult
<1> DEFINE n == Len(types)
<1>0. Depth \in Nat /\ Depth \in 0..Depth /\ MaxNum \in Nat
    BY SchemaParserAssumption
<1>1. /\ n \in Nat /\ DOMAIN types = 1..n
      /\ \A j \in 1..n : types[j].typeId \in Int /\ types[j].fields \in RawFields[Depth]
    BY TypesRead
<1>2. Config(types) # Unreadable
    BY DEF Config, Unreadable
<1>3. PICK f : /\ \A i \in 0..n : f[i] = TypeStep(f, i, types)
               /\ ParseSchema(Config(types)) = f[n]
    BY <1>1, <1>2, TypeLoop
<1> HIDE DEF n
<1> DEFINE I(i) == /\ \/ f[i] = Malformed
                      \/ \E v : f[i] = Ok(v)
                   /\ f[i].err = "nil" <=> TypesRight(types, i)
                   /\ f[i].err = "nil" => TypesBuilt(types, i, f[i].v)
           S == {i \in Nat : i =< n => I(i)}
<1>4. 0 \in S
    <2>1. 0 \in 0..n
        BY <1>1
    <2>2. f[0] = Ok(<<>>)
        BY <1>3, <2>1 DEF TypeStep
    <2>3. TypesRight(types, 0)
        BY DEF TypesRight
    <2>4. TypesBuilt(types, 0, <<>>)
        BY DEF TypesBuilt, IsList
    <2>5. I(0)
        BY <2>2, <2>3, <2>4, OkIs
    <2> HIDE DEF I
    <2> QED BY <2>5
<1>5. ASSUME NEW i \in Nat, i \in S
      PROVE  i + 1 \in S
    <2> SUFFICES ASSUME i + 1 =< n PROVE I(i + 1)
        BY DEF S
    <2>1. I(i) /\ i + 1 \in 0..n /\ i + 1 # 0 /\ (i + 1) - 1 = i /\ i + 1 \in 1..n
        <3> HIDE DEF I
        <3> QED BY <1>1, <1>5
    <2> DEFINE t == types[i + 1]
               id == t.typeId
               sch == buildMessageSchema(id, t.fields)
               Right == /\ id \in 1..MaxNum /\ isMessage[Depth][t.fields]
                        /\ \A k \in 1..i : types[k].typeId # id
    <2>2. f[i + 1] = IF f[i].err # "nil" \/ id \notin 1..MaxNum \/ id \in {types[j].typeId : j \in 1..i}
                        \/ sch.err # "nil" THEN Malformed
                     ELSE Ok(Append(f[i].v, sch.v))
        BY <1>3, <2>1 DEF TypeStep
    <2>3. TypesRight(types, i + 1) <=> TypesRight(types, i) /\ Right
        <3>1. \A j \in 1..(i + 1) : j \in 1..i \/ j = i + 1
            OBVIOUS
        <3>2. (\A j \in 1..i : j \in 1..(i + 1)) /\ i + 1 \in 1..(i + 1)
            OBVIOUS
        <3> DEFINE R(j) == /\ types[j].typeId \in 1..MaxNum /\ isMessage[Depth][types[j].fields]
                           /\ \A k \in 1..(j - 1) : types[k].typeId # types[j].typeId
        <3>3. \A m : TypesRight(types, m) <=> \A j \in 1..m : R(j)
            BY DEF TypesRight
        <3>4. R(i + 1) <=> Right
            BY <2>1
        <3> HIDE DEF R, Right
        <3> QED BY <3>1, <3>2, <3>3, <3>4
    <2>4. sch = built[Depth][id][t.fields] /\ id \in Int /\ t.fields \in RawFields[Depth]
        BY <1>1, <2>1 DEF buildMessageSchema
    <2>5. sch.err = "nil" <=> isMessage[Depth][t.fields]
        BY <1>0, <2>4, BuiltWhenRight
    <2>6. id \notin {types[j].typeId : j \in 1..i} <=> \A k \in 1..i : types[k].typeId # id
        OBVIOUS
    <2>7. sch.err = "nil" => sch = Ok(sch.v)
        <3> DEFINE c == IF Depth = 0 THEN <<>> ELSE built[Depth - 1]
        <3>1. sch = messageSchema(c, id, t.fields) /\ IsList(t.fields)
            BY <1>0, <2>4, BuiltAt, RawIs
        <3> HIDE DEF c, sch
        <3> QED BY <3>1, SchemaIs
    <2> DEFINE b == sch
    <2> HIDE DEF I, sch
    <2>8. CASE f[i].err = "nil" /\ Right
        <3>1. f[i + 1] = Ok(Append(f[i].v, sch.v)) /\ TypesRight(types, i + 1) /\ TypesRight(types, i)
            BY <2>1, <2>2, <2>3, <2>5, <2>6, <2>8 DEF I
        <3> DEFINE v == f[i].v
                   w == Append(v, sch.v)
        <3>2. TypesBuilt(types, i, v)
            BY <2>1, <2>8 DEF I
        <3>3. IsList(v) /\ Len(v) = i
            BY <3>2 DEF TypesBuilt
        <3> HIDE DEF v
        <3>4. /\ IsList(w) /\ Len(w) = i + 1 /\ w[i + 1] = sch.v
              /\ \A k \in 1..i : w[k] = v[k]
            BY <3>3, AppendToList
        <3> HIDE DEF w
        <3>5. built[Depth][id][t.fields] = Ok(w[i + 1])
            BY <2>4, <2>5, <2>7, <2>8, <3>4
        <3>6. \A j \in 1..(i + 1) : j \in 1..i \/ j = i + 1
            OBVIOUS
        <3>7. TypesBuilt(types, i + 1, w)
            BY <3>2, <3>4, <3>5, <3>6 DEF TypesBuilt
        <3>8. f[i + 1] = Ok(w)
            BY <3>1 DEF w, v
        <3> HIDE DEF t
        <3> QED BY <3>1, <3>7, <3>8, OkIs DEF I
    <2>9. CASE ~(f[i].err = "nil" /\ Right)
        <3>1. f[i + 1] = Malformed /\ ~TypesRight(types, i + 1)
            BY <2>1, <2>2, <2>3, <2>5, <2>6, <2>9 DEF I
        <3> QED BY <3>1, OkIs DEF I
    <2> QED BY <2>8, <2>9
<1> HIDE DEF I
<1>6. I(n)
    <2>1. Nat \subseteq S
        <3> HIDE DEF S
        <3> QED BY <1>4, <1>5, NatSetInduction
    <2> QED BY <1>1, <2>1
<1>7. \A v : Ok(v) # NoResult /\ Malformed # NoResult
    <2>1. \A v : "err" \in DOMAIN Ok(v) /\ "err" \in DOMAIN Malformed /\ DOMAIN NoResult = {}
        BY DEF Ok, Malformed, NoResult
    <2> QED BY <2>1
<1>8. f[n] # NoResult
    BY <1>6, <1>7 DEF I
<1> QED BY <1>3, <1>6, <1>8 DEF I, n

\* A configuration is accepted when it should be, its schemas are sound then, and the
\* names of fields in them are names.
LEMMA ConfigIs ==
    ASSUME NEW cfg \in RawConfig
    PROVE  LET r == ParseSchema(cfg)
           IN  /\ r # NoResult
               /\ (r.err = "nil") = IsConfig(cfg)
               /\ r.err = "nil" =>
                    /\ Len(r.v) = Len(cfg[2])
                    /\ \A i \in DOMAIN r.v : IsSound(r.v[i], cfg[2][i].typeId)
                    /\ \A s \in Range(r.v) : \A name \in NamesIn(s) : IsFieldName(name)
<1>1. CASE cfg = Unreadable
    <2>1. ParseSchema(cfg) = Malformed /\ ~IsConfig(cfg)
        BY <1>1 DEF ParseSchema, IsConfig
    <2>2. "err" \in DOMAIN Malformed /\ DOMAIN NoResult = {}
        BY DEF Malformed, NoResult
    <2>3. Malformed # NoResult
        BY <2>2
    <2>4. IsConfig(cfg) \in BOOLEAN
        BY DEF IsConfig
    <2>5. Malformed.err # "nil"
        BY OkIs
    <2> QED BY <2>1, <2>3, <2>4, <2>5
<1>2. CASE cfg # Unreadable
    <2>1. PICK types \in Seq([typeId : Int, fields : RawFields[Depth]]) : cfg = Config(types)
        <3>1. PICK c \in {"types"} \X Seq([typeId : Int, fields : RawFields[Depth]]) : c = cfg
            BY <1>2 DEF RawConfig
        <3> QED BY <3>1 DEF Config
    <2> DEFINE n == Len(types)
               r == ParseSchema(cfg)
    <2>2. /\ n \in Nat /\ DOMAIN types = 1..n
          /\ \A j \in 1..n : types[j].typeId \in Int /\ types[j].fields \in RawFields[Depth]
        BY TypesRead
    <2>3. /\ r.err = "nil" <=> TypesRight(types, n)
          /\ r.err = "nil" => TypesBuilt(types, n, r.v)
          /\ r # NoResult
        BY <2>1, TypesAre
    <2>4. cfg[2] = types
        BY <2>1 DEF Config
    <2> HIDE DEF n, r
    <2> DEFINE ids == [i \in DOMAIN types |-> types[i].typeId]
    <2>5. Distinct(ids) <=> \A i, j \in 1..n : types[i].typeId = types[j].typeId => i = j
        <3>1. ids = [i \in 1..n |-> ids[i]]
            BY <2>2
        <3>2. \A i \in 1..n : ids[i] = types[i].typeId
            BY <2>2
        <3> HIDE DEF ids
        <3>3. Distinct(ids) <=> \A i, j \in 1..n : ids[i] = ids[j] => i = j
            BY <2>2, <3>1, DistinctIs
        <3> QED BY <3>2, <3>3
    <2> DEFINE R(t) == t.typeId >= 1 /\ t.typeId =< MaxNum /\ isMessage[Depth][t.fields]
    <2>6. IsConfig(cfg) <=> Distinct(ids) /\ \A j \in 1..n : R(types[j])
        <3>1. IsConfig(cfg) <=> Distinct(ids) /\ \A t \in Range(types) : R(t)
            BY <1>2, <2>4, Zenon DEF IsConfig
        <3> HIDE DEF R, ids
        <3>2. (\A t \in Range(types) : R(t)) <=> \A j \in 1..n : R(types[j])
            BY <2>2 DEF Range
        <3> QED BY <3>1, <3>2
    <2> HIDE DEF ids
    <2>7. \A j \in 1..n : R(types[j]) <=> types[j].typeId \in 1..MaxNum /\ isMessage[Depth][types[j].fields]
        BY <2>2, SchemaParserAssumption
    <2> HIDE DEF R
    <2>8. TypesRight(types, n) <=> IsConfig(cfg)
        <3>1. ASSUME TypesRight(types, n), NEW i \in 1..n, NEW j \in 1..n, types[i].typeId = types[j].typeId
              PROVE  i = j
            <4>1. i =< j - 1 => i \in 1..(j - 1)
                OBVIOUS
            <4>2. j =< i - 1 => j \in 1..(i - 1)
                OBVIOUS
            <4>3. ~(i =< j - 1) /\ ~(j =< i - 1)
                BY <3>1, <4>1, <4>2 DEF TypesRight
            <4> QED BY <4>3
        <3>2. ASSUME \A j \in 1..n : R(types[j]),
                     \A i, j \in 1..n : types[i].typeId = types[j].typeId => i = j
              PROVE  TypesRight(types, n)
            <4>1. \A j \in 1..n : \A i \in 1..(j - 1) : i \in 1..n /\ i # j
                BY <2>2
            <4> QED BY <2>7, <3>2, <4>1 DEF TypesRight
        <3>3. TypesRight(types, n) => \A j \in 1..n : R(types[j])
            BY <2>7 DEF TypesRight
        <3> QED BY <2>5, <2>6, <3>1, <3>2, <3>3
    <2>9. IsConfig(cfg) \in BOOLEAN
        BY DEF IsConfig
    <2>10. ASSUME r.err = "nil"
           PROVE  /\ Len(r.v) = Len(cfg[2])
                  /\ \A i \in DOMAIN r.v : IsSound(r.v[i], cfg[2][i].typeId)
                  /\ \A s \in Range(r.v) : \A name \in NamesIn(s) : IsFieldName(name)
        <3>1. TypesBuilt(types, n, r.v)
            BY <2>3, <2>10
        <3>2. IsList(r.v) /\ Len(r.v) = n
            BY <3>1 DEF TypesBuilt
        <3>3. DOMAIN r.v = 1..n
            BY <3>2, ListLen
        <3>4. \A i \in 1..n : built[Depth][types[i].typeId][types[i].fields] = Ok(r.v[i])
            BY <3>1 DEF TypesBuilt
        <3>5. Depth \in 0..Depth
            BY SchemaParserAssumption
        <3>6. \A i \in 1..n : /\ IsSound(r.v[i], types[i].typeId)
                              /\ \A name \in NamesIn(r.v[i]) : IsFieldName(name)
            BY <2>2, <3>4, <3>5, BuiltIsSound
        <3> QED BY <2>4, <3>2, <3>3, <3>6 DEF n, Range
    <2> QED BY <2>3, <2>8, <2>9, <2>10 DEF r
<1> QED BY <1>1, <1>2

-----------------------------------------------------------------------------
(* Paths *)

\* Until finds the first of the characters, or the end.
LEMMA UntilIs ==
    ASSUME NEW path \in Seq(STRING), NEW pos \in Nat, NEW stops
    PROVE  LET n == Len(path)
               u == Until(path, pos, stops)
           IN  /\ u \in Nat /\ u =< n /\ (pos =< n => pos =< u)
               /\ \A i \in pos..(u - 1) : path[i + 1] \notin stops
               /\ u < n => pos =< u /\ path[u + 1] \in stops
<1> DEFINE n == Len(path)
           found == {i \in pos..(n - 1) : path[i + 1] \in stops}
           u == Until(path, pos, stops)
<1>1. n \in Nat
    BY LenProperties
<1>2. u = IF found = {} THEN n ELSE CHOOSE i \in found : \A j \in found : i =< j
    BY DEF Until
<1> HIDE DEF n, u
<1>3. CASE found = {}
    <2>1. u = n
        BY <1>2, <1>3
    <2>2. \A i \in pos..(n - 1) : path[i + 1] \notin stops
        BY <1>3
    <2>3. /\ u \in Nat /\ u =< n /\ (pos =< n => pos =< u)
          /\ \A i \in pos..(u - 1) : path[i + 1] \notin stops
          /\ u < n => pos =< u /\ path[u + 1] \in stops
        BY <1>1, <2>1, <2>2
    <2> QED BY <2>3 DEF n, u
<1>4. CASE found # {}
    <2>1. found \subseteq Nat
        BY <1>1
    <2>2. \E i \in found : \A j \in found : i =< j
        <3> HIDE DEF found
        <3> QED BY <1>4, <2>1, LeastNat
    <2>3. u \in found /\ \A j \in found : u =< j
        <3> HIDE DEF found
        <3> QED BY <1>2, <1>4, <2>2
    <2> QED BY <1>1, <2>3 DEF n, u
<1> QED BY <1>3, <1>4

\* An iteration ends behind its position.
LEMMA SegmentEnds ==
    ASSUME NEW path \in Seq(STRING), NEW pos \in Nat, pos < Len(path)
    PROVE  LET s == segment(path, pos) IN s.next \in Nat /\ pos =< s.next /\ s.next =< Len(path)
<1> DEFINE n == Len(path)
           bracket == Until(path, pos, {".", "["})
           close == Until(path, bracket + 1, {"]"})
           s == segment(path, pos)
<1>1. n \in Nat
    BY LenProperties
<1>2. bracket \in Nat /\ pos =< bracket /\ bracket =< n
    BY UntilIs
<1> HIDE DEF bracket
<1>3. close \in Nat /\ close =< n /\ (bracket + 1 =< n => bracket + 1 =< close)
    BY <1>2, UntilIs
<1> HIDE DEF close
<1>4. s.next = n \/ s.next = bracket \/ (s.next = close + 1 /\ close # n /\ bracket # n)
    BY DEF segment, bracket, close
<1> HIDE DEF s, n
<1>5. s.next \in Nat /\ pos =< s.next /\ s.next =< n
    BY <1>1, <1>2, <1>3, <1>4 DEF n
<1> QED BY <1>5 DEF s, n

\* The loop over the segments of a path, from the end of the path.
AtEnd == [err |-> "nil", segs |-> <<>>]
After(path, pos) == LET s == segment(path, pos) IN IF s.next < Len(path) THEN s.next + 1 ELSE Len(path)
Joined(path, pos, rest) ==
    LET s == segment(path, pos)
    IN  IF s.err # "nil" THEN Failed(s.err)
        ELSE IF s.next = Len(path) - 1 THEN Failed("ErrFieldNotFound")
        ELSE IF rest.err # "nil" THEN rest
        ELSE [rest EXCEPT !.segs = <<s.seg>> \o rest.segs]
FromStep(f, path, pos) == IF pos = Len(path) THEN AtEnd ELSE Joined(path, pos, f[After(path, pos)])

LEMMA PathLoop ==
    ASSUME NEW path \in Seq(STRING)
    PROVE  \E f : /\ \A pos \in 0..Len(path) : f[pos] = FromStep(f, path, pos)
                  /\ parsePathBuf(path) = f[0]
<1> DEFINE n == Len(path)
           E(f, i) == FromStep(f, path, i)
           after(i) == After(path, i)
           P(f, k) == f = [i \in (n - k) .. n |-> E(f, i)]
           S == {k \in Nat : k =< n => \E f : P(f, k)}
<1>1. n \in Nat
    BY LenProperties
<1>2. \A f, g : \A i \in 0..n : (i # n => f[after(i)] = g[after(i)]) => E(f, i) = E(g, i)
    BY Zenon DEF FromStep
<1>3. \A i \in 0..n : i # n => after(i) \in (i + 1)..n
    BY <1>1, SegmentEnds DEF After
<1> HIDE DEF n, E, after
<1>4. 0 \in S
    <2>1. P([i \in (n - 0) .. n |-> E(<<>>, n)], 0)
        <3> DEFINE f == [i \in (n - 0) .. n |-> E(<<>>, n)]
        <3>1. \A i \in (n - 0) .. n : i = n
            BY <1>1
        <3>2. E(<<>>, n) = E(f, n)
            BY <1>1, <1>2
        <3> HIDE DEF f
        <3>3. [i \in (n - 0) .. n |-> E(<<>>, n)] = [i \in (n - 0) .. n |-> E(f, i)]
            BY <3>1, <3>2
        <3> QED BY <3>3 DEF f
    <2> HIDE DEF P
    <2> QED BY <2>1
<1>5. ASSUME NEW k \in Nat, k \in S
      PROVE  k + 1 \in S
    <2> SUFFICES ASSUME k + 1 =< n PROVE \E f : P(f, k + 1)
        BY DEF S
    <2>1. PICK f : P(f, k)
        <3> HIDE DEF P
        <3> QED BY <1>1, <1>5
    <2> DEFINE m == n - (k + 1)
               g == [i \in m .. n |-> IF i = m THEN E(f, m) ELSE f[i]]
    <2>2. ASSUME NEW i \in m .. n
          PROVE  g[i] = E(g, i)
        <3>1. i \in 0..n /\ (i # n => after(i) \in m..n /\ after(i) # m)
            BY <1>1, <1>3
        <3>2. i # n => g[after(i)] = f[after(i)]
            BY <3>1
        <3>3. E(g, i) = E(f, i)
            <4> HIDE DEF g
            <4> QED BY <1>2, <3>1, <3>2
        <3>4. CASE i = m
            BY <3>3, <3>4
        <3>5. CASE i # m
            <4>1. i \in (n - k) .. n
                BY <1>1, <3>5
            <4>2. f[i] = E(f, i)
                BY <2>1, <4>1
            <4> QED BY <3>3, <3>5, <4>2
        <3> QED BY <3>4, <3>5
    <2>3. g = [i \in m .. n |-> E(g, i)]
        BY <2>2
    <2> HIDE DEF g
    <2>4. P(g, k + 1)
        BY <2>3
    <2> HIDE DEF P
    <2> QED BY <2>4
<1>6. \E f : P(f, n)
    <2> HIDE DEF P
    <2>1. Nat \subseteq S
        <3> HIDE DEF S
        <3> QED BY <1>4, <1>5, NatSetInduction
    <2> QED BY <1>1, <2>1
<1>7. \E f : f = [pos \in 0..n |-> E(f, pos)]
    BY <1>1, <1>6
<1> DEFINE from == CHOOSE f : f = [pos \in 0..n |-> E(f, pos)]
<1>8. from = [pos \in 0..n |-> E(from, pos)]
    BY <1>7
<1>9. parsePathBuf(path) = from[0]
    BY DEF parsePathBuf, E, FromStep, AtEnd, After, Joined, n
<1> HIDE DEF from
<1>10. \A i \in 0..n : from[i] = E(from, i)
    BY <1>8
<1> QED BY <1>9, <1>10 DEF E, n

\* The name of a field is a path to it.
LEMMA NameIsPath ==
    ASSUME NEW name, IsFieldName(name)
    PROVE  parsePathBuf(name) = [err |-> "nil", segs |-> <<Seg(name, NoIndex)>>]
<1> DEFINE n == Len(name)
           u == Until(name, 0, {".", "["})
           s == segment(name, 0)
<1>1. name \in Seq(STRING) /\ name # <<>> /\ \A i \in DOMAIN name : name[i] \notin Special
    BY DEF IsFieldName
<1>2. n \in Nat /\ n # 0 /\ DOMAIN name = 1..n
    BY <1>1, LenProperties, EmptySeq
<1>3. /\ u \in Nat /\ u =< n
      /\ u < n => name[u + 1] \in {".", "["}
    BY <1>1, UntilIs
<1> HIDE DEF n, u
<1>4. u = n
    <2>1. u < n => u + 1 \in 1..n
        BY <1>2, <1>3
    <2>2. u < n => name[u + 1] \in Special /\ name[u + 1] \notin Special
        BY <1>1, <1>2, <1>3, <2>1 DEF Special
    <2> QED BY <1>2, <1>3, <2>2
<1>5. SubSeq(name, 0 + 1, u) = name
    <2>1. SubSeq(name, 1, n) = name
        BY <1>1, SubSeqFull DEF n
    <2>2. 0 + 1 = 1
        OBVIOUS
    <2> QED BY <1>4, <2>1, <2>2
<1>6. s = [err |-> "nil", seg |-> Seg(name, NoIndex), next |-> n]
    BY <1>1, <1>4, <1>5 DEF segment, u, n
<1>7. PICK f : /\ \A pos \in 0..n : f[pos] = FromStep(f, name, pos)
               /\ parsePathBuf(name) = f[0]
    BY <1>1, PathLoop DEF n
<1>8. f[n] = AtEnd
    <2>1. f[n] = FromStep(f, name, n)
        BY <1>2, <1>7
    <2> QED BY <2>1, Zenon DEF FromStep, n
<1> DEFINE sg == Seg(name, NoIndex)
<1>9. s.err = "nil" /\ s.next = n /\ s.seg = sg
    BY <1>6
<1> HIDE DEF s, sg
<1>10. f[0] = [f[n] EXCEPT !.segs = <<sg>> \o f[n].segs]
    <2>1. 0 \in 0..n /\ 0 # n /\ n # n - 1 /\ ~(n < n)
        BY <1>2
    <2>2. f[0] = FromStep(f, name, 0)
        BY <1>7, <2>1
    <2>3. f[n].err = "nil"
        BY <1>8 DEF AtEnd
    <2>4. After(name, 0) = n
        BY <1>9, <2>1, Zenon DEF After, s, n
    <2>5. f[0] = Joined(name, 0, f[n])
        BY <2>1, <2>2, <2>4, Zenon DEF FromStep, n
    <2> QED BY <1>9, <2>1, <2>3, <2>5, Zenon DEF Joined, s, n
<1>11. <<sg>> \o <<>> = <<sg>>
    OBVIOUS
<1> QED BY <1>7, <1>8, <1>10, <1>11 DEF sg, AtEnd

\* The positions between the parts of a path: the dots and both ends, counted from 1.
Cuts(path) == {0, Len(path) + 1} \cup {i \in DOMAIN path : path[i] = "."}
NextCut(path, a) == Until(path, a, {"."}) + 1

LEMMA PathIs ==
    ASSUME NEW path \in Seq(STRING)
    PROVE  /\ Len(path) \in Nat /\ DOMAIN path = 1..Len(path)
           /\ IsFiniteSet(Cuts(path)) /\ Cuts(path) \subseteq 0..(Len(path) + 1)
           /\ 0 \in Cuts(path) /\ Len(path) + 1 \in Cuts(path)
<1>1. Len(path) \in Nat /\ DOMAIN path = 1..Len(path)
    BY LenProperties
<1>2. Cuts(path) \subseteq 0..(Len(path) + 1) /\ 0 \in Cuts(path) /\ Len(path) + 1 \in Cuts(path)
    BY <1>1 DEF Cuts
<1>3. IsFiniteSet(Cuts(path))
    <2>1. IsFiniteSet(0..(Len(path) + 1))
        BY <1>1, FS_Interval
    <2> QED BY <1>2, <2>1, FS_Subset
<1> QED BY <1>1, <1>2, <1>3

LEMMA NextCutIs ==
    ASSUME NEW path \in Seq(STRING), NEW a \in Cuts(path), a =< Len(path)
    PROVE  LET b == NextCut(path, a)
           IN  /\ b \in Cuts(path) /\ a < b /\ b =< Len(path) + 1
               /\ \A e \in Cuts(path) : a < e => b =< e
               /\ \A i \in (a + 1)..(b - 1) : i \in DOMAIN path /\ path[i] # "."
               /\ b =< Len(path) => path[b] = "."
<1> DEFINE n == Len(path)
           u == Until(path, a, {"."})
<1>1. n \in Nat /\ DOMAIN path = 1..n /\ a \in Nat
    BY PathIs
<1>2. /\ u \in Nat /\ u =< n /\ a =< u
      /\ \A i \in a..(u - 1) : path[i + 1] # "."
      /\ u < n => path[u + 1] = "."
    BY <1>1, UntilIs
<1> HIDE DEF u, n
<1>3. u + 1 \in Cuts(path)
    <2>1. CASE u = n
        BY <2>1, PathIs DEF n
    <2>2. CASE u # n
        <3>1. u < n /\ u + 1 \in 1..n
            BY <1>1, <1>2, <2>2
        <3>2. u + 1 \in DOMAIN path /\ path[u + 1] = "."
            BY <1>1, <1>2, <3>1
        <3> QED BY <3>2 DEF Cuts
    <2> QED BY <2>1, <2>2
<1>4. \A i \in (a + 1)..u : i \in DOMAIN path /\ path[i] # "."
    <2> TAKE i \in (a + 1)..u
    <2>1. i - 1 \in a..(u - 1) /\ (i - 1) + 1 = i
        BY <1>1, <1>2
    <2>2. path[(i - 1) + 1] # "."
        BY <1>2, <2>1
    <2> QED BY <1>1, <1>2, <2>1, <2>2
<1>5. ASSUME NEW e \in Cuts(path), a < e PROVE u + 1 =< e
    <2>1. e \in Nat /\ (e = n + 1 \/ path[e] = ".")
        BY <1>1, <1>5 DEF Cuts, n
    <2>2. e \in (a + 1)..u => path[e] # "."
        BY <1>4
    <2>3. e =< u => e \in (a + 1)..u /\ e # n + 1
        BY <1>1, <1>2, <1>5, <2>1
    <2> QED BY <1>2, <2>1, <2>2, <2>3
<1>6. NextCut(path, a) = u + 1
    BY DEF NextCut, u
<1>7. /\ u + 1 \in Cuts(path) /\ a < u + 1 /\ u + 1 =< n + 1
      /\ \A i \in (a + 1)..((u + 1) - 1) : i \in DOMAIN path /\ path[i] # "."
      /\ u + 1 =< n => path[u + 1] = "."
    <2>1. (u + 1) - 1 = u /\ a < u + 1 /\ u + 1 =< n + 1 /\ (u + 1 =< n => u < n)
        BY <1>1, <1>2
    <2> QED BY <1>2, <1>3, <1>4, <2>1
<1> QED BY <1>5, <1>6, <1>7 DEF n

\* The members of a finite set of numbers, counted from below.
Rank(D, d) == Cardinality({e \in D : e < d})

LEMMA RanksAre ==
    ASSUME NEW D \in SUBSET Nat, IsFiniteSet(D)
    PROVE  /\ \A d \in D : Rank(D, d) \in Nat
           /\ \A d, e \in D : d < e => Rank(D, d) < Rank(D, e)
           /\ \A d, e \in D : d < e /\ (\A x \in D : d < x => e =< x) => Rank(D, e) = Rank(D, d) + 1
<1>1. ASSUME NEW d \in D
      PROVE  IsFiniteSet({e \in D : e < d}) /\ Rank(D, d) \in Nat
    BY FS_Subset, FS_CardinalityType DEF Rank
<1>2. ASSUME NEW d \in D, NEW e \in D, d < e
      PROVE  /\ Rank(D, d) < Rank(D, e)
             /\ (\A x \in D : d < x => e =< x) => Rank(D, e) = Rank(D, d) + 1
    <2> DEFINE B == {x \in D : x < d}
               C == {x \in D : x < e}
    <2>1. IsFiniteSet(B \cup {d}) /\ Cardinality(B \cup {d}) = Rank(D, d) + 1
        <3>1. d \notin B
            OBVIOUS
        <3>2. IsFiniteSet(B) /\ Cardinality(B) = Rank(D, d)
            BY <1>1 DEF Rank
        <3> HIDE DEF B
        <3> QED BY <3>1, <3>2, FS_AddElement
    <2>6. \A x \in D : x \in Nat
        OBVIOUS
    <2>10. d \in Nat /\ e \in Nat /\ d \in C /\ \A x \in D : x < d => x < e
        BY <1>2, <2>6
    <2>2. B \cup {d} \subseteq C
        BY <2>10
    <2>3. IsFiniteSet(C) /\ Cardinality(C) = Rank(D, e)
        BY <1>1 DEF Rank
    <2>11. (\A x \in D : d < x => e =< x) => \A x \in D : x < e => x < d \/ x = d
        BY <2>6, <2>10
    <2>4. (\A x \in D : d < x => e =< x) => B \cup {d} = C
        BY <2>2, <2>11
    <2> HIDE DEF B, C
    <2>5. Cardinality(B \cup {d}) =< Cardinality(C)
        BY <2>2, <2>3, FS_Subset
    <2>7. Rank(D, d) \in Nat /\ Rank(D, e) \in Nat
        BY <1>1
    <2>8. Rank(D, d) + 1 =< Rank(D, e)
        BY <2>1, <2>3, <2>5
    <2>9. (\A x \in D : d < x => e =< x) => Rank(D, e) = Rank(D, d) + 1
        BY <2>1, <2>3, <2>4
    <2> QED BY <2>7, <2>8, <2>9
<1> QED BY <1>1, <1>2

\* The K parts of a path lie between its dots, the first of them before it and the last
\* after it.
DotsAre(path, K, dot) ==
    /\ \A k \in 0..K : dot[k] \in Cuts(path)
    /\ dot[0] = 0 /\ dot[K] = Len(path) + 1
    /\ \A k \in 0..(K - 1) : dot[k] =< Len(path) /\ dot[k + 1] = NextCut(path, dot[k])
    /\ \A a \in Cuts(path) : \E k \in 0..K : dot[k] = a
    /\ Parts(path) = [k \in 1..K |-> SubSeq(path, dot[k - 1] + 1, dot[k] - 1)]

\* Every path has such parts.
LEMMA PartsAre ==
    ASSUME NEW path \in Seq(STRING), path # <<>>
    PROVE  \E K \in Nat \ {0} : \E dot : DotsAre(path, K, dot)
<1> DEFINE n == Len(path)
           D == Cuts(path)
           K == Cardinality(D) - 1
           dotAt(k) == CHOOSE d \in D : Cardinality({e \in D : e < d}) = k
           dot == [k \in 0..K |-> dotAt(k)]
<1>1. n \in Nat /\ n # 0 /\ IsFiniteSet(D) /\ D \subseteq 0..(n + 1) /\ 0 \in D /\ n + 1 \in D
    BY PathIs, EmptySeq
<1>2. /\ \A d \in D : Rank(D, d) \in Nat
      /\ \A d, e \in D : d < e => Rank(D, d) < Rank(D, e)
      /\ \A d, e \in D : d < e /\ (\A x \in D : d < x => e =< x) => Rank(D, e) = Rank(D, d) + 1
    <2>1. D \subseteq Nat
        BY <1>1
    <2> HIDE DEF D
    <2> QED BY <1>1, <2>1, RanksAre
<1>3. \A a \in D : a =< n => NextCut(path, a) \in D /\ a < NextCut(path, a)
                             /\ \A x \in D : a < x => NextCut(path, a) =< x
    BY NextCutIs
<1>4. Rank(D, 0) = 0
    <2>1. {e \in D : e < 0} = {}
        BY <1>1
    <2> QED BY <2>1, FS_EmptySet DEF Rank
<1>5. Rank(D, n + 1) = K /\ K \in Nat
    <2>1. {e \in D : e < n + 1} = D \ {n + 1}
        BY <1>1
    <2>2. Cardinality(D \ {n + 1}) = Cardinality(D) - 1
        <3> HIDE DEF D
        <3> QED BY <1>1, FS_RemoveElement
    <2>3. Rank(D, n + 1) = K
        BY <2>1, <2>2 DEF Rank
    <2> QED BY <1>1, <1>2, <2>3
<1>6. K # 0
    <2>1. 0 < n + 1
        BY <1>1
    <2>2. Rank(D, 0) < Rank(D, n + 1)
        BY <1>1, <1>2, <2>1
    <2> QED BY <1>4, <1>5, <2>2
<1>7. dotAt(0) = dotAt(0) /\ \A k \in 0..K : dot[k] = dotAt(k)
    OBVIOUS
<1>8. Parts(path) = [k \in 1..K |-> SubSeq(path, dotAt(k - 1) + 1, dotAt(k) - 1)]
    BY DEF Parts, Cuts
<1>9. \A k : (\E d \in D : Rank(D, d) = k) => dotAt(k) \in D /\ Rank(D, dotAt(k)) = k
    BY DEF Rank
<1> HIDE DEF D, K, dotAt, dot, n
<1>10. \A d, e \in D : Rank(D, d) = Rank(D, e) => d = e
    <2> TAKE d, e \in D
    <2>1. d \in Nat /\ e \in Nat /\ Rank(D, d) \in Nat /\ Rank(D, e) \in Nat
        BY <1>1, <1>2
    <2>2. d < e \/ e < d \/ d = e
        BY <2>1
    <2> QED BY <1>2, <2>1, <2>2
<1>11. \A d \in D : Rank(D, d) \in 0..K /\ (Rank(D, d) = K => d = n + 1)
    <2> TAKE d \in D
    <2>1. d \in Nat /\ (d = n + 1 \/ d < n + 1) /\ n + 1 \in D
        BY <1>1
    <2>2. d < n + 1 => Rank(D, d) < K
        BY <1>2, <1>5, <2>1
    <2> QED BY <1>2, <1>5, <2>1, <2>2
<1> DEFINE S == {k \in Nat : k =< K => \E d \in D : Rank(D, d) = k}
<1>12. Nat \subseteq S
    <2>1. 0 \in S
        BY <1>1, <1>4
    <2>2. ASSUME NEW k \in Nat, k \in S PROVE k + 1 \in S
        <3> SUFFICES ASSUME k + 1 =< K PROVE \E d \in D : Rank(D, d) = k + 1
            OBVIOUS
        <3>1. PICK d \in D : Rank(D, d) = k
            BY <1>5, <2>2
        <3>2. d # n + 1 /\ d =< n
            BY <1>1, <1>5, <3>1
        <3>3. NextCut(path, d) \in D /\ Rank(D, NextCut(path, d)) = k + 1
            BY <1>2, <1>3, <3>1, <3>2
        <3> QED BY <3>3
    <2> HIDE DEF S
    <2> QED BY <2>1, <2>2, NatSetInduction
<1>13. \A k \in 0..K : dot[k] \in D /\ Rank(D, dot[k]) = k
    BY <1>5, <1>7, <1>9, <1>12
<1>14. dot[0] = 0 /\ dot[K] = n + 1
    <2>1. 0 \in 0..K /\ K \in 0..K
        BY <1>5
    <2>2. dot[0] \in D /\ Rank(D, dot[0]) = Rank(D, 0) /\ dot[K] \in D /\ Rank(D, dot[K]) = Rank(D, n + 1)
        BY <1>4, <1>5, <1>13, <2>1
    <2> QED BY <1>1, <1>10, <2>2
<1>15. ASSUME NEW k \in 0..(K - 1)
       PROVE  dot[k] =< n /\ dot[k + 1] = NextCut(path, dot[k])
    <2>1. k \in 0..K /\ k + 1 \in 0..K /\ k # K
        BY <1>5
    <2>2. dot[k] \in D /\ Rank(D, dot[k]) = k /\ dot[k + 1] \in D /\ Rank(D, dot[k + 1]) = k + 1
        BY <1>13, <2>1
    <2>5. dot[k] # n + 1
        BY <1>5, <2>1, <2>2
    <2>6. \A x \in 0..(n + 1) : x # n + 1 => x =< n
        BY <1>1
    <2>3. dot[k] =< n
        BY <1>1, <2>2, <2>5, <2>6
    <2>4. NextCut(path, dot[k]) \in D /\ Rank(D, NextCut(path, dot[k])) = k + 1
        BY <1>2, <1>3, <2>2, <2>3
    <2> QED BY <1>10, <2>2, <2>3, <2>4
<1>16. \A a \in D : \E k \in 0..K : dot[k] = a
    BY <1>10, <1>11, <1>13
<1>17. Parts(path) = [k \in 1..K |-> SubSeq(path, dot[k - 1] + 1, dot[k] - 1)]
    <2>1. \A k \in 1..K : k - 1 \in 0..K /\ k \in 0..K
        BY <1>5
    <2>2. \A k \in 1..K : dot[k - 1] = dotAt(k - 1) /\ dot[k] = dotAt(k)
        BY <1>7, <2>1
    <2> QED BY <1>8, <2>2
<1> QED
    <2>1. K \in Nat \ {0}
        BY <1>5, <1>6
    <2> WITNESS K \in Nat \ {0}
    <2> WITNESS dot
    <2> QED BY <1>13, <1>14, <1>15, <1>16, <1>17 DEF D, n, DotsAre

\* The characters behind a, up to u.
LEMMA SliceIs ==
    ASSUME NEW path \in Seq(STRING), NEW a \in Nat, NEW u \in Nat, a =< u, u =< Len(path)
    PROVE  LET part == SubSeq(path, a + 1, u)
           IN  /\ part \in Seq(STRING) /\ Len(part) = u - a /\ DOMAIN part = 1..(u - a)
               /\ part = <<>> <=> a = u
               /\ \A i \in 1..(u - a) : part[i] = path[a + i]
               /\ \A c, d \in 0..(u - a) : SubSeq(part, c + 1, d) = SubSeq(path, a + c + 1, a + d)
<1> DEFINE part == SubSeq(path, a + 1, u)
<1>1. \A i \in (a + 1)..u : path[i] \in STRING
    BY LenProperties, ElementOfSeq
<1>2. /\ part \in Seq(STRING) /\ Len(part) = IF a + 1 =< u THEN u - (a + 1) + 1 ELSE 0
      /\ \A i \in 1 .. u - (a + 1) + 1 : part[i] = path[a + 1 + i - 1]
    BY <1>1, SubSeqProperties
<1>3. Len(part) = u - a /\ \A i \in 1..(u - a) : part[i] = path[a + i]
    <2> HIDE DEF part
    <2>1. (IF a + 1 =< u THEN u - (a + 1) + 1 ELSE 0) = u - a /\ u - (a + 1) + 1 = u - a
        OBVIOUS
    <2>2. \A i \in 1..(u - a) : a + 1 + i - 1 = a + i
        OBVIOUS
    <2> QED BY <1>2, <2>1, <2>2
<1>4. DOMAIN part = 1..(u - a) /\ (part = <<>> <=> a = u)
    <2> HIDE DEF part
    <2>1. DOMAIN part = 1..Len(part)
        BY <1>2, LenProperties
    <2>2. part = <<>> <=> Len(part) = 0
        BY <1>2, EmptySeq
    <2>3. a = u <=> u - a = 0
        OBVIOUS
    <2> QED BY <1>3, <2>1, <2>2, <2>3
<1>5. ASSUME NEW c \in 0..(u - a), NEW d \in 0..(u - a)
      PROVE  SubSeq(part, c + 1, d) = SubSeq(path, a + c + 1, a + d)
    <2>1. CASE c >= d
        <3>1. SubSeq(part, c + 1, d) = <<>>
            <4> HIDE DEF part
            <4> QED BY <2>1, SubSeqEmpty
        <3>2. SubSeq(path, a + c + 1, a + d) = <<>>
            BY <2>1, SubSeqEmpty
        <3> QED BY <3>1, <3>2
    <2>2. CASE c < d
        <3>1. /\ a + 1 \in 1..Len(path) /\ u \in 1..Len(path)
              /\ c + 1 \in 1 .. u - (a + 1) + 1 /\ d \in 1 .. u - (a + 1) + 1
            BY <2>2, LenProperties
        <3>2. SubSeq(part, c + 1, d) = SubSeq(path, (a + 1) + (c + 1) - 1, (a + 1) + d - 1)
            BY <3>1, SubSeqOfSubSeq
        <3>3. (a + 1) + (c + 1) - 1 = a + c + 1 /\ (a + 1) + d - 1 = a + d
            OBVIOUS
        <3> QED BY <3>2, <3>3
    <2> QED BY <2>1, <2>2
<1> QED BY <1>2, <1>3, <1>4, <1>5

\* The same definitions, by the positions in the whole path.
NameAt(path, a, u) == a # u /\ \A r \in (a + 1)..u : path[r] # "["
IndexAt(path, p, q) == IsIndex(SubSeq(path, p + 1, q - 1))
ElementAt(path, a, u, p) ==
    /\ path[p] = "[" /\ path[u] = "]" /\ p < u
    /\ NameAt(path, a, p - 1) /\ IndexAt(path, p, u)

LEMMA PartIs ==
    ASSUME NEW path \in Seq(STRING), NEW a \in Nat, NEW u \in Nat, a =< u, u =< Len(path)
    PROVE  LET part == SubSeq(path, a + 1, u)
           IN  /\ IsName(part) <=> NameAt(path, a, u)
               /\ IsPart(part) <=> NameAt(path, a, u) \/ \E p \in (a + 1)..u : ElementAt(path, a, u, p)
               /\ NameAt(path, a, u) => Means(part) = Seg(part, NoIndex)
               /\ \A p \in (a + 1)..u :
                     ElementAt(path, a, u, p) =>
                         Means(part) = Seg(SubSeq(path, a + 1, p - 1),
                                           Index(Decimal(SubSeq(path, p + 1, u - 1))))
<1> DEFINE part == SubSeq(path, a + 1, u)
<1>1. /\ part \in Seq(STRING) /\ Len(part) = u - a /\ DOMAIN part = 1..(u - a)
      /\ part = <<>> <=> a = u
      /\ \A i \in 1..(u - a) : part[i] = path[a + i]
      /\ \A c, d \in 0..(u - a) : SubSeq(part, c + 1, d) = SubSeq(path, a + c + 1, a + d)
    BY SliceIs
<1> HIDE DEF part
<1>2. ASSUME NEW w \in Nat, a =< w, w =< Len(path)
      PROVE  IsName(SubSeq(path, a + 1, w)) <=> NameAt(path, a, w)
    <2> DEFINE q == SubSeq(path, a + 1, w)
    <2>1. DOMAIN q = 1..(w - a) /\ (q = <<>> <=> a = w) /\ \A i \in 1..(w - a) : q[i] = path[a + i]
        BY <1>2, SliceIs
    <2> HIDE DEF q
    <2>2. IsName(q) => NameAt(path, a, w)
        <3> SUFFICES ASSUME IsName(q), NEW r \in (a + 1)..w PROVE path[r] # "["
            BY <2>1 DEF NameAt, IsName
        <3>1. r - a \in 1..(w - a) /\ a + (r - a) = r
            OBVIOUS
        <3> QED BY <2>1, <3>1 DEF IsName
    <2>3. NameAt(path, a, w) => IsName(q)
        <3> SUFFICES ASSUME NameAt(path, a, w), NEW i \in 1..(w - a) PROVE q[i] # "["
            BY <2>1 DEF NameAt, IsName
        <3>1. a + i \in (a + 1)..w
            OBVIOUS
        <3> QED BY <2>1, <3>1 DEF NameAt
    <2> QED BY <2>2, <2>3 DEF q
<1>3. IsName(part) <=> NameAt(path, a, u)
    BY <1>2 DEF part
<1>4. ASSUME NEW i \in 1..(u - a)
      PROVE  /\ IsElement(part, i) <=> ElementAt(path, a, u, a + i)
             /\ i < u - a =>
                   /\ SubSeq(part, 1, i - 1) = SubSeq(path, a + 1, (a + i) - 1)
                   /\ SubSeq(part, i + 1, Len(part) - 1) = SubSeq(path, (a + i) + 1, u - 1)
    <2>1. /\ i - 1 \in 0..(u - a) /\ 0 \in 0..(u - a) /\ i \in 0..(u - a) /\ u - a \in 1..(u - a)
          /\ 0 + 1 = 1 /\ a + 0 + 1 = a + 1 /\ a + (i - 1) = (a + i) - 1 /\ a + i + 1 = (a + i) + 1
          /\ a + (u - a) = u /\ (u - a) - 1 \in 0..(u - a) /\ a + ((u - a) - 1) = u - 1
        OBVIOUS
    <2>2. SubSeq(part, 1, i - 1) = SubSeq(path, a + 1, (a + i) - 1)
        BY <1>1, <2>1
    <2>3. SubSeq(part, i + 1, Len(part) - 1) = SubSeq(path, (a + i) + 1, u - 1)
        BY <1>1, <2>1
    <2>4. part[i] = path[a + i] /\ part[Len(part)] = path[u]
        BY <1>1, <2>1
    <2>5. IsName(SubSeq(part, 1, i - 1)) <=> NameAt(path, a, (a + i) - 1)
        <3>1. (a + i) - 1 \in Nat /\ a =< (a + i) - 1 /\ (a + i) - 1 =< Len(path)
            BY LenProperties
        <3> QED BY <1>2, <2>2, <3>1
    <2>6. i < Len(part) <=> a + i < u
        BY <1>1
    <2>7. NameAt(path, a, (a + i) - 1) => i > 1
        BY DEF NameAt
    <2>8. IsElement(part, i) <=> ElementAt(path, a, u, a + i)
        BY <2>3, <2>4, <2>5, <2>6, <2>7 DEF IsElement, ElementAt, IndexAt
    <2> QED BY <2>2, <2>3, <2>8
<1>5. IsPart(part) <=> NameAt(path, a, u) \/ \E p \in (a + 1)..u : ElementAt(path, a, u, p)
    <2>1. ASSUME NEW i \in DOMAIN part, IsElement(part, i)
          PROVE  \E p \in (a + 1)..u : ElementAt(path, a, u, p)
        <3>1. i \in 1..(u - a) /\ a + i \in (a + 1)..u
            BY <1>1
        <3> QED BY <1>4, <2>1, <3>1
    <2>2. ASSUME NEW p \in (a + 1)..u, ElementAt(path, a, u, p)
          PROVE  \E i \in DOMAIN part : IsElement(part, i)
        <3>1. p - a \in 1..(u - a) /\ a + (p - a) = p
            OBVIOUS
        <3>2. IsElement(part, p - a)
            BY <1>4, <2>2, <3>1
        <3> QED BY <1>1, <3>1, <3>2
    <2> QED BY <1>3, <2>1, <2>2 DEF IsPart
<1>6. NameAt(path, a, u) => Means(part) = Seg(part, NoIndex)
    BY <1>3 DEF Means
<1>7. ASSUME NEW p \in (a + 1)..u, ElementAt(path, a, u, p)
      PROVE  Means(part) = Seg(SubSeq(path, a + 1, p - 1), Index(Decimal(SubSeq(path, p + 1, u - 1))))
    <2>1. ~IsName(part)
        BY <1>3, <1>7 DEF NameAt, ElementAt
    <2>2. p - a \in 1..(u - a) /\ a + (p - a) = p
        OBVIOUS
    <2>3. IsElement(part, p - a)
        BY <1>4, <1>7, <2>2
    <2>4. ASSUME NEW i \in DOMAIN part, IsElement(part, i) PROVE i = p - a
        <3>1. i \in 1..(u - a) /\ ElementAt(path, a, u, a + i)
            BY <1>1, <1>4, <2>4
        <3>2. path[p] = "[" /\ path[a + i] = "["
            BY <1>7, <3>1 DEF ElementAt
        <3>3. ~(p \in (a + 1)..((a + i) - 1)) /\ ~(a + i \in (a + 1)..(p - 1))
            BY <1>7, <3>1, <3>2 DEF ElementAt, NameAt
        <3> QED BY <3>1, <3>3
    <2>5. (CHOOSE i \in DOMAIN part : IsElement(part, i)) = p - a
        BY <1>1, <2>2, <2>3, <2>4
    <2>6. Means(part) = Seg(SubSeq(part, 1, (p - a) - 1),
                            Index(Decimal(SubSeq(part, (p - a) + 1, Len(part) - 1))))
        BY <2>1, <2>5 DEF Means
    <2>7. p - a < u - a
        BY <1>7 DEF ElementAt
    <2>8. /\ SubSeq(part, 1, (p - a) - 1) = SubSeq(path, a + 1, (a + (p - a)) - 1)
          /\ SubSeq(part, (p - a) + 1, Len(part) - 1) = SubSeq(path, (a + (p - a)) + 1, u - 1)
        BY <1>4, <2>2, <2>7
    <2> QED BY <2>2, <2>6, <2>8
<1> QED BY <1>3, <1>5, <1>6, <1>7 DEF part

LEMMA IndexChars ==
    ASSUME NEW path \in Seq(STRING), NEW p \in Nat, NEW q \in Nat, p < q, q =< Len(path) + 1,
           IndexAt(path, p, q)
    PROVE  p + 1 < q /\ \A r \in (p + 1)..(q - 1) : path[r] \notin {".", "[", "]"}
<1> DEFINE content == SubSeq(path, p + 1, q - 1)
<1>1. q - 1 \in Nat /\ p =< q - 1 /\ q - 1 =< Len(path)
    BY LenProperties
<1>2. /\ DOMAIN content = 1..((q - 1) - p) /\ (content = <<>> <=> p = q - 1)
      /\ \A i \in 1..((q - 1) - p) : content[i] = path[p + i]
    BY <1>1, SliceIs
<1> HIDE DEF content
<1>3. content # <<>> /\ \A i \in DOMAIN content : content[i] \in DOMAIN Digit
    BY DEF IndexAt, IsIndex, Digits, content
<1>4. p + 1 < q
    BY <1>2, <1>3
<1>5. ASSUME NEW r \in (p + 1)..(q - 1) PROVE path[r] \notin {".", "[", "]"}
    <2>1. r - p \in 1..((q - 1) - p) /\ p + (r - p) = r
        BY <1>1
    <2>2. path[r] \in DOMAIN Digit
        BY <1>2, <1>3, <2>1
    <2> QED BY <2>2, PathAssumption
<1> QED BY <1>4, <1>5

LEMMA DecimalIs ==
    ASSUME NEW content \in Seq(STRING), Digits(content)
    PROVE  Decimal(content) \in Nat
<1> DEFINE n == Len(content)
           E(f, i) == IF i = 0 THEN 0 ELSE 10 * f[i - 1] + Digit[content[i]]
           P(f, k) == f = [i \in 0..k |-> E(f, i)]
           value == CHOOSE f : P(f, n)
           S == {k \in Nat : k =< n => \E f : P(f, k)}
           T == {k \in Nat : k =< n => value[k] \in Nat}
<1>1. n \in Nat /\ \A i \in 1..n : Digit[content[i]] \in Nat
    <2>1. n \in Nat /\ DOMAIN content = 1..n
        BY LenProperties
    <2> QED BY <2>1, PathAssumption DEF Digits
<1>2. Decimal(content) = value[n]
    BY DEF Decimal
<1> HIDE DEF n, value
<1>3. 0 \in S
    <2>1. P([i \in 0..0 |-> 0], 0)
        OBVIOUS
    <2> HIDE DEF P
    <2> QED BY <2>1
<1>4. ASSUME NEW k \in Nat, k \in S PROVE k + 1 \in S
    <2> SUFFICES ASSUME k + 1 =< n PROVE \E f : P(f, k + 1)
        OBVIOUS
    <2>1. PICK f : P(f, k)
        <3> HIDE DEF P
        <3> QED BY <1>1, <1>4
    <2> DEFINE g == [i \in 0..(k + 1) |-> IF i = k + 1 THEN E(f, i) ELSE f[i]]
    <2>2. ASSUME NEW i \in 0..(k + 1) PROVE g[i] = E(g, i)
        <3>1. i # 0 => i - 1 \in 0..(k + 1) /\ i - 1 # k + 1
            OBVIOUS
        <3>2. i # k + 1 => i \in 0..k
            OBVIOUS
        <3>3. i # k + 1 => f[i] = E(f, i)
            BY <2>1, <3>2
        <3>4. i # 0 => g[i - 1] = f[i - 1]
            BY <3>1
        <3> QED BY <3>3, <3>4
    <2>3. P(g, k + 1)
        <3> HIDE DEF E
        <3> QED BY <2>2
    <2> HIDE DEF P, g
    <2> QED BY <2>3
<1>5. P(value, n)
    <2>1. \E f : P(f, n)
        <3> HIDE DEF P
        <3>1. Nat \subseteq S
            <4> HIDE DEF S
            <4> QED BY <1>3, <1>4, NatSetInduction
        <3> QED BY <1>1, <3>1
    <2> HIDE DEF P
    <2> QED BY <2>1 DEF value
<1>6. \A i \in 0..n : value[i] = E(value, i)
    BY <1>5
<1>7. 0 \in T
    BY <1>1, <1>6
<1>8. ASSUME NEW k \in Nat, k \in T PROVE k + 1 \in T
    <2> SUFFICES ASSUME k + 1 =< n PROVE value[k + 1] \in Nat
        OBVIOUS
    <2>1. k + 1 \in 0..n /\ k + 1 \in 1..n /\ k + 1 # 0 /\ (k + 1) - 1 = k /\ k =< n
        BY <1>1
    <2>2. value[k + 1] = 10 * value[k] + Digit[content[k + 1]]
        BY <1>6, <2>1
    <2>3. value[k] \in Nat /\ Digit[content[k + 1]] \in Nat
        BY <1>1, <1>8, <2>1
    <2> QED BY <2>2, <2>3
<1>9. Nat \subseteq T
    <2> HIDE DEF T
    <2> QED BY <1>7, <1>8, NatSetInduction
<1> QED BY <1>1, <1>2, <1>9

\* Brackets, with no other end of an index between them.
Brackets(path, i, j) ==
    /\ i \in DOMAIN path /\ j \in DOMAIN path /\ i < j /\ path[i] = "[" /\ path[j] = "]"
    /\ \A k \in (i + 1)..(j - 1) : path[k] # "]"
\* The part behind a, up to the cut b, is a name with brackets that hold no index.
WrongAt(path, a, b) ==
    \E i \in (a + 1)..(b - 1) : \E j \in DOMAIN path :
        Brackets(path, i, j) /\ ~IndexAt(path, i, j) /\ NameAt(path, a, i - 1)

\* An iteration reads the part behind its position, or finds what is wrong there.
LEMMA SegmentIs ==
    ASSUME NEW path \in Seq(STRING), NEW a \in Cuts(path), a < Len(path)
    PROVE  LET s == segment(path, a)
               b == NextCut(path, a)
               part == SubSeq(path, a + 1, b - 1)
           IN  \/ /\ s.err = "nil" /\ s.next = b - 1 /\ IsPart(part) /\ s.seg = Means(part)
                  /\ ~WrongAt(path, a, b)
               \/ /\ s.err = "ErrIndexOutOfRange" /\ ~IsPart(part) /\ WrongAt(path, a, b)
               \/ /\ s.err = "ErrFieldNotFound" /\ ~IsPart(part) /\ ~WrongAt(path, a, b)
<1> DEFINE n == Len(path)
           b == NextCut(path, a)
           u == b - 1
           part == SubSeq(path, a + 1, u)
           br == Until(path, a, {".", "["})
           name == SubSeq(path, a + 1, br)
           close == Until(path, br + 1, {"]"})
           text == SubSeq(path, br + 2, close)
           content == parseIndexContent(text)
           s == segment(path, a)
           Right == /\ s.err = "nil" /\ s.next = u /\ IsPart(part) /\ s.seg = Means(part)
                    /\ ~WrongAt(path, a, b)
           Wrong == s.err = "ErrIndexOutOfRange" /\ ~IsPart(part) /\ WrongAt(path, a, b)
           None == s.err = "ErrFieldNotFound" /\ ~IsPart(part) /\ ~WrongAt(path, a, b)
<1> SUFFICES Right \/ Wrong \/ None
    OBVIOUS
<1>1. n \in Nat /\ DOMAIN path = 1..n /\ a \in Nat
    BY PathIs
<1>2. /\ b \in Nat /\ a < b /\ b =< n + 1
      /\ \A i \in (a + 1)..u : path[i] # "."
      /\ b =< n => path[b] = "."
    BY <1>1, NextCutIs, PathIs
<1>3. /\ br \in Nat /\ br =< n /\ a =< br
      /\ \A i \in a..(br - 1) : path[i + 1] \notin {".", "["}
      /\ br < n => path[br + 1] \in {".", "["}
    BY <1>1, UntilIs
<1>4. /\ close \in Nat /\ close =< n
      /\ br + 1 =< n => br + 1 =< close
      /\ \A i \in (br + 1)..(close - 1) : path[i + 1] # "]"
      /\ close < n => br + 1 =< close /\ path[close + 1] = "]"
    <2>1. br + 1 \in Nat
        BY <1>3
    <2> HIDE DEF br
    <2> QED BY <1>1, <2>1, UntilIs
<1>5. s = IF name = <<>> THEN [err |-> "ErrFieldNotFound", seg |-> Seg(name, NoIndex), next |-> n]
          ELSE IF br = n \/ path[br + 1] = "." THEN [err |-> "nil", seg |-> Seg(name, NoIndex), next |-> br]
          ELSE IF close = n THEN [err |-> "ErrFieldNotFound", seg |-> Seg(name, NoIndex), next |-> n]
          ELSE IF content.err # "nil" THEN [err |-> content.err, seg |-> Seg(name, NoIndex), next |-> n]
          ELSE IF close + 1 < n /\ path[close + 2] # "."
               THEN [err |-> "ErrFieldNotFound", seg |-> Seg(name, NoIndex), next |-> n]
          ELSE [err |-> "nil", seg |-> Seg(name, content.index), next |-> close + 1]
    BY DEF segment
<1>6. content = IF ~IsIndex(text) THEN [err |-> "ErrIndexOutOfRange", index |-> NoIndex]
                ELSE [err |-> "nil", index |-> Index(Decimal(text))]
    <2> HIDE DEF text
    <2>1. ~IsIndex(text) <=> (text = <<>> \/ ~Digits(text) \/ Decimal(text) > MaxIndex)
        <3>1. text \in Seq(STRING)
            <4>1. \A i \in (br + 2)..close : path[i] \in STRING
                BY <1>1, <1>3, <1>4, ElementOfSeq
            <4>2. br + 2 \in Int /\ close \in Int
                BY <1>3, <1>4
            <4> HIDE DEF br, close
            <4> QED BY <4>1, <4>2, SubSeqProperties DEF text
        <3>2. Digits(text) => Decimal(text) \in Nat
            BY <3>1, DecimalIs
        <3> QED BY <3>2, PathAssumption DEF IsIndex
    <2> QED BY <2>1 DEF parseIndexContent
<1>7. name = <<>> <=> a = br
    <2> HIDE DEF br
    <2> QED BY <1>1, <1>3, SliceIs
<1>8. /\ IsPart(part) <=> NameAt(path, a, u) \/ \E p \in (a + 1)..u : ElementAt(path, a, u, p)
      /\ NameAt(path, a, u) => Means(part) = Seg(part, NoIndex)
      /\ \A p \in (a + 1)..u :
            ElementAt(path, a, u, p) =>
                Means(part) = Seg(SubSeq(path, a + 1, p - 1), Index(Decimal(SubSeq(path, p + 1, u - 1))))
    <2>1. u \in Nat /\ a =< u /\ u =< n
        BY <1>1, <1>2
    <2> HIDE DEF u
    <2> QED BY <1>1, <2>1, PartIs
<1> HIDE DEF n, b, br, close, content, s
<1>9. br =< u
    <2>1. u < br => u \in a..(br - 1) /\ u + 1 = b
        BY <1>1, <1>2, <1>3
    <2>2. u < br => b =< n
        BY <1>1, <1>2, <1>3
    <2>3. u < br => path[b] = "." /\ path[b] # "."
        BY <1>2, <1>3, <2>1, <2>2
    <2> QED BY <1>2, <1>3, <2>3
<1>10. \A r \in (a + 1)..br : path[r] # "["
    <2> TAKE r \in (a + 1)..br
    <2>1. r - 1 \in a..(br - 1) /\ (r - 1) + 1 = r
        BY <1>1, <1>3
    <2> QED BY <1>3, <2>1
<1>11. CASE br = n \/ path[br + 1] = "."
    <2>1. br = u
        <3>1. br + 1 \in (a + 1)..u \/ br = u
            BY <1>1, <1>2, <1>3, <1>9
        <3>2. br = n => br = u
            BY <1>1, <1>2, <1>9
        <3> QED BY <1>2, <1>11, <3>1, <3>2
    <2>2. ~WrongAt(path, a, b)
        BY <1>10, <2>1 DEF WrongAt, Brackets
    <2>3. \A p \in (a + 1)..u : ~ElementAt(path, a, u, p)
        BY <1>10, <2>1 DEF ElementAt
    <2>4. NameAt(path, a, u) <=> a # br
        BY <1>10, <2>1 DEF NameAt
    <2>5. CASE a = br
        <3>1. s.err = "ErrFieldNotFound"
            BY <1>5, <1>7, <2>5
        <3> QED BY <1>8, <2>2, <2>3, <2>4, <2>5, <3>1
    <2>6. CASE a # br
        <3>1. s.err = "nil" /\ s.seg = Seg(name, NoIndex) /\ s.next = br
            BY <1>5, <1>7, <1>11, <2>6
        <3> QED BY <1>8, <2>1, <2>2, <2>4, <2>6, <3>1
    <2> QED BY <2>5, <2>6
<1>12. CASE ~(br = n \/ path[br + 1] = ".")
    <2> DEFINE i == br + 1
    <2>1. br < n /\ path[i] = "[" /\ i \in (a + 1)..u /\ i \in DOMAIN path
        <3>1. br < n /\ path[br + 1] = "["
            BY <1>1, <1>3, <1>12
        <3>2. br # u
            <4>1. br = u => b = br + 1 /\ b =< n
                BY <1>1, <1>2, <1>3, <3>1
            <4>2. br = u => path[b] = "." /\ path[b] = "["
                BY <1>2, <3>1, <4>1
            <4> QED BY <4>2
        <3> QED BY <1>1, <1>2, <1>3, <1>9, <3>1, <3>2
    <2>2. NameAt(path, a, i - 1) <=> a # br
        <3>1. i - 1 = br
            BY <1>3
        <3> QED BY <1>10, <3>1 DEF NameAt
    <2>3. ASSUME NEW p \in (a + 1)..u, path[p] = "[", NameAt(path, a, p - 1)
          PROVE  p = i /\ a # br
        <3>1. ~(i \in (a + 1)..(p - 1))
            BY <2>1, <2>3 DEF NameAt
        <3>2. ~(p \in (a + 1)..br)
            BY <1>10, <2>3
        <3>3. p = i
            BY <1>1, <1>2, <1>3, <2>1, <3>1, <3>2
        <3> QED BY <2>2, <2>3, <3>3
    <2>4. IsPart(part) <=> ElementAt(path, a, u, i)
        <3>1. ~NameAt(path, a, u)
            BY <2>1 DEF NameAt
        <3>2. ASSUME NEW p \in (a + 1)..u, ElementAt(path, a, u, p) PROVE p = i
            BY <2>3, <3>2 DEF ElementAt
        <3> QED BY <1>8, <2>1, <3>1, <3>2
    <2>5. IsPart(part) => path[u] = "]" /\ i + 1 < u /\ a # br /\ IndexAt(path, i, u)
                          /\ \A r \in (i + 1)..(u - 1) : path[r] \notin {".", "[", "]"}
        <3>1. i \in Nat /\ u \in Nat /\ u =< Len(path) + 1
            BY <1>1, <1>2, <1>3 DEF n
        <3> HIDE DEF i, u
        <3>2. ASSUME ElementAt(path, a, u, i)
              PROVE  i + 1 < u /\ \A r \in (i + 1)..(u - 1) : path[r] \notin {".", "[", "]"}
            BY <3>1, <3>2, IndexChars DEF ElementAt
        <3> QED BY <2>2, <2>4, <3>2 DEF ElementAt
    <2>6. WrongAt(path, a, b) <=> a # br /\ \E j \in DOMAIN path : Brackets(path, i, j) /\ ~IndexAt(path, i, j)
        <3>1. ASSUME WrongAt(path, a, b)
              PROVE  a # br /\ \E j \in DOMAIN path : Brackets(path, i, j) /\ ~IndexAt(path, i, j)
            <4>1. PICK p \in (a + 1)..u, j \in DOMAIN path :
                      Brackets(path, p, j) /\ ~IndexAt(path, p, j) /\ NameAt(path, a, p - 1)
                BY <3>1 DEF WrongAt
            <4>2. p = i /\ a # br
                BY <2>3, <4>1 DEF Brackets
            <4> QED BY <4>1, <4>2
        <3>2. ASSUME a # br, NEW j \in DOMAIN path, Brackets(path, i, j), ~IndexAt(path, i, j)
              PROVE  WrongAt(path, a, b)
            <4>1. NameAt(path, a, i - 1)
                BY <2>2, <3>2
            <4> HIDE DEF i
            <4> QED BY <2>1, <3>2, <4>1 DEF WrongAt
        <3> QED BY <3>1, <3>2
    <2>7. CASE a = br
        <3>1. s.err = "ErrFieldNotFound"
            BY <1>5, <1>7, <2>7
        <3> QED BY <2>5, <2>6, <2>7, <3>1
    <2>8. CASE a # br /\ close = n
        <3>1. s.err = "ErrFieldNotFound"
            BY <1>5, <1>7, <1>12, <2>8
        <3>2. \A r \in (i + 1)..n : path[r] # "]"
            <4> TAKE r \in (i + 1)..n
            <4>1. r - 1 \in (br + 1)..(close - 1) /\ (r - 1) + 1 = r
                BY <1>1, <1>3, <2>8
            <4> QED BY <1>4, <4>1
        <3>3. ~IsPart(part)
            <4>1. i + 1 < u => u \in (i + 1)..n
                BY <1>1, <1>2, <1>3
            <4> QED BY <2>5, <3>2, <4>1
        <3>4. \A j \in DOMAIN path : ~Brackets(path, i, j)
            <4>1. \A j \in 1..n : i < j => j \in (i + 1)..n
                BY <1>1, <1>3
            <4> QED BY <1>1, <3>2, <4>1 DEF Brackets
        <3> QED BY <2>6, <3>1, <3>3, <3>4
    <2>9. CASE a # br /\ close # n
        <3> DEFINE q == close + 1
        <3>1. /\ q \in DOMAIN path /\ i < q /\ path[q] = "]"
              /\ \A r \in (i + 1)..(q - 1) : path[r] # "]"
            <4>1. close < n /\ br + 1 =< close /\ path[q] = "]" /\ q \in 1..n /\ i < q
                BY <1>1, <1>3, <1>4, <2>9
            <4>2. ASSUME NEW r \in (i + 1)..(q - 1) PROVE path[r] # "]"
                <5>1. r - 1 \in (br + 1)..(close - 1) /\ (r - 1) + 1 = r
                    BY <1>3, <1>4
                <5> QED BY <1>4, <5>1
            <4> QED BY <1>1, <4>1, <4>2
        <3>2. Brackets(path, i, q)
            BY <2>1, <3>1 DEF Brackets
        <3>3. ASSUME NEW j \in DOMAIN path, Brackets(path, i, j) PROVE j = q
            <4>1. ~(j \in (i + 1)..(q - 1)) /\ ~(q \in (i + 1)..(j - 1))
                BY <3>1, <3>3 DEF Brackets
            <4>2. i < j /\ j \in 1..n /\ q \in 1..n /\ i < q /\ i \in Nat
                BY <1>1, <1>3, <3>1, <3>3 DEF Brackets
            <4> HIDE DEF i, q
            <4> QED BY <1>1, <4>1, <4>2
        <3>4. IndexAt(path, i, q) <=> IsIndex(text)
            <4>1. i + 1 = br + 2 /\ q - 1 = close
                BY <1>3, <1>4
            <4> QED BY <4>1 DEF IndexAt
        <3>5. WrongAt(path, a, b) <=> ~IsIndex(text)
            <4> HIDE DEF i, q
            <4> QED BY <2>6, <2>9, <3>1, <3>2, <3>3, <3>4
        <3>6. IsPart(part) => u = q
            <4> SUFFICES ASSUME IsPart(part) PROVE u = q
                OBVIOUS
            <4>1. path[u] = "]" /\ i + 1 < u /\ \A r \in (i + 1)..(u - 1) : path[r] # "]"
                BY <2>5
            <4>2. ~(u \in (i + 1)..(q - 1)) /\ ~(q \in (i + 1)..(u - 1))
                BY <3>1, <4>1
            <4>3. i \in Nat /\ q \in Nat /\ u \in Nat /\ i < q
                BY <1>1, <1>2, <1>3, <1>4, <3>1
            <4> HIDE DEF i, q, u
            <4> QED BY <4>1, <4>2, <4>3
        <3>7. CASE ~IsIndex(text)
            <4>1. s.err = "ErrIndexOutOfRange"
                BY <1>5, <1>6, <1>7, <1>12, <2>9, <3>7
            <4>2. ~IsPart(part)
                BY <2>5, <3>4, <3>6, <3>7
            <4> QED BY <3>5, <3>7, <4>1, <4>2
        <3>8. CASE IsIndex(text) /\ close + 1 < n /\ path[close + 2] # "."
            <4>1. s.err = "ErrFieldNotFound"
                BY <1>5, <1>6, <1>7, <1>12, <2>9, <3>8
            <4>2. u # q
                <5>1. u = q => b = close + 2 /\ b =< n
                    BY <1>1, <1>2, <1>4, <3>8
                <5> QED BY <1>2, <3>8, <5>1
            <4> QED BY <3>5, <3>6, <3>8, <4>1, <4>2
        <3>9. CASE IsIndex(text) /\ ~(close + 1 < n /\ path[close + 2] # ".")
            <4>1. s.err = "nil" /\ s.seg = Seg(name, Index(Decimal(text))) /\ s.next = q
                BY <1>5, <1>6, <1>7, <1>12, <2>9, <3>9
            <4>2. i \in Nat /\ q \in Nat /\ i < q /\ q =< n /\ u \in Nat /\ u =< n /\ i =< u /\ b = u + 1
                BY <1>1, <1>2, <1>3, <1>4, <2>1, <3>1
            <4>3. i + 1 < q /\ \A r \in (i + 1)..(q - 1) : path[r] # "."
                <5> HIDE DEF i, q
                <5> QED BY <3>4, <3>9, <4>2, IndexChars DEF n
            <4>4. u >= q
                <5>1. b < q => b \in (i + 1)..(q - 1)
                    BY <4>2
                <5>2. b # q \/ path[b] = "]"
                    BY <3>1
                <5>3. b =< n => path[b] = "."
                    BY <1>2
                <5>4. b =< q => b =< n
                    BY <1>1, <1>2, <1>4, <4>2
                <5>5. ~(b =< q)
                    <6>1. b < q => FALSE
                        BY <4>2, <4>3, <5>1, <5>3, <5>4
                    <6>2. b # q
                        BY <4>2, <5>2, <5>3, <5>4
                    <6> QED BY <4>2, <6>1, <6>2
                <5> QED BY <4>2, <5>5
            <4>5. u = q
                <5>1. q + 1 = close + 2
                    BY <1>4
                <5>2. q < n => path[q + 1] = "."
                    BY <3>9, <5>1
                <5>3. u > q => q + 1 \in (a + 1)..u /\ q < n
                    BY <1>1, <1>2, <4>2, <2>1
                <5>4. ~(u > q)
                    BY <1>2, <5>2, <5>3
                <5> QED BY <4>2, <4>4, <5>4
            <4>6. ElementAt(path, a, u, i)
                BY <2>1, <2>2, <2>9, <3>1, <3>4, <3>9, <4>5 DEF ElementAt
            <4>7. Means(part) = Seg(name, Index(Decimal(text)))
                <5>1. i - 1 = br /\ i + 1 = br + 2 /\ u - 1 = close
                    BY <1>3, <1>4, <4>5
                <5> QED BY <1>8, <2>1, <4>6, <5>1
            <4> QED BY <2>4, <3>5, <3>9, <4>1, <4>5, <4>6, <4>7
        <3> QED BY <3>7, <3>8, <3>9
    <2> QED BY <2>7, <2>8, <2>9
<1> QED BY <1>11, <1>12

\* What is wrong behind a cut: the first part that is not right has brackets that hold no
\* index.
PartAfter(path, a) == SubSeq(path, a + 1, NextCut(path, a) - 1)
RightUntil(path, a, i) ==
    \A c \in Cuts(path) : a =< c /\ c < i =>
        IF NextCut(path, c) < i THEN IsPart(PartAfter(path, c)) ELSE NameAt(path, c, i - 1)
WrongFrom(path, a) ==
    \E i, j \in DOMAIN path :
        Brackets(path, i, j) /\ ~IndexAt(path, i, j) /\ a < i /\ RightUntil(path, a, i)

LEMMA WrongStep ==
    ASSUME NEW path \in Seq(STRING), NEW a \in Cuts(path), a =< Len(path)
    PROVE  LET b == NextCut(path, a)
           IN  WrongFrom(path, a) <=>
                  \/ WrongAt(path, a, b)
                  \/ b =< Len(path) /\ IsPart(PartAfter(path, a)) /\ WrongFrom(path, b)
<1> DEFINE n == Len(path)
           b == NextCut(path, a)
<1>1. n \in Nat /\ DOMAIN path = 1..n /\ Cuts(path) \subseteq 0..(n + 1)
    BY PathIs
<1>2. /\ b \in Cuts(path) /\ a < b /\ b =< n + 1
      /\ \A e \in Cuts(path) : a < e => b =< e
      /\ b =< n => path[b] = "."
    BY NextCutIs
<1> HIDE DEF n, b
<1>3. a \in Nat /\ b \in Nat
    BY <1>1, <1>2
<1>4. ASSUME NEW i \in DOMAIN path, a < i, i < b
      PROVE  RightUntil(path, a, i) <=> NameAt(path, a, i - 1)
    <2>1. i \in Nat
        BY <1>1
    <2>2. \A c \in Cuts(path) : a =< c /\ c < i => c = a
        <3> TAKE c \in Cuts(path)
        <3>1. c \in Nat /\ (a < c => b =< c)
            BY <1>1, <1>2
        <3> QED BY <1>3, <1>4, <2>1, <3>1
    <2>3. a =< a /\ ~(b < i)
        BY <1>3, <1>4, <2>1
    <2> QED BY <1>4, <2>2, <2>3 DEF RightUntil, b
<1>5. ASSUME NEW i \in DOMAIN path, path[i] = "[", ~(i < b)
      PROVE  /\ b =< n /\ b < i
             /\ RightUntil(path, a, i) <=> IsPart(PartAfter(path, a)) /\ RightUntil(path, b, i)
    <2>1. i \in Nat /\ i =< n
        BY <1>1
    <2>2. b =< n /\ b < i
        <3>1. b =< n
            BY <1>1, <1>3, <1>5, <2>1
        <3>2. b # i
            BY <1>2, <1>5, <3>1
        <3> QED BY <1>3, <1>5, <2>1, <3>1, <3>2
    <2>3. \A c \in Cuts(path) : (a =< c /\ c < i) <=> (c = a \/ (b =< c /\ c < i))
        <3> TAKE c \in Cuts(path)
        <3>1. c \in Nat /\ (a < c => b =< c)
            BY <1>1, <1>2
        <3> QED BY <1>2, <1>3, <2>1, <2>2, <3>1
    <2> QED BY <2>2, <2>3 DEF RightUntil, b
<1>6. ASSUME WrongFrom(path, a)
      PROVE  \/ WrongAt(path, a, b)
             \/ b =< n /\ IsPart(PartAfter(path, a)) /\ WrongFrom(path, b)
    <2>1. PICK i \in DOMAIN path, j \in DOMAIN path :
              Brackets(path, i, j) /\ ~IndexAt(path, i, j) /\ a < i /\ RightUntil(path, a, i)
        BY <1>6 DEF WrongFrom
    <2>2. i < b => i \in (a + 1)..(b - 1)
        BY <1>1, <1>3, <2>1
    <2> QED BY <1>4, <1>5, <2>1, <2>2 DEF WrongFrom, WrongAt, Brackets
<1>7. ASSUME WrongAt(path, a, b) PROVE WrongFrom(path, a)
    <2>1. PICK i \in (a + 1)..(b - 1), j \in DOMAIN path :
              Brackets(path, i, j) /\ ~IndexAt(path, i, j) /\ NameAt(path, a, i - 1)
        BY <1>7 DEF WrongAt
    <2>2. i \in DOMAIN path /\ a < i /\ i < b
        BY <1>3, <2>1 DEF Brackets
    <2> QED BY <1>4, <2>1, <2>2 DEF WrongFrom
<1>8. ASSUME b =< n, IsPart(PartAfter(path, a)), WrongFrom(path, b)
      PROVE  WrongFrom(path, a)
    <2>1. PICK i \in DOMAIN path, j \in DOMAIN path :
              Brackets(path, i, j) /\ ~IndexAt(path, i, j) /\ b < i /\ RightUntil(path, b, i)
        BY <1>8 DEF WrongFrom
    <2>2. a < i /\ ~(i < b)
        BY <1>1, <1>2, <1>3, <2>1
    <2> QED BY <1>5, <1>8, <2>1, <2>2 DEF WrongFrom, Brackets
<1> QED BY <1>6, <1>7, <1>8 DEF n, b

LEMMA PrefixIs ==
    ASSUME NEW path \in Seq(STRING), NEW m \in Nat, m =< Len(path)
    PROVE  LET q == SubSeq(path, 1, m)
           IN  /\ q \in Seq(STRING) /\ Len(q) = m /\ (q = <<>> <=> m = 0)
               /\ \A x \in 1..m : q[x] = path[x]
               /\ \A c, d \in 0..m : SubSeq(q, c + 1, d) = SubSeq(path, c + 1, d)
<1> DEFINE z == 0
           r == SubSeq(path, z + 1, m)
<1>1. z \in Nat /\ z =< m
    OBVIOUS
<1>2. r = SubSeq(path, 1, m)
    OBVIOUS
<1>3. /\ m - z = m /\ (z = m <=> m = 0) /\ \A x \in 1..m : z + x = x
      /\ \A c, d \in 0..m : z + c + 1 = c + 1 /\ z + d = d
    OBVIOUS
<1> HIDE DEF z
<1>4. /\ r \in Seq(STRING) /\ Len(r) = m - z /\ (r = <<>> <=> z = m)
      /\ \A x \in 1..(m - z) : r[x] = path[z + x]
      /\ \A c, d \in 0..(m - z) : SubSeq(r, c + 1, d) = SubSeq(path, z + c + 1, z + d)
    BY <1>1, SliceIs
<1>5. /\ r \in Seq(STRING) /\ Len(r) = m /\ (r = <<>> <=> m = 0)
      /\ \A x \in 1..m : r[x] = path[x]
      /\ \A c, d \in 0..m : SubSeq(r, c + 1, d) = SubSeq(path, c + 1, d)
    <2> HIDE DEF r
    <2>1. \A x \in 1..m : r[x] = path[x]
        BY <1>3, <1>4
    <2>2. \A c, d \in 0..m : SubSeq(r, c + 1, d) = SubSeq(path, c + 1, d)
        BY <1>3, <1>4
    <2> QED BY <1>3, <1>4, <2>1, <2>2
<1> QED BY <1>2, <1>5

LEMMA WrongIndexIs ==
    ASSUME NEW path \in Seq(STRING), path # <<>>
    PROVE  WrongIndex(path) <=> WrongFrom(path, 0)
<1> DEFINE n == Len(path)
<1>1. n \in Nat /\ DOMAIN path = 1..n /\ Cuts(path) \subseteq 0..(n + 1) /\ 0 \in Cuts(path)
    BY PathIs
<1>2. ASSUME NEW i \in DOMAIN path, path[i] = "["
      PROVE  (LET before == Parts(SubSeq(path, 1, i - 1))
              IN  /\ before # <<>> /\ IsName(before[Len(before)])
                  /\ \A k \in DOMAIN before : IsPart(before[k]))
             <=> RightUntil(path, 0, i)
    <2> DEFINE q == SubSeq(path, 1, i - 1)
               before == Parts(q)
    <2>1. i \in Nat /\ i - 1 \in Nat /\ i =< n /\ 0 =< i - 1 /\ i - 1 =< n /\ 0 < i
        BY <1>1
    <2>2. /\ q \in Seq(STRING) /\ Len(q) = i - 1 /\ (q = <<>> <=> i = 1)
          /\ \A x \in 1..(i - 1) : q[x] = path[x]
          /\ \A c, d \in 0..(i - 1) : SubSeq(q, c + 1, d) = SubSeq(path, c + 1, d)
        <3>1. i - 1 = 0 <=> i = 1
            BY <2>1
        <3> QED BY <2>1, <3>1, PrefixIs
    <2> HIDE DEF q, n
    <2>3. CASE i = 1
        <3>1. before = <<>>
            BY <2>2, <2>3 DEF Parts
        <3>2. ~RightUntil(path, 0, i)
            <4>1. NextCut(path, 0) \in Cuts(path) /\ 0 < NextCut(path, 0)
                BY <1>1, <2>1, NextCutIs DEF n
            <4>2. ~(NextCut(path, 0) < i) /\ 0 =< 0 /\ 0 < i /\ 0 = i - 1
                BY <1>1, <2>3, <4>1
            <4>3. ~NameAt(path, 0, i - 1)
                BY <4>2, Zenon DEF NameAt
            <4> QED BY <1>1, <4>2, <4>3 DEF RightUntil
        <3> QED BY <3>1, <3>2 DEF q
    <2>4. CASE i # 1
        <3>0. PICK K \in Nat \ {0} : \E dot : DotsAre(q, K, dot)
            BY <2>2, <2>4, PartsAre
        <3>a. PICK dot : DotsAre(q, K, dot)
            BY <3>0
        <3>1. /\ \A k \in 0..K : dot[k] \in Cuts(q)
              /\ dot[0] = 0 /\ dot[K] = Len(q) + 1
              /\ \A k \in 0..(K - 1) : dot[k] =< Len(q) /\ dot[k + 1] = NextCut(q, dot[k])
              /\ \A a \in Cuts(q) : \E k \in 0..K : dot[k] = a
              /\ Parts(q) = [k \in 1..K |-> SubSeq(q, dot[k - 1] + 1, dot[k] - 1)]
            BY <3>a DEF DotsAre
        <3>2. /\ \A c \in Cuts(q) : c = i \/ (c \in Cuts(path) /\ c < i)
              /\ \A c \in Cuts(path) : c < i => c \in Cuts(q)
              /\ i \in Cuts(q)
            <4>1. Cuts(q) = {0, i} \cup {x \in 1..(i - 1) : path[x] = "."}
                <5>1. DOMAIN q = 1..(i - 1) /\ Len(q) + 1 = i
                    BY <2>1, <2>2, LenProperties
                <5>2. {x \in DOMAIN q : q[x] = "."} = {x \in 1..(i - 1) : path[x] = "."}
                    BY <2>2, <5>1
                <5> QED BY <5>1, <5>2 DEF Cuts
            <4>2. Cuts(path) = {0, n + 1} \cup {x \in 1..n : path[x] = "."}
                BY <1>1 DEF Cuts, n
            <4>3. ASSUME NEW c \in Cuts(q) PROVE c = i \/ (c \in Cuts(path) /\ c < i)
                <5>1. CASE c \in 1..(i - 1) /\ path[c] = "."
                    <6>1. c \in 1..n /\ c < i
                        BY <1>1, <2>1, <5>1
                    <6> QED BY <4>2, <5>1, <6>1
                <5>2. CASE c = 0
                    BY <2>1, <4>2, <5>2
                <5> QED BY <4>1, <5>1, <5>2
            <4>4. ASSUME NEW c \in Cuts(path), c < i PROVE c \in Cuts(q)
                <5>1. CASE c \in 1..n /\ path[c] = "."
                    <6>1. c \in 1..(i - 1)
                        BY <2>1, <4>4, <5>1
                    <6> QED BY <4>1, <5>1, <6>1
                <5>2. CASE c = 0
                    BY <4>1, <5>2
                <5>3. c # n + 1
                    BY <1>1, <2>1, <4>4
                <5> QED BY <4>2, <5>1, <5>2, <5>3
            <4> QED BY <4>1, <4>3, <4>4
        <3>3. ASSUME NEW c \in Cuts(path), c < i
              PROVE  /\ NextCut(path, c) < i => NextCut(q, c) = NextCut(path, c)
                     /\ ~(NextCut(path, c) < i) => NextCut(q, c) = i
            <4> DEFINE b == NextCut(path, c)
                       e == NextCut(q, c)
            <4>1. c \in Nat /\ c \in Cuts(q) /\ c =< Len(q) /\ c =< n
                BY <1>1, <2>1, <2>2, <3>2, <3>3
            <4>2. /\ b \in Cuts(path) /\ c < b /\ \A x \in Cuts(path) : c < x => b =< x
                BY <4>1, NextCutIs DEF n
            <4>3. /\ e \in Cuts(q) /\ c < e /\ \A x \in Cuts(q) : c < x => e =< x
                BY <2>2, <4>1, NextCutIs
            <4> HIDE DEF b, e
            <4>4. b \in Nat /\ e \in Nat
                BY <1>1, <2>1, <3>2, <4>2, <4>3
            <4>5. b < i => b \in Cuts(q)
                BY <3>2, <4>2
            <4>6. e # i => e \in Cuts(path) /\ e < i
                BY <3>2, <4>3
            <4>7. e =< i
                BY <3>2, <3>3, <4>3
            <4> QED BY <2>1, <4>2, <4>3, <4>4, <4>5, <4>6, <4>7 DEF b, e
        <3>4. /\ K \in Nat /\ K >= 1 /\ before = [k \in 1..K |-> SubSeq(q, dot[k - 1] + 1, dot[k] - 1)]
              /\ DOMAIN before = 1..K /\ Len(before) = K /\ before # <<>> /\ dot[K] = i
            <4>1. K \in Nat /\ K >= 1 /\ before = [k \in 1..K |-> SubSeq(q, dot[k - 1] + 1, dot[k] - 1)]
                BY <3>1
            <4>2. dot[K] = i
                BY <2>1, <2>2, <3>1
            <4> HIDE DEF before
            <4>3. DOMAIN before = 1..K
                BY <4>1
            <4>4. Len(before) = K /\ before # <<>>
                BY <4>1, <4>3, ListLen
            <4> QED BY <4>1, <4>2, <4>3, <4>4
        <3>5. ASSUME NEW k \in 1..K
              PROVE  LET c == dot[k - 1]
                     IN  /\ c \in Cuts(path) /\ c \in Nat /\ c < i /\ dot[k] = NextCut(q, c)
                         /\ dot[k] = i <=> k = K
                         /\ NextCut(path, c) < i => before[k] = PartAfter(path, c)
                         /\ ~(NextCut(path, c) < i) => before[k] = SubSeq(path, c + 1, i - 1)
            <4> DEFINE c == dot[k - 1]
            <4>1. k - 1 \in 0..(K - 1) /\ (k - 1) + 1 = k /\ k - 1 \in 0..K /\ (k # K => k \in 0..(K - 1))
                BY <3>4
            <4>2. c \in Cuts(q) /\ c =< Len(q) /\ dot[k] = NextCut(q, c)
                BY <3>1, <4>1
            <4>3. c \in Cuts(path) /\ c < i /\ c \in Nat
                <5>1. c # i
                    BY <2>1, <2>2, <4>2
                <5> QED BY <1>1, <2>1, <3>2, <4>2, <5>1
            <4>4. dot[k] = i <=> k = K
                <5>1. k # K => dot[k] =< Len(q)
                    BY <3>1, <4>1
                <5>2. ~(i =< Len(q))
                    BY <2>1, <2>2
                <5> QED BY <3>4, <5>1, <5>2
            <4>5. before[k] = SubSeq(q, c + 1, dot[k] - 1)
                BY <3>4
            <4>6. NextCut(path, c) \in Nat /\ c < NextCut(path, c)
                <5>1. c =< n
                    BY <1>1, <2>1, <4>3
                <5> QED BY <1>1, <4>3, <5>1, NextCutIs DEF n
            <4> HIDE DEF c
            <4>7. ASSUME NextCut(path, c) < i PROVE before[k] = PartAfter(path, c)
                <5>1. dot[k] = NextCut(path, c)
                    BY <3>3, <4>2, <4>3, <4>7
                <5>2. c \in 0..(i - 1) /\ dot[k] - 1 \in 0..(i - 1)
                    BY <2>1, <4>3, <4>6, <4>7, <5>1
                <5> QED BY <2>2, <4>5, <5>1, <5>2 DEF PartAfter
            <4>8. ASSUME ~(NextCut(path, c) < i) PROVE before[k] = SubSeq(path, c + 1, i - 1)
                <5>1. dot[k] = i
                    BY <3>3, <4>2, <4>3, <4>8
                <5>2. c \in 0..(i - 1) /\ i - 1 \in 0..(i - 1)
                    BY <2>1, <4>3
                <5> QED BY <2>2, <4>5, <5>1, <5>2
            <4> QED BY <4>2, <4>3, <4>4, <4>7, <4>8 DEF c
        <3>6. ASSUME NEW c \in Nat, c < i
              PROVE  /\ IsName(SubSeq(path, c + 1, i - 1)) <=> NameAt(path, c, i - 1)
                     /\ NameAt(path, c, i - 1) => IsPart(SubSeq(path, c + 1, i - 1))
            <4>1. c =< i - 1
                BY <2>1, <3>6
            <4> QED BY <2>1, <4>1, PartIs DEF n
        <3> HIDE DEF before
        <3>7. ASSUME IsName(before[K]), \A k \in 1..K : IsPart(before[k])
              PROVE  RightUntil(path, 0, i)
            <4> SUFFICES ASSUME NEW c \in Cuts(path), c < i
                         PROVE  IF NextCut(path, c) < i THEN IsPart(PartAfter(path, c))
                                ELSE NameAt(path, c, i - 1)
                BY DEF RightUntil
            <4>1. PICK x \in 0..K : dot[x] = c
                BY <3>1, <3>2
            <4>2. x # K
                BY <1>1, <2>1, <3>4, <4>1
            <4>3. x + 1 \in 1..K /\ (x + 1) - 1 = x
                BY <3>4, <4>2
            <4>4. NextCut(path, c) < i => before[x + 1] = PartAfter(path, c)
                BY <3>5, <4>1, <4>3
            <4>5. ~(NextCut(path, c) < i) => x + 1 = K /\ before[K] = SubSeq(path, c + 1, i - 1)
                BY <3>3, <3>5, <4>1, <4>3
            <4>6. c \in Nat
                BY <3>5, <4>1, <4>3
            <4> QED BY <3>6, <3>7, <4>3, <4>4, <4>5, <4>6
        <3>8. ASSUME RightUntil(path, 0, i), NEW k \in 1..K
              PROVE  IsPart(before[k]) /\ (k = K => IsName(before[k]))
            <4> DEFINE c == dot[k - 1]
            <4>1. /\ c \in Cuts(path) /\ c \in Nat /\ c < i /\ dot[k] = NextCut(q, c)
                  /\ dot[k] = i <=> k = K
                  /\ NextCut(path, c) < i => before[k] = PartAfter(path, c)
                  /\ ~(NextCut(path, c) < i) => before[k] = SubSeq(path, c + 1, i - 1)
                BY <3>5
            <4> HIDE DEF c
            <4>2. IF NextCut(path, c) < i THEN IsPart(PartAfter(path, c)) ELSE NameAt(path, c, i - 1)
                BY <3>8, <4>1 DEF RightUntil
            <4>3. NextCut(path, c) < i => k # K
                <5>1. NextCut(path, c) < i => NextCut(path, c) # i
                    BY <2>1
                <5> QED BY <3>3, <4>1, <5>1
            <4> QED BY <3>6, <4>1, <4>2, <4>3
        <3>9. K \in 1..K
            BY <3>4
        <3> QED BY <3>4, <3>7, <3>8, <3>9 DEF before, q
    <2> QED BY <2>3, <2>4
<1>3. WrongIndex(path) <=>
          \E i, j \in DOMAIN path : Brackets(path, i, j) /\ ~IndexAt(path, i, j) /\ RightUntil(path, 0, i)
    <2>1. WrongIndex(path) <=>
              \E i, j \in DOMAIN path :
                  /\ Brackets(path, i, j) /\ ~IndexAt(path, i, j)
                  /\ LET before == Parts(SubSeq(path, 1, i - 1))
                     IN  /\ before # <<>> /\ IsName(before[Len(before)])
                         /\ \A k \in DOMAIN before : IsPart(before[k])
        BY DEF WrongIndex, Brackets, IndexAt
    <2> QED BY <1>2, <2>1 DEF Brackets
<1>4. \A i \in DOMAIN path : 0 < i
    BY <1>1
<1> QED BY <1>3, <1>4 DEF WrongFrom

\* The parser gives what a path means.
LEMMA PathRead ==
    ASSUME NEW path \in Seq(STRING)
    PROVE  parsePathBuf(path) = PathMeans(path)
<1> DEFINE n == Len(path)
<1>1. n \in Nat
    BY LenProperties
<1>2. PICK from : /\ \A pos \in 0..n : from[pos] = FromStep(from, path, pos)
                  /\ parsePathBuf(path) = from[0]
    BY PathLoop
<1>3. from[n] = AtEnd
    <2>1. from[n] = FromStep(from, path, n)
        BY <1>1, <1>2
    <2> QED BY <2>1, Zenon DEF FromStep
<1>4. CASE path = <<>>
    <2>1. n = 0
        BY <1>4
    <2>2. Parts(path) = <<>>
        BY <1>4 DEF Parts
    <2>3. PathMeans(path) = [err |-> "nil", segs |-> <<>>]
        <3>1. DOMAIN Parts(path) = {}
            BY <2>2
        <3>2. IsPath(path)
            BY <3>1 DEF IsPath
        <3>3. [k \in DOMAIN Parts(path) |-> Means(Parts(path)[k])] = <<>>
            BY <3>1
        <3> QED BY <3>2, <3>3 DEF PathMeans
    <2> QED BY <1>2, <1>3, <2>1, <2>3 DEF AtEnd
<1>5. CASE path # <<>>
    <2>0. PICK K \in Nat \ {0} : \E dot : DotsAre(path, K, dot)
        BY <1>5, PartsAre
    <2>a. PICK dot : DotsAre(path, K, dot)
        BY <2>0
    <2>1. /\ \A k \in 0..K : dot[k] \in Cuts(path)
          /\ dot[0] = 0 /\ dot[K] = n + 1
          /\ \A k \in 0..(K - 1) : dot[k] =< n /\ dot[k + 1] = NextCut(path, dot[k])
          /\ \A a \in Cuts(path) : \E k \in 0..K : dot[k] = a
          /\ Parts(path) = [k \in 1..K |-> SubSeq(path, dot[k - 1] + 1, dot[k] - 1)]
        BY <2>a DEF DotsAre
    <2> DEFINE parts == Parts(path)
               AllFrom(k) == \A m \in (k + 1)..K : IsPart(parts[m])
               Segs(k) == [m \in 1..(K - k) |-> Means(parts[k + m])]
               Result(k) == IF AllFrom(k) THEN [err |-> "nil", segs |-> Segs(k)]
                            ELSE Failed(IF WrongFrom(path, dot[k]) THEN "ErrIndexOutOfRange"
                                        ELSE "ErrFieldNotFound")
               S == {x \in Nat : x \in 1..K => (dot[K - x] < n => from[dot[K - x]] = Result(K - x))}
    <2>2. K \in Nat /\ K >= 1 /\ \A k \in 0..K : dot[k] \in Nat /\ dot[k] =< n + 1
        <3>1. \A k \in 0..K : dot[k] \in 0..(n + 1)
            BY <2>1, PathIs
        <3> QED BY <1>1, <2>1, <3>1
    <2> HIDE DEF n, parts
    <2>3. ASSUME NEW k \in 0..(K - 1)
          PROVE  /\ k + 1 \in 1..K /\ k \in 0..K /\ k + 1 \in 0..K /\ k \in Nat
                 /\ dot[k] \in Cuts(path) /\ dot[k] \in Nat /\ dot[k] =< n
                 /\ dot[k + 1] = NextCut(path, dot[k]) /\ dot[k + 1] \in Nat /\ dot[k + 1] =< n + 1
                 /\ parts[k + 1] = PartAfter(path, dot[k])
                 /\ dot[k + 1] = n + 1 <=> k + 1 = K
        <3>1. k + 1 \in 1..K /\ k \in 0..K /\ k + 1 \in 0..K /\ (k + 1) - 1 = k /\ k \in Nat
            BY <2>2
        <3>2. /\ dot[k] \in Cuts(path) /\ dot[k] =< n /\ dot[k + 1] = NextCut(path, dot[k])
              /\ dot[k] \in Nat /\ dot[k + 1] \in Nat /\ dot[k + 1] =< n + 1
            BY <2>1, <2>2, <3>1
        <3>3. parts[k + 1] = SubSeq(path, dot[(k + 1) - 1] + 1, dot[k + 1] - 1)
            BY <2>1, <3>1 DEF parts
        <3>4. k + 1 # K => dot[k + 1] =< n
            <4>1. k + 1 # K => k + 1 \in 0..(K - 1)
                BY <2>2
            <4> QED BY <2>1, <4>1
        <3>5. dot[k + 1] = n + 1 <=> k + 1 = K
            BY <1>1, <2>1, <3>4
        <3> QED BY <3>1, <3>2, <3>3, <3>5 DEF PartAfter
    <2>4. ASSUME NEW k \in 0..(K - 1)
          PROVE  /\ AllFrom(k) <=> IsPart(parts[k + 1]) /\ AllFrom(k + 1)
                 /\ Segs(k) = <<Means(parts[k + 1])>> \o Segs(k + 1)
        <3>1. \A m : m \in (k + 1)..K <=> m = k + 1 \/ m \in ((k + 1) + 1)..K
            BY <2>2
        <3>2. AllFrom(k) <=> IsPart(parts[k + 1]) /\ AllFrom(k + 1)
            BY <3>1
        <3>3. Segs(k) = <<Means(parts[k + 1])>> \o Segs(k + 1)
            <4> DEFINE T == {Means(parts[m]) : m \in 0..K}
                       rest == Segs(k + 1)
            <4>1. K - k \in Nat /\ K - (k + 1) \in Nat /\ (K - (k + 1)) + 1 = K - k /\ k \in Nat
                BY <2>2
            <4>2. \A m \in 1..(K - k) : Means(parts[k + m]) \in T
                <5>1. \A m \in 1..(K - k) : k + m \in 0..K
                    BY <2>2
                <5> QED BY <5>1
            <4>3. \A m \in 1..(K - (k + 1)) : Means(parts[(k + 1) + m]) \in T
                <5>1. \A m \in 1..(K - (k + 1)) : (k + 1) + m \in 0..K
                    BY <2>2
                <5> QED BY <5>1
            <4> HIDE DEF T
            <4>4. /\ Segs(k) \in Seq(T) /\ Len(Segs(k)) = K - k
                  /\ \A m \in 1..(K - k) : Segs(k)[m] = Means(parts[k + m])
                <5>1. Segs(k) \in [1..(K - k) -> T]
                    BY <4>2
                <5> HIDE DEF Segs
                <5>2. Segs(k) \in Seq(T) /\ Len(Segs(k)) = K - k
                    BY <4>1, <5>1, SeqDef, LenProperties
                <5> QED BY <5>2 DEF Segs
            <4>5. /\ rest \in Seq(T) /\ Len(rest) = K - (k + 1)
                  /\ \A m \in 1..(K - (k + 1)) : rest[m] = Means(parts[(k + 1) + m])
                <5>1. rest \in [1..(K - (k + 1)) -> T]
                    BY <4>3
                <5> HIDE DEF rest
                <5>2. rest \in Seq(T) /\ Len(rest) = K - (k + 1)
                    BY <4>1, <5>1, SeqDef, LenProperties
                <5> QED BY <5>2 DEF rest
            <4>6. 1 \in 1..(K - k)
                BY <4>1
            <4>7. Means(parts[k + 1]) \in T
                BY <4>2, <4>6
            <4> DEFINE first == Means(parts[k + 1])
                       both == <<first>> \o rest
            <4> HIDE DEF Segs, rest, first
            <4>8. /\ both \in Seq(T) /\ Len(both) = 1 + (K - (k + 1))
                  /\ both[1] = first
                  /\ \A m \in 2..(1 + (K - (k + 1))) : both[m] = rest[m - 1]
                <5>1. <<first>> \in Seq(T) /\ Len(<<first>>) = 1 /\ <<first>>[1] = first
                    BY <4>7 DEF first
                <5> DEFINE one == <<first>>
                <5>2. one \in Seq(T) /\ Len(one) = 1 /\ one[1] = first
                    BY <5>1
                <5> HIDE DEF one
                <5>3. /\ one \o rest \in Seq(T) /\ Len(one \o rest) = Len(one) + Len(rest)
                      /\ \A m \in 1 .. Len(one) + Len(rest) :
                            (one \o rest)[m] = IF m <= Len(one) THEN one[m] ELSE rest[m - Len(one)]
                    BY <4>5, <5>2, ConcatProperties
                <5>4. /\ one \o rest \in Seq(T) /\ Len(one \o rest) = 1 + (K - (k + 1))
                      /\ (one \o rest)[1] = first
                      /\ \A m \in 2..(1 + (K - (k + 1))) : (one \o rest)[m] = rest[m - 1]
                    BY <4>1, <4>5, <5>2, <5>3
                <5> QED BY <5>4 DEF one
            <4> HIDE DEF both
            <4>9. ASSUME NEW m \in 1..(K - k) PROVE Segs(k)[m] = both[m]
                <5>1. CASE m = 1
                    BY <4>4, <4>6, <4>8, <5>1 DEF first
                <5>2. CASE m # 1
                    <6>1. m \in 2..(1 + (K - (k + 1))) /\ m - 1 \in 1..(K - (k + 1)) /\ (k + 1) + (m - 1) = k + m
                        BY <2>2, <4>1, <5>2
                    <6> QED BY <4>4, <4>5, <4>8, <6>1
                <5> QED BY <5>1, <5>2
            <4>10. Len(both) = Len(Segs(k))
                BY <4>1, <4>4, <4>8
            <4>11. Segs(k) = both
                BY <4>4, <4>8, <4>9, <4>10, SeqEqual
            <4> QED BY <4>11 DEF both, first, rest
        <3> QED BY <3>2, <3>3
    <2>5. AllFrom(K) /\ Segs(K) = <<>>
        <3>1. (K + 1)..K = {} /\ 1..(K - K) = {}
            BY <2>2
        <3> QED BY <3>1
    <2> HIDE DEF AllFrom, Segs
    <2>6. ASSUME NEW k \in 0..(K - 1), dot[k] < n,
                 k + 1 # K /\ dot[k + 1] < n => from[dot[k + 1]] = Result(k + 1)
          PROVE  from[dot[k]] = Result(k)
        <3> DEFINE a == dot[k]
                   b == dot[k + 1]
                   s == segment(path, a)
        <3>1. /\ a \in Cuts(path) /\ a \in Nat /\ a =< n /\ b = NextCut(path, a) /\ b \in Nat /\ b =< n + 1
              /\ b = n + 1 <=> k + 1 = K
              /\ parts[k + 1] = PartAfter(path, a) /\ k \in Nat
            BY <2>3
        <3>2. \/ /\ s.err = "nil" /\ s.next = b - 1 /\ IsPart(parts[k + 1]) /\ s.seg = Means(parts[k + 1])
                 /\ ~WrongAt(path, a, b)
              \/ /\ s.err = "ErrIndexOutOfRange" /\ ~IsPart(parts[k + 1]) /\ WrongAt(path, a, b)
              \/ /\ s.err = "ErrFieldNotFound" /\ ~IsPart(parts[k + 1]) /\ ~WrongAt(path, a, b)
            <4> HIDE DEF a, b
            <4> QED BY <2>6, <3>1, SegmentIs DEF PartAfter, n, a
        <3>3. WrongFrom(path, a) <=>
                 WrongAt(path, a, b) \/ (b =< n /\ IsPart(parts[k + 1]) /\ WrongFrom(path, b))
            <4> HIDE DEF a, b
            <4> QED BY <3>1, WrongStep DEF n
        <3>4. AllFrom(k) <=> IsPart(parts[k + 1]) /\ AllFrom(k + 1)
            BY <2>4
        <3>5. from[a] = Joined(path, a, from[After(path, a)])
            <4>1. a \in 0..n /\ a # n
                BY <1>1, <2>6, <3>1
            <4>2. from[a] = FromStep(from, path, a)
                BY <1>2, <4>1 DEF n
            <4> QED BY <4>1, <4>2, Zenon DEF FromStep, n
        <3> DEFINE rest == from[After(path, a)]
        <3> HIDE DEF a, b, s
        <3>6. from[a] = IF s.err # "nil" THEN Failed(s.err)
                        ELSE IF s.next = n - 1 THEN Failed("ErrFieldNotFound")
                        ELSE IF rest.err # "nil" THEN rest
                        ELSE [rest EXCEPT !.segs = <<s.seg>> \o rest.segs]
            <4> HIDE DEF rest
            <4> QED BY <3>5, Zenon DEF Joined, rest, s, n
        <3>7. After(path, a) = IF s.next < n THEN s.next + 1 ELSE n
            BY DEF After, s, n
        <3>8. Result(k) = IF AllFrom(k) THEN [err |-> "nil", segs |-> Segs(k)]
                          ELSE Failed(IF WrongFrom(path, a) THEN "ErrIndexOutOfRange" ELSE "ErrFieldNotFound")
            BY DEF a
        <3>9. Result(k + 1) = IF AllFrom(k + 1) THEN [err |-> "nil", segs |-> Segs(k + 1)]
                              ELSE Failed(IF WrongFrom(path, b) THEN "ErrIndexOutOfRange" ELSE "ErrFieldNotFound")
            BY DEF b
        <3>10. k + 1 # K /\ b < n => from[b] = Result(k + 1)
            BY <2>6 DEF b
        <3> HIDE DEF Result, rest
        <3>11. CASE s.err # "nil"
            <4>1. ~AllFrom(k) /\ (WrongFrom(path, a) <=> s.err = "ErrIndexOutOfRange")
                  /\ (s.err = "ErrIndexOutOfRange" \/ s.err = "ErrFieldNotFound")
                BY <3>2, <3>3, <3>4, <3>11
            <4>2. from[a] = Failed(s.err)
                BY <3>6, <3>11
            <4> QED BY <3>8, <4>1, <4>2 DEF a
        <3>12. CASE s.err = "nil" /\ b = n
            <4>1. from[a] = Failed("ErrFieldNotFound")
                <5>1. s.next = n - 1
                    BY <3>2, <3>12
                <5> QED BY <3>6, <3>12, <5>1
            <4>2. k + 1 # K /\ k + 1 \in 0..(K - 1)
                BY <1>1, <2>2, <3>1, <3>12
            <4>3. dot[(k + 1) + 1] = n + 1 /\ dot[k + 1] = n
                <5>1. dot[(k + 1) + 1] = NextCut(path, b)
                    BY <2>3, <4>2 DEF b
                <5>2. b \in Cuts(path) /\ b =< Len(path)
                    BY <1>1, <2>3, <3>12, <4>2 DEF b, n
                <5>3. b < NextCut(path, b) /\ NextCut(path, b) =< n + 1 /\ NextCut(path, b) \in Cuts(path)
                    BY <5>2, NextCutIs DEF n
                <5>4. NextCut(path, b) \in Nat
                    BY <5>3, PathIs
                <5> QED BY <1>1, <3>12, <5>1, <5>3, <5>4 DEF b
            <4>4. ~AllFrom(k + 1) /\ ~WrongFrom(path, b)
                <5>1. ~IsPart(parts[(k + 1) + 1])
                    <6>1. parts[(k + 1) + 1] = SubSeq(path, n + 1, (n + 1) - 1)
                        BY <2>3, <4>2, <4>3 DEF PartAfter
                    <6>2. SubSeq(path, n + 1, (n + 1) - 1) = <<>>
                        BY <1>1, SubSeqEmpty
                    <6>3. ~IsPart(<<>>)
                        BY DEF IsPart, IsName
                    <6> QED BY <6>1, <6>2, <6>3
                <5>2. ~AllFrom(k + 1)
                    BY <2>4, <4>2, <5>1
                <5>3. ~WrongFrom(path, b)
                    <6>1. \A i \in DOMAIN path : ~(n < i)
                        BY <1>1, PathIs DEF n
                    <6> QED BY <3>12, <6>1 DEF WrongFrom
                <5> QED BY <5>2, <5>3
            <4>5. ~AllFrom(k) /\ ~WrongFrom(path, a)
                BY <3>2, <3>3, <3>4, <3>12, <4>4
            <4> QED BY <3>8, <4>1, <4>5 DEF a
        <3>13. CASE s.err = "nil" /\ b # n
            <4>1. s.next = b - 1 /\ b - 1 # n - 1 /\ IsPart(parts[k + 1]) /\ s.seg = Means(parts[k + 1])
                  /\ ~WrongAt(path, a, b)
                BY <1>1, <3>1, <3>2, <3>13
            <4>2. After(path, a) = IF b = n + 1 THEN n ELSE b
                BY <1>1, <3>1, <3>7, <3>13, <4>1
            <4>3. from[a] = IF rest.err # "nil" THEN rest ELSE [rest EXCEPT !.segs = <<s.seg>> \o rest.segs]
                BY <3>6, <3>13, <4>1
            <4>4. rest = Result(k + 1)
                <5>1. CASE b = n + 1
                    <6>1. k + 1 = K /\ rest = AtEnd
                        BY <1>3, <3>1, <4>2, <5>1 DEF rest, n
                    <6> QED BY <2>5, <3>9, <6>1 DEF AtEnd
                <5>2. CASE b # n + 1
                    BY <1>1, <3>1, <3>10, <3>13, <4>2, <5>2 DEF rest
                <5> QED BY <5>1, <5>2
            <4>5. CASE AllFrom(k + 1)
                <5>1. rest = [err |-> "nil", segs |-> Segs(k + 1)]
                    BY <3>9, <4>4, <4>5
                <5>2. from[a] = [err |-> "nil", segs |-> <<s.seg>> \o Segs(k + 1)]
                    BY <4>3, <5>1
                <5>3. Segs(k) = <<s.seg>> \o Segs(k + 1)
                    BY <2>4, <4>1
                <5>4. AllFrom(k)
                    BY <3>4, <4>1, <4>5
                <5> QED BY <3>8, <5>2, <5>3, <5>4 DEF a
            <4>6. CASE ~AllFrom(k + 1)
                <5>1. b # n + 1
                    BY <2>5, <3>1, <4>6
                <5>2. b =< n
                    BY <1>1, <3>1, <5>1
                <5>3. ~AllFrom(k) /\ (WrongFrom(path, a) <=> WrongFrom(path, b))
                    BY <3>3, <3>4, <4>1, <4>6, <5>2
                <5>4. rest = Result(k) /\ Result(k) = Failed(IF WrongFrom(path, a) THEN "ErrIndexOutOfRange" ELSE "ErrFieldNotFound")
                    BY <3>8, <3>9, <4>4, <4>6, <5>3
                <5>5. rest.err # "nil"
                    BY <5>4 DEF Failed
                <5> QED BY <4>3, <5>4, <5>5 DEF a
            <4> QED BY <4>5, <4>6
        <3> QED BY <3>11, <3>12, <3>13
    <2> HIDE DEF Result
    <2>7. 0 \in S
        OBVIOUS
    <2>8. ASSUME NEW x \in Nat, x \in S PROVE x + 1 \in S
        <3> SUFFICES ASSUME x + 1 \in 1..K, dot[K - (x + 1)] < n
                     PROVE  from[dot[K - (x + 1)]] = Result(K - (x + 1))
            OBVIOUS
        <3> DEFINE k == K - (x + 1)
        <3>1. k \in 0..(K - 1) /\ k + 1 = K - x /\ (k + 1 # K => x \in 1..K)
            BY <2>2
        <3>2. k + 1 # K /\ dot[k + 1] < n => from[dot[k + 1]] = Result(k + 1)
            BY <2>8, <3>1
        <3> HIDE DEF k
        <3>3. dot[k] < n
            BY DEF k
        <3>4. from[dot[k]] = Result(k)
            BY <2>6, <3>1, <3>2, <3>3
        <3> QED BY <3>4 DEF k
    <2>9. K \in S
        <3> HIDE DEF S
        <3> QED BY <2>2, <2>7, <2>8, NatSetInduction
    <2>10. from[0] = Result(0)
        <3>1. K \in 1..K /\ K - K = 0
            BY <2>2
        <3>2. dot[0] = 0 /\ 0 < n
            <4>1. n # 0
                BY <1>5, EmptySeq DEF n
            <4> QED BY <1>1, <2>1, <4>1
        <3> QED BY <2>9, <3>1, <3>2
    <2>11. Result(0) = PathMeans(path)
        <3>1. parts = [k \in 1..K |-> parts[k]] /\ DOMAIN parts = 1..K
            BY <2>1 DEF parts
        <3>2. AllFrom(0) <=> IsPath(path)
            BY <3>1 DEF AllFrom, IsPath, parts
        <3>3. Segs(0) = [k \in DOMAIN parts |-> Means(parts[k])]
            <4>1. K - 0 = K /\ \A m \in 1..K : 0 + m = m
                BY <2>2
            <4> QED BY <3>1, <4>1 DEF Segs
        <3>4. WrongFrom(path, dot[0]) <=> WrongIndex(path)
            BY <1>5, <2>1, WrongIndexIs
        <3> QED BY <3>2, <3>3, <3>4 DEF Result, PathMeans, parts
    <2> QED BY <1>2, <2>10, <2>11
<1> QED BY <1>4, <1>5

-----------------------------------------------------------------------------
(* Texts of numbers *)

LEMMA TextIs ==
    ASSUME NEW h \in Int, NEW g \in Int, h < 0 => g < 0, h > 0 => g >= 0,
           NEW digits \in BOOLEAN, digits => h % 2 = 0
    PROVE  LET t == Numeral(Finite(h), Minus(g), digits)
           IN  /\ IsNumeral(t) /\ IsText(t) /\ t[2].f = Finite(h) /\ t[2].digits = digits
               /\ g >= 0 => t[2].sign = ""
<1> DEFINE t == Numeral(Finite(h), Minus(g), digits)
<1>1. t = <<"numeral", t[2]>> /\ t[2].f = Finite(h) /\ t[2].sign = Minus(g) /\ t[2].digits = digits
    BY DEF Numeral
<1>2. IsFinite(Finite(h)) /\ Finite(h)[2] = h
    BY FiniteIs
<1>3. Minus(g) \in {"", "-"} /\ (g < 0 => Minus(g) = "-") /\ (g >= 0 => Minus(g) = "")
    BY DEF Minus
<1>4. Minus(g) \in {"", "+", "-"} /\ (h > 0 => Minus(g) # "-") /\ (h < 0 => Minus(g) = "-")
    <2>1. h > 0 => Minus(g) = ""
        BY <1>3
    <2>2. "" # "-"
        OBVIOUS
    <2> QED BY <1>3, <2>1, <2>2
<1> HIDE DEF t
<1>5. IsNumeral(t)
    BY <1>1 DEF IsNumeral
<1>6. IsText(t)
    <2>1. /\ t[2].digits \in BOOLEAN /\ t[2].sign \in {"", "+", "-"}
          /\ t[2].f = Finite(t[2].f[2]) /\ t[2].f[2] \in Int
          /\ t[2].digits => t[2].f[2] % 2 = 0
          /\ t[2].f[2] < 0 => t[2].sign = "-"
          /\ t[2].f[2] > 0 => t[2].sign # "-"
        BY <1>1, <1>2, <1>4
    <2>2. IsFinite(t[2].f)
        BY <1>1, <1>2
    <2> QED BY <2>1, <2>2, Zenon DEF IsText
<1> QED BY <1>1, <1>3, <1>5, <1>6 DEF t

\* The shortest text exists, and is read as the number that it was made of.
LEMMA ShortestIs ==
    ASSUME NEW w \in Width, NEW h \in Nat, Rounded(h, w) = Finite(h)
    PROVE  LET t == Shortest(h, w)
           IN  t \in Nat /\ (h # 0 => t # 0) /\ Rounded(t, w) = Finite(h)
<1> DEFINE Fits(u) == ReadAs(h, u, w) # {}
           Best(u) == Fits(u) /\ \A v \in LastUnit(h) : v > u => ReadAs(h, v, w) = {}
           Nicest(t, u) == Nearest(h, u) \in ReadAs(h, u, w) => t = Nearest(h, u)
           unit == CHOOSE u \in LastUnit(h) : Best(u)
           S == {n \in Nat : \E u \in LastUnit(h) : n = h - u /\ Fits(u)}
<1>1. CASE h = 0
    BY <1>1 DEF Shortest
<1>2. CASE h # 0
    <2>1. Shortest(h, w) = CHOOSE t \in ReadAs(h, unit, w) : Nicest(t, unit)
        BY <1>2 DEF Shortest
    <2>2. \A u \in LastUnit(h) : u \in Nat /\ 1 =< u /\ u =< h
        BY DEF LastUnit
    <2>3. 1 \in LastUnit(h) /\ Fits(1)
        <3>1. 1 \in LastUnit(h)
            BY <1>2 DEF LastUnit
        <3>2. h - (h % 1) = h
            OBVIOUS
        <3>3. h \in ReadAs(h, 1, w)
            BY <3>2 DEF ReadAs
        <3> QED BY <3>1, <3>3
    <2> HIDE DEF Fits
    <2>4. h - 1 \in S /\ S \subseteq Nat
        BY <1>2, <2>3
    <2>5. PICK m \in S : \A n \in S : m =< n
        BY <2>4, LeastNat
    <2>6. PICK u \in LastUnit(h) : m = h - u /\ Fits(u)
        BY <2>5
    <2>7. ASSUME NEW v \in LastUnit(h), v > u
          PROVE  ~Fits(v)
        <3> SUFFICES ASSUME Fits(v) PROVE FALSE
            OBVIOUS
        <3>1. h - v \in S
            BY <2>2
        <3>2. m =< h - v
            BY <2>5, <3>1
        <3> QED BY <2>2, <2>6, <2>7, <3>2
    <2>8. Best(u)
        BY <2>6, <2>7 DEF Fits
    <2>9. unit \in LastUnit(h) /\ Best(unit)
        <3> HIDE DEF Best
        <3> QED BY <2>8
    <2> HIDE DEF unit
    <2>10. \E t \in ReadAs(h, unit, w) : Nicest(t, unit)
        <3>1. CASE Nearest(h, unit) \in ReadAs(h, unit, w)
            BY <3>1
        <3>2. CASE Nearest(h, unit) \notin ReadAs(h, unit, w)
            BY <2>9, <3>2 DEF Fits
        <3> QED BY <3>1, <3>2
    <2> DEFINE t == Shortest(h, w)
    <2>11. t \in ReadAs(h, unit, w)
        <3> HIDE DEF Nicest
        <3> QED BY <2>1, <2>10
    <2> HIDE DEF t, Best
    <2> DEFINE below == h - (h % unit)
    <2>12. (t = below \/ t = below + unit) /\ Rounded(t, w) = Finite(h)
        BY <2>11 DEF ReadAs
    <2>13. below \in Nat /\ 1 =< below /\ unit \in Nat
        <3>1. unit \in Nat /\ 1 =< unit /\ unit =< h
            BY <2>2, <2>9
        <3>2. h % unit \in 0 .. unit - 1
            BY <3>1
        <3> QED BY <3>1, <3>2
    <2> HIDE DEF below
    <2>14. t \in Nat /\ t # 0
        BY <2>12, <2>13
    <2> QED BY <2>12, <2>14 DEF t
<1> QED BY <1>1, <1>2

\* The text of a float is a text, and is read as the float at the width of the format.
LEMMA FormatIs ==
    ASSUME NEW w \in Width, NEW f \in FloatOf[w], IsFinite(f)
    PROVE  LET x == FormatFloat(f, w)
               s == x[2].f[2]
               p == Precision[w]
           IN  /\ IsNumeral(x) /\ IsText(x)
               /\ x[2].f = Finite(s) /\ s \in Int
               /\ f = Finite(f[2]) /\ f[2] \in Int /\ Abs(f[2]) =< Largest[w]
               /\ Near(s, p) = f[2] /\ (f[2] < 0 <=> s < 0)
<1> DEFINE g == f[2]
           n == Abs(g)
           p == Precision[w]
           t == Shortest(n, w)
           s == IF g < 0 THEN -t ELSE t
           digits == t % 2 = 0 /\ t < Exponent
<1>1. p \in Nat \ {0} /\ Largest[w] \in Nat
    BY LargestIs
<1>2. f = Finite(g) /\ g \in Int /\ Near(g, p) = g /\ n =< Largest[w]
    BY FloatIs
<1>3. FormatFloat(f, w) = Numeral(Finite(s), Minus(g), digits)
    BY DEF FormatFloat, NumeralOf
<1> HIDE DEF g, p, t
<1>4. n \in Nat /\ Abs(n) = n /\ Round(n, p) = n
    <2>1. n \in Nat /\ Round(n, p) = n
        BY <1>1, <1>2, NearIs
    <2> HIDE DEF n
    <2> QED BY <2>1 DEF Abs
<1> HIDE DEF n
<1>5. Rounded(n, w) = Finite(n)
    <2>1. Near(n, p) = n
        BY <1>1, <1>4, NearIs
    <2> QED BY <1>2, <1>4, <2>1, FloatIs DEF p
<1>6. t \in Nat /\ (n # 0 => t # 0) /\ Rounded(t, w) = Finite(n)
    BY <1>4, <1>5, ShortestIs DEF t
<1>7. Round(t, p) = n
    <2>1. Abs(t) = t /\ Near(t, p) = Round(t, p) /\ t \in Int
        BY <1>6 DEF Abs, Near
    <2>2. IsFinite(Rounded(t, w))
        BY <1>6, FiniteIs
    <2>3. Rounded(t, w) = Finite(Near(t, p))
        BY <2>1, <2>2, RoundedIs DEF p
    <2>4. Finite(Near(t, p))[2] = Near(t, p) /\ Finite(n)[2] = n
        BY FiniteIs
    <2> QED BY <1>6, <2>1, <2>3, <2>4
<1>8. s \in Int /\ (g < 0 <=> s < 0) /\ Near(s, p) = g
    <2>1. CASE g < 0
        <3>1. n = -g /\ n # 0
            BY <1>2, <2>1 DEF n, Abs
        <3>2. s = -t /\ s < 0 /\ -s = t /\ s \in Int
            BY <1>6, <2>1, <3>1
        <3> HIDE DEF s
        <3>3. Near(s, p) = -Round(t, p)
            BY <3>2 DEF Near
        <3>4. -n = g
            BY <1>2, <3>1
        <3> QED BY <1>7, <2>1, <3>2, <3>3, <3>4
    <2>2. CASE ~(g < 0)
        <3>1. n = g /\ s = t /\ ~(s < 0)
            BY <1>2, <1>6, <2>2 DEF n, Abs
        <3>2. s \in Int
            BY <1>6, <3>1
        <3> HIDE DEF s
        <3>3. Near(s, p) = Round(t, p)
            BY <3>1 DEF Near
        <3> QED BY <1>7, <2>2, <3>1, <3>2, <3>3
    <2> QED BY <2>1, <2>2
<1>9. digits => s % 2 = 0
    <2>1. t % 2 = 0 => (-t) % 2 = 0
        BY <1>6
    <2> QED BY <2>1
<1>10. digits \in BOOLEAN
    OBVIOUS
<1>11. (s < 0 => g < 0) /\ (s > 0 => g >= 0)
    BY <1>2, <1>8
<1> HIDE DEF s, digits
<1> DEFINE x == Numeral(Finite(s), Minus(g), digits)
<1>12. IsNumeral(x) /\ IsText(x) /\ x[2].f = Finite(s)
    <2> HIDE DEF x
    <2>1. x = Numeral(Finite(s), Minus(g), digits)
        BY DEF x
    <2> QED BY <1>2, <1>8, <1>9, <1>10, <1>11, <2>1, TextIs
<1> HIDE DEF x
<1>13. x[2].f[2] = s
    BY <1>12, FiniteIs
<1>14. FormatFloat(f, w) = x
    BY <1>3 DEF x
<1> QED BY <1>2, <1>8, <1>12, <1>13, <1>14 DEF g, n, p

\* Rounding twice does not lose the sign.
LEMMA NearTwice ==
    ASSUME NEW p \in Nat \ {0}, NEW q \in Nat \ {0}, NEW s \in Int, NEW g \in Int,
           g < 0 <=> s < 0, Near(s, p) = g,
           Round(Round(Abs(s), q), p) = Round(Abs(s), p)
    PROVE  Near(Near(s, q), p) = g
<1> DEFINE a == Abs(s)
           m == Round(a, q)
           n == Round(a, p)
<1>1. a \in Nat /\ m \in Nat /\ n \in Nat
    <2>1. a \in Nat
        BY DEF Abs
    <2> QED BY <2>1, RoundIs
<1>2. Round(m, p) = n
    OBVIOUS
<1>3. CASE s < 0
    <2>1. a = -s /\ Near(s, q) = -Round(-s, q) /\ Near(s, p) = -Round(-s, p)
        BY <1>3 DEF Near, Abs
    <2>2. Near(s, q) = -m /\ g = -n
        BY <2>1
    <2> HIDE DEF m, n, a
    <2>3. n # 0
        BY <1>1, <1>3, <2>2
    <2>4. m # 0
        <3> SUFFICES ASSUME m = 0 PROVE FALSE
            OBVIOUS
        <3>1. Round(0, p) = n
            BY <1>2
        <3> QED BY <2>3, <3>1, ZeroStays
    <2>5. -m < 0 /\ -(-m) = m
        BY <1>1, <2>4
    <2>6. Near(-m, p) = -Round(m, p)
        BY <2>5 DEF Near
    <2> QED BY <1>2, <2>2, <2>6
<1>4. CASE ~(s < 0)
    <2>1. a = s /\ Near(s, q) = m /\ Near(s, p) = n
        BY <1>4 DEF Near, Abs
    <2> HIDE DEF m, n, a
    <2>2. ~(m < 0)
        BY <1>1
    <2>3. Near(m, p) = Round(m, p)
        BY <2>2 DEF Near
    <2> QED BY <1>2, <2>1, <2>3
<1> QED BY <1>3, <1>4

\* The text of a float32 is read as a double, which is then rounded to 32 bits: that is the
\* float32 again, or the double is just in the middle.
LEMMA NarrowReadsBack ==
    ASSUME NEW f \in FloatOf[32], IsFinite(f), NEW s \in Int,
           f = Finite(f[2]), f[2] \in Int, Abs(f[2]) =< Largest[32],
           Near(s, Precision[32]) = f[2], f[2] < 0 <=> s < 0
    PROVE  LET d == Rounded(s, 64)
           IN  /\ IsFinite(d)
               /\ toFloat32(d) = Converted(f) \/ IsMiddle(d[2], Precision[32])
<1> DEFINE g == f[2]
           p == Precision[32]
           q == Precision[64]
           a == Abs(s)
           m == Round(a, q)
           y == Near(s, q)
<1>1. /\ p \in Nat \ {0} /\ q \in Nat \ {0} /\ p =< q /\ 32 \in Width /\ 64 \in Width
      /\ Largest[32] \in Nat /\ Largest[64] \in Nat
    <2>1. 32 \in Width /\ 64 \in Width
        BY DEF Width
    <2> QED BY <2>1, LargestIs
<1>2. /\ a \in Nat /\ Abs(g) = Round(a, p)
      /\ y \in Int /\ Abs(y) = m
    BY <1>1, NearIs
<1>3. IsFinite(Rounded(s, 64))
    <2>1. a =< 2 * Round(a, p)
        BY <1>1, <1>2, RoundHalves
    <2>2. Round(a, p) =< Largest[32] /\ Round(a, p) \in Nat
        BY <1>1, <1>2, RoundIs
    <2>3. 2 * Largest[32] =< Largest[64]
        BY ConvertAssumption
    <2> DEFINE r == Round(a, p)
    <2> HIDE DEF r, a
    <2>4. a =< Largest[64]
        BY <1>1, <1>2, <2>1, <2>2, <2>3 DEF r
    <2> QED BY <1>1, <2>4, SmallIsFinite DEF a
<1>4. Rounded(s, 64) = Finite(y)
    BY <1>1, <1>3, RoundedIs
<1>5. Round(m, p) = Round(a, p) \/ 2 * (m % twoTo[Scale(m, p)]) = twoTo[Scale(m, p)]
    BY <1>1, <1>2, RoundedOnTheWay
<1>6. CASE Round(m, p) = Round(a, p)
    <2>1. Near(y, p) = g
        BY <1>1, <1>6, NearTwice
    <2>2. Round(Abs(y), p) =< Largest[32]
        BY <1>2, <1>6
    <2> HIDE DEF y, g
    <2>3. Rounded(y, 32) = Finite(g) /\ IsFinite(Rounded(y, 32))
        BY <1>1, <1>2, <2>1, <2>2, RoundedIs
    <2>4. toFloat32(Finite(y)) = Converted(Finite(g))
        <3>1. IsFinite(Finite(y)) /\ Finite(y)[2] = y
            BY FiniteIs
        <3> QED BY <2>3, <3>1 DEF toFloat32, When
    <2> QED BY <1>3, <1>4, <2>4 DEF g
<1>7. CASE 2 * (m % twoTo[Scale(m, p)]) = twoTo[Scale(m, p)]
    <2> HIDE DEF y, m, p
    <2>1. IsMiddle(y, p)
        BY <1>2, <1>7 DEF IsMiddle
    <2>2. Finite(y)[2] = y
        BY FiniteIs
    <2> QED BY <1>3, <1>4, <2>1, <2>2 DEF p
<1> QED BY <1>5, <1>6, <1>7

\* What a field that is as wide as the format reads.
LEMMA SameWidthReads ==
    ASSUME NEW w \in Width, NEW f \in FloatOf[w], IsFinite(f), NEW s \in Int,
           f = Finite(f[2]), Abs(f[2]) =< Largest[w], Near(s, Precision[w]) = f[2]
    PROVE  Rounded(s, w) = f
<1>1. Abs(Near(s, Precision[w])) = Round(Abs(s), Precision[w])
    BY LargestIs, NearIs
<1>2. IsFinite(Rounded(s, w))
    BY <1>1, RoundedIs
<1> QED BY <1>2, RoundedIs

\* A float32 is one of its own when it is rounded.
LEMMA ToFloat32Keeps ==
    ASSUME NEW f \in FloatOf[32]
    PROVE  toFloat32(f) = Converted(f)
<1>1. CASE IsFinite(f)
    <2>1. 32 \in Width
        BY DEF Width
    <2>2. f = Finite(f[2]) /\ f[2] \in Int /\ Near(f[2], Precision[32]) = f[2] /\ Abs(f[2]) =< Largest[32]
        BY <1>1, <2>1, FloatIs
    <2>3. Rounded(f[2], 32) = Finite(f[2])
        BY <2>1, <2>2, FloatIs
    <2>4. Rounded(f[2], 32) = f
        BY <2>2, <2>3
    <2> QED BY <1>1, <2>4 DEF toFloat32, When
<1>2. CASE ~IsFinite(f)
    BY <1>2 DEF toFloat32
<1> QED BY <1>1, <1>2

\* The text of what is not a finite number.
LEMMA NotFiniteIs ==
    ASSUME NEW w \in Width, NEW f \in FloatOf[w], ~IsFinite(f)
    PROVE  LET t == FormatFloat(f, w)
           IN  IsNumeral(t) /\ IsText(t) /\ t[2].f = f
<1> DEFINE t == FormatFloat(f, w)
<1>1. t = Numeral(f, "", FALSE)
    BY DEF FormatFloat
<1> HIDE DEF t
<1>2. t[1] = "numeral" /\ t[2].f = f /\ t[2].sign = "" /\ t[2].digits = FALSE
    BY <1>1 DEF Numeral
<1>3. f \in {NaN, Inf(1), Inf(-1)}
    BY FloatIs
<1>4. IsText(t)
    <2>1. "" \in {"", "+", "-"} /\ FALSE \in BOOLEAN
        OBVIOUS
    <2>2. /\ t[2].digits \in BOOLEAN /\ t[2].sign \in {"", "+", "-"}
          /\ ~IsFinite(t[2].f) /\ t[2].f \in {NaN, Inf(1), Inf(-1)} /\ ~t[2].digits
        BY <1>2, <1>3, <2>1
    <2> QED BY <2>2, Zenon DEF IsText
<1> QED BY <1>2, <1>4 DEF IsNumeral, t

\* The text of a number is a text, and a field of the number's own type reads it as the
\* same number, unless a double just between two float32s is read.
LEMMA ReadsBack ==
    ASSUME NEW arg, IsArg(arg), arg.kind \in NumberKind
    PROVE  LET text == convertString(arg)
               str == Arg("string", text.v)
           IN  /\ text.err = "nil" /\ IsArg(str)
               /\ \/ convertScalar(OwnType[arg.kind], str) = Converted(arg.v)
                  \/ arg.kind = "float32" /\ IsMiddle(convertFloat(str).v[2], Precision[32])
<1> DEFINE text == convertString(arg)
           str == Arg("string", text.v)
           ft == OwnType[arg.kind]
<1>1. str.kind = "string" /\ str.v = text.v /\ str.kind \in StringKind
    BY KindsAre DEF Arg
<1>2. ASSUME IsText(text.v)
      PROVE  IsArg(str)
    <2>1. /\ "string" \in Kind
          /\ "string" \notin DOMAIN IntKind /\ "string" \notin DOMAIN UintKind /\ "string" \notin DOMAIN FloatKind
        BY KindsAre DEF Kind
    <2> HIDE DEF str
    <2> QED BY <1>1, <1>2, <2>1 DEF IsArg
<1> HIDE DEF str
<1>3. CASE arg.kind \in DOMAIN IntKind \cup DOMAIN UintKind
    <2>1. /\ arg.v \in Int /\ (arg.kind \in DOMAIN UintKind => arg.v >= 0)
        <3>1. CASE arg.kind \in DOMAIN IntKind
            <4>1. arg.kind \notin DOMAIN UintKind
                BY <3>1, KindsAre
            <4> QED BY <3>1, <4>1, NumbersAre
        <3>2. CASE arg.kind \in DOMAIN UintKind
            BY <3>2, NumbersAre
        <3> QED BY <1>3, <3>1, <3>2
    <2>2. text = Converted(FormatInt(arg.v))
        <3>1. arg.kind \notin StringKind \cup {"bytes", "bytesOfNamed"} /\ arg.kind \notin DOMAIN FloatKind
            BY <1>3, KindsAre
        <3> QED BY <1>3, <3>1 DEF convertString
    <2> DEFINE n == arg.v
               t == FormatInt(n)
    <2>3. /\ IsNumeral(t) /\ IsText(t) /\ t[2].f = Finite(2 * n) /\ t[2].digits
          /\ n >= 0 => t[2].sign = ""
        <3>1. 2 * n \in Int /\ (2 * n) % 2 = 0 /\ (n >= 0 => 2 * n >= 0) /\ (n < 0 <=> 2 * n < 0)
            BY <2>1
        <3>2. Minus(n) = Minus(2 * n)
            BY <3>1 DEF Minus
        <3>3. t = Numeral(Finite(2 * n), Minus(2 * n), TRUE)
            BY <3>2 DEF FormatInt
        <3> DEFINE m == 2 * n
        <3> HIDE DEF t, n, m
        <3>4. m \in Int /\ m % 2 = 0 /\ (m > 0 => m >= 0) /\ t = Numeral(Finite(m), Minus(m), TRUE)
            BY <3>1, <3>3 DEF m
        <3>5. TRUE \in BOOLEAN
            OBVIOUS
        <3>6. /\ IsNumeral(t) /\ IsText(t) /\ t[2].f = Finite(m) /\ t[2].digits
              /\ m >= 0 => t[2].sign = ""
            BY <3>4, <3>5, TextIs, Zenon
        <3> QED BY <3>1, <3>6, Zenon DEF m
    <2> HIDE DEF t, text
    <2>4. text.err = "nil" /\ text.v = t
        BY <2>2, ResultsAre DEF t
    <2>5. IsArg(str) /\ str.v = t
        BY <1>1, <1>2, <2>3, <2>4
    <2>6. IsNumber(str) /\ NumberOf(str) = Finite(2 * n)
        BY <1>1, <2>3, <2>5, NumbersAre
    <2>7. IsFinite(NumberOf(str)) /\ n = Trunc(NumberOf(str)[2])
        <3>1. Trunc(2 * n) = n
            BY <2>1, TruncIs
        <3> QED BY <2>6, <3>1, FiniteIs
    <2>8. ft = arg.kind /\ ft \in DOMAIN IntegerField /\ n \in IntegerField[ft]
        <3>1. arg.kind \in {"int32", "int64", "uint32", "uint64"}
            BY <1>3, KindsAre
        <3>2. OwnType[arg.kind] = arg.kind
            BY <3>1 DEF OwnType
        <3>3. /\ arg.kind = "int32" => n \in IntOf(32)
              /\ arg.kind = "int64" => n \in IntOf(64)
              /\ arg.kind = "uint32" => n \in UintOf(32)
              /\ arg.kind = "uint64" => n \in UintOf(64)
            BY KindsAre DEF IsArg
        <3> HIDE DEF n
        <3> QED BY <3>1, <3>2, <3>3, FieldsAre
    <2>9. IsTextFor(ft, t)
        <3>1. ft \in {"uint32", "uint64"} => arg.kind \in DOMAIN UintKind
            BY <2>8, KindsAre
        <3> HIDE DEF ft
        <3> QED BY <2>1, <2>3, <3>1 DEF IsTextFor
    <2> HIDE DEF n, ft
    <2>10. ToInteger(ft, str) = Converted(n)
        <3>1. ToInteger(ft, str) = When(n \in IntegerField[ft], n)
            BY <1>1, <2>5, <2>6, <2>7, <2>9, ToIntegerIs
        <3> QED BY <2>8, <3>1 DEF When
    <2>11. convertScalar(ft, str) = ToInteger(ft, str)
        BY <2>5, <2>8, IntegerIs
    <2> QED BY <2>4, <2>5, <2>10, <2>11 DEF n, text, str, ft
<1>4. CASE arg.kind \in DOMAIN FloatKind
    <2> DEFINE f == arg.v
               w == formatWidth(arg.kind)
               t == FormatFloat(f, w)
    <2>1. /\ w \in Width /\ f \in FloatOf[w]
          /\ arg.kind = "float32" => w = 32
          /\ arg.kind # "float32" => w = 64
          /\ arg.kind # "float64" => f \in FloatOf[32]
        <3>1. \/ arg.kind = "float32" /\ FloatKind[arg.kind] = 32
              \/ arg.kind = "float64" /\ FloatKind[arg.kind] = 64
              \/ arg.kind = "namedFloat32" /\ FloatKind[arg.kind] = 32
            BY <1>4, KindsAre
        <3>2. f \in FloatOf[FloatKind[arg.kind]]
            BY <1>4 DEF IsArg
        <3>3. (arg.kind = "float32" => w = 32) /\ (arg.kind # "float32" => w = 64)
            BY DEF formatWidth
        <3> HIDE DEF f, w
        <3> QED BY <3>1, <3>2, <3>3, NarrowIsWide DEF Width
    <2>2. text = Converted(t)
        <3>1. /\ arg.kind \notin StringKind \cup {"bytes", "bytesOfNamed"}
              /\ arg.kind \notin DOMAIN IntKind \cup DOMAIN UintKind
            BY <1>4, KindsAre
        <3> QED BY <1>4, <3>1 DEF convertString
    <2> HIDE DEF w
    <2>3. IsNumeral(t) /\ IsText(t)
        <3>1. CASE IsFinite(f)
            BY <2>1, <3>1, FormatIs
        <3>2. CASE ~IsFinite(f)
            BY <2>1, <3>2, NotFiniteIs
        <3> QED BY <3>1, <3>2
    <2> HIDE DEF t, text
    <2>4. text.err = "nil" /\ text.v = t
        BY <2>2, ResultsAre
    <2>5. IsArg(str) /\ str.v = t
        BY <1>1, <1>2, <2>3, <2>4
    <2>6. IsNumber(str) /\ NumberOf(str) = t[2].f
        BY <1>1, <2>3, <2>5, NumbersAre
    <2> HIDE DEF f
    <2>7. \/ convertFloat(str) = Converted(f)
          \/ /\ arg.kind = "float32"
             /\ \E d : /\ convertFloat(str) = Converted(d)
                      /\ (toFloat32(d) = Converted(f) \/ IsMiddle(d[2], Precision[32]))
        <3>1. CASE IsFinite(f)
            <4> DEFINE s == t[2].f[2]
            <4>1. /\ t[2].f = Finite(s) /\ s \in Int
                  /\ f = Finite(f[2]) /\ f[2] \in Int /\ Abs(f[2]) =< Largest[w]
                  /\ Near(s, Precision[w]) = f[2] /\ (f[2] < 0 <=> s < 0)
                BY <2>1, <3>1, FormatIs DEF t
            <4> HIDE DEF s
            <4>2. IsFinite(NumberOf(str)) /\ NumberOf(str)[2] = s
                BY <2>6, <4>1, FiniteIs
            <4>3. convertFloat(str) = When(IsFinite(Rounded(s, 64)), Rounded(s, 64))
                BY <2>5, <2>6, <4>2, ToDouble
            <4>4. CASE w = 64
                <5>1. Rounded(s, 64) = f
                    BY <2>1, <3>1, <4>1, <4>4, SameWidthReads
                <5> QED BY <3>1, <4>3, <5>1 DEF When
            <4>5. CASE w = 32 /\ arg.kind = "float32"
                <5> DEFINE d == Rounded(s, 64)
                <5>1. /\ IsFinite(d)
                      /\ toFloat32(d) = Converted(f) \/ IsMiddle(d[2], Precision[32])
                    BY <2>1, <3>1, <4>1, <4>5, NarrowReadsBack
                <5> HIDE DEF d
                <5>2. convertFloat(str) = Converted(d)
                    BY <4>3, <5>1 DEF When, d
                <5> QED BY <4>5, <5>1, <5>2
            <4> QED BY <2>1, <4>4, <4>5
        <3>2. CASE ~IsFinite(f)
            <4>1. t[2].f = f
                BY <2>1, <3>2, NotFiniteIs DEF t
            <4> QED BY <2>5, <2>6, <3>2, <4>1, ToDouble
        <3> QED BY <3>1, <3>2
    <2>8. CASE arg.kind = "float64"
        <3>1. ft = "double"
            BY <2>8 DEF OwnType
        <3> HIDE DEF ft
        <3>2. convertScalar(ft, str) = convertFloat(str)
            BY <3>1 DEF convertScalar
        <3>3. convertFloat(str) = Converted(f)
            <4>1. "float64" # "float32"
                OBVIOUS
            <4> QED BY <2>7, <2>8, <4>1
        <3> QED BY <2>4, <2>5, <3>2, <3>3 DEF f, text, str, ft
    <2>9. CASE arg.kind \in {"float32", "namedFloat32"}
        <3>1. ft = "float" /\ arg.kind # "float64"
            BY <2>9 DEF OwnType
        <3> HIDE DEF ft
        <3>2. ASSUME NEW d, convertFloat(str) = Converted(d)
              PROVE  convertScalar(ft, str) = toFloat32(d) /\ convertFloat(str).v = d
            <4>1. convertFloat(str).err = "nil" /\ convertFloat(str).v = d
                BY <3>2, ResultsAre
            <4> QED BY <3>1, <4>1 DEF convertScalar
        <3>3. CASE convertFloat(str) = Converted(f)
            <4>1. toFloat32(f) = Converted(f)
                BY <2>1, <3>1, ToFloat32Keeps
            <4>2. convertScalar(ft, str) = toFloat32(f)
                BY <3>2, <3>3
            <4> QED BY <2>4, <2>5, <4>1, <4>2 DEF f, text, str, ft
        <3>4. CASE convertFloat(str) # Converted(f)
            <4>1. PICK d : /\ convertFloat(str) = Converted(d)
                           /\ toFloat32(d) = Converted(f) \/ IsMiddle(d[2], Precision[32])
                BY <2>7, <3>4
            <4>2. arg.kind = "float32"
                BY <2>7, <3>4
            <4>3. convertScalar(ft, str) = toFloat32(d) /\ convertFloat(str).v = d
                BY <3>2, <4>1
            <4> QED BY <2>4, <2>5, <4>1, <4>2, <4>3 DEF f, text, str, ft
        <3> QED BY <3>3, <3>4
    <2> QED BY <1>4, <2>8, <2>9, KindsAre
<1> QED BY <1>3, <1>4 DEF NumberKind

-----------------------------------------------------------------------------
(* The specification *)

\* What is parsed or converted is as it comes from outside, or as the program makes it:
\* the name of a field, or the text of a number that is kept beside it.
JobInv ==
    \/ job[1] = "path" /\ Len(job) = 2 /\ job[2] \in PathInput
    \/ job[1] = "path" /\ Len(job) = 3 /\ IsFieldName(job[2])
    \/ job[1] = "config" /\ Len(job) = 2 /\ job[2] \in ConfigInput
    \/ job[1] = "convert" /\ Len(job) = 3 /\ IsArg(job[2])
    \/ /\ job[1] = "convert" /\ Len(job) = 4
       /\ IsArg(job[4]) /\ job[4].kind \in NumberKind
       /\ job[2] = Arg("string", convertString(job[4]).v) /\ job[3] # "string"

\* The result is that of the job.
ResultInv ==
    result # NoResult =>
        /\ IsJob("path") => result = parsePathBuf(job[2])
        /\ IsJob("convert") => result = convertScalar(job[3], job[2])
        /\ IsJob("config") => result = ParseSchema(job[2])

InputInv == JobInv /\ ResultInv

LEMMA InputInvInit == Init => InputInv
<1> SUFFICES ASSUME Init PROVE InputInv
    OBVIOUS
<1>1. ResultInv
    BY DEF Init, ResultInv
<1>2. JobInv
    <2>1. CASE \E p \in PathInput : job = <<"path", p>>
        BY <2>1 DEF JobInv
    <2>2. CASE \E a \in ArgInput, ft \in FieldType : job = <<"convert", a, ft>>
        <3>1. PICK a \in ArgInput, ft \in FieldType : job = <<"convert", a, ft>>
            BY <2>2
        <3>2. job[1] = "convert" /\ Len(job) = 3 /\ job[2] = a
            BY <3>1
        <3> QED BY <3>2, InputsAssumption DEF JobInv
    <2>3. CASE \E c \in ConfigInput : job = <<"config", c>>
        BY <2>3 DEF JobInv
    <2> QED BY <2>1, <2>2, <2>3 DEF Init
<1> QED BY <1>1, <1>2 DEF InputInv

LEMMA InputInvNext == InputInv /\ [Next]_inputVars => InputInv'
<1> SUFFICES ASSUME InputInv, [Next]_inputVars PROVE InputInv'
    OBVIOUS
<1>1. JobInv /\ ResultInv
    BY DEF InputInv
<1>2. CASE Path
    <2>1. job' = job /\ job[1] = "path" /\ result' = parsePathBuf(job[2])
        BY <1>2 DEF Path, Begin, IsJob
    <2> QED BY <1>1, <2>1 DEF InputInv, JobInv, ResultInv, IsJob
<1>3. CASE Convert
    <2>1. job' = job /\ job[1] = "convert" /\ result' = convertScalar(job[3], job[2])
        BY <1>3 DEF Convert, Begin, IsJob
    <2> QED BY <1>1, <2>1 DEF InputInv, JobInv, ResultInv, IsJob
<1>4. CASE Configure
    <2>1. job' = job /\ job[1] = "config" /\ result' = ParseSchema(job[2])
        BY <1>4 DEF Configure, Begin, IsJob
    <2> QED BY <1>1, <2>1 DEF InputInv, JobInv, ResultInv, IsJob
<1>5. CASE ReadBack
    <2>1. /\ job[1] = "convert" /\ job[3] = "string" /\ job[2].kind \in NumberKind
          /\ result # NoResult /\ result' = NoResult
          /\ \E ft \in FieldType \ {"string"} : job' = <<"convert", Arg("string", result.v), ft, job[2]>>
        BY <1>5 DEF ReadBack, IsJob
    <2>2. PICK ft \in FieldType \ {"string"} : job' = <<"convert", Arg("string", result.v), ft, job[2]>>
        BY <2>1
    <2>3. IsArg(job[2])
        BY <1>1, <2>1 DEF JobInv
    <2>4. result = convertString(job[2])
        <3>1. result = convertScalar("string", job[2])
            BY <1>1, <2>1 DEF ResultInv, IsJob
        <3>2. convertScalar("string", job[2]) = convertString(job[2])
            BY DEF convertScalar
        <3> QED BY <3>1, <3>2
    <2> DEFINE a == job[2]
    <2>5. /\ job'[1] = "convert" /\ Len(job') = 4 /\ job'[4] = a
          /\ job'[2] = Arg("string", convertString(a).v) /\ job'[3] = ft
        BY <2>2, <2>4
    <2>6. JobInv'
        BY <2>1, <2>3, <2>5 DEF JobInv
    <2>7. ResultInv'
        BY <2>1 DEF ResultInv
    <2> QED BY <2>6, <2>7 DEF InputInv
<1>6. CASE Address
    <2>1. /\ job[1] = "config" /\ result # NoResult /\ result.err = "nil" /\ result' = NoResult
          /\ \E s \in Range(result.v) : \E name \in NamesIn(s) : job' = <<"path", name, "field">>
        BY <1>6 DEF Address, IsJob
    <2>2. PICK s \in Range(result.v) : \E name \in NamesIn(s) : job' = <<"path", name, "field">>
        BY <2>1
    <2>3. PICK name \in NamesIn(s) : job' = <<"path", name, "field">>
        BY <2>2
    <2>4. job[2] \in RawConfig /\ result = ParseSchema(job[2])
        BY <1>1, <2>1, InputsAssumption DEF JobInv, ResultInv, IsJob
    <2>5. IsFieldName(name)
        BY <2>1, <2>3, <2>4, ConfigIs
    <2>6. job'[1] = "path" /\ Len(job') = 3 /\ job'[2] = name
        BY <2>3
    <2>7. JobInv'
        BY <2>5, <2>6 DEF JobInv
    <2>8. ResultInv'
        BY <2>1 DEF ResultInv
    <2> QED BY <2>7, <2>8 DEF InputInv
<1>7. CASE UNCHANGED inputVars
    BY <1>1, <1>7 DEF inputVars, InputInv, JobInv, ResultInv, IsJob
<1> QED BY <1>2, <1>3, <1>4, <1>5, <1>6, <1>7 DEF Next

\* Always: jobs are as they should be, and results are those of their jobs.
THEOREM InputsAreKept == Spec => []InputInv
<1>1. Init => InputInv
    BY InputInvInit
<1>2. InputInv /\ [Next]_inputVars => InputInv'
    BY InputInvNext
<1> QED BY <1>1, <1>2, PTL DEF Spec

\* Every number, of every kind and at every bound of every width, becomes what the field
\* can hold of it: an integer field refuses exactly what is not its own, a float field
\* takes the nearest float or the one next to it (convertScalar).
THEOREM ConversionIsRight == Spec => []NumbersConverted
<1>1. InputInv => NumbersConverted
    <2> SUFFICES ASSUME InputInv, result # NoResult, job[1] = "convert"
                 PROVE  /\ job[3] \in DOMAIN IntegerField => result = ToInteger(job[3], job[2])
                        /\ job[3] \in DOMAIN FloatField => ToFloat(job[3], job[2], result)
        BY DEF NumbersConverted, Done, IsJob
    <2>1. IsArg(job[2])
        BY ReadsBack DEF InputInv, JobInv
    <2>2. result = convertScalar(job[3], job[2])
        BY DEF InputInv, ResultInv, IsJob
    <2> QED BY <2>1, <2>2, IntegerIs, FloatConverted
<1> QED BY <1>1, InputsAreKept, PTL

\* The text that a string field makes of a number is read by a field of the number's own
\* type as the same number, whatever the number.  The one exception is a float32 whose
\* text is read as a double that is just in the middle between two float32s
\* (convertString, then convertFloat and toFloat32).
THEOREM TextLosesNothing == Spec => []TextsReadBack
<1>1. InputInv => TextsReadBack
    <2> SUFFICES ASSUME InputInv, result # NoResult, job[1] = "convert", Len(job) = 4,
                        job[3] = OwnType[job[4].kind]
                 PROVE  \/ result = Converted(job[4].v)
                        \/ /\ job[4].kind = "float32"
                           /\ IsMiddle(convertFloat(job[2]).v[2], Precision[32])
        BY DEF TextsReadBack, Done, IsJob
    <2>1. /\ IsArg(job[4]) /\ job[4].kind \in NumberKind
          /\ job[2] = Arg("string", convertString(job[4]).v)
        BY DEF InputInv, JobInv
    <2>2. result = convertScalar(job[3], job[2])
        BY DEF InputInv, ResultInv, IsJob
    <2> QED BY <2>1, <2>2, ReadsBack
<1> QED BY <1>1, InputsAreKept, PTL

\* However many types a configuration has, and however deep their messages: it is accepted
\* exactly when the readme allows it, and every schema then finds its fields by name and
\* by number, at every depth (ParseSchema).
THEOREM SchemasAreSound == Spec => []ConfigsParsed
<1>1. InputInv => ConfigsParsed
    <2> SUFFICES ASSUME InputInv, result # NoResult, job[1] = "config" PROVE ConfigsParsed
        BY DEF ConfigsParsed, Done, IsJob
    <2>1. job[2] \in RawConfig
        BY InputsAssumption DEF InputInv, JobInv
    <2>2. result = ParseSchema(job[2])
        BY DEF InputInv, ResultInv, IsJob
    <2> QED BY <2>1, <2>2, ConfigIs DEF ConfigsParsed
<1> QED BY <1>1, InputsAreKept, PTL

\* The name of every field that an accepted configuration declares, at every depth, is a
\* path that the parser reads as this one name (ParseSchema, then parsePathBuf).
THEOREM NamesArePaths == Spec => []FieldsAddressable
<1>1. InputInv => FieldsAddressable
    <2> SUFFICES ASSUME InputInv, result # NoResult, job[1] = "path", Len(job) = 3
                 PROVE  result = [err |-> "nil", segs |-> <<Seg(job[2], NoIndex)>>]
        BY DEF FieldsAddressable, Done, IsJob
    <2>1. IsFieldName(job[2])
        BY DEF InputInv, JobInv
    <2>2. result = parsePathBuf(job[2])
        BY DEF InputInv, ResultInv, IsJob
    <2> QED BY <2>1, <2>2, NameIsPath
<1> QED BY <1>1, InputsAreKept, PTL

\* However long the path: it is accepted exactly when it is right, and is then its
\* parts; otherwise the error is that of what is wrong first (parsePathBuf).
THEOREM PathsAreRead == Spec => []PathsParsed
<1>1. InputInv => PathsParsed
    <2> SUFFICES ASSUME InputInv, result # NoResult, job[1] = "path"
                 PROVE  result = PathMeans(job[2])
        BY DEF PathsParsed, Done, IsJob
    <2>1. job[2] \in Seq(STRING)
        BY InputsAssumption DEF InputInv, JobInv, IsFieldName
    <2>2. result = parsePathBuf(job[2])
        BY DEF InputInv, ResultInv, IsJob
    <2> QED BY <2>1, <2>2, PathRead
<1> QED BY <1>1, InputsAreKept, PTL
=============================================================================
