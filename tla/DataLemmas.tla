----------------------------- MODULE DataLemmas -----------------------------
(***************************************************************************)
(* Lemmas about data that the proofs of several components use: induction  *)
(* over the natural numbers, for a set and not for an operator, sequences  *)
(* that change at one place, and numbers that are rounded.                 *)
(***************************************************************************)
EXTENDS Decoded, Rounding, Naturals, SequenceTheorems, WellFoundedInduction, TLAPS

\* Every set of numbers that has one has a least.
LEMMA LeastNat ==
    ASSUME NEW S \in SUBSET Nat, S # {}
    PROVE  \E m \in S : \A k \in S : m =< k
<1> DEFINE R == OpToRel(<, Nat)
<1>1. IsWellFoundedOn(R, Nat)
    BY NatLessThanWellFounded
<1>2. \A x, y \in Nat : <<x, y>> \in R <=> x < y
    BY DEF OpToRel
<1> HIDE DEF R
<1>3. PICK x \in S : \A y \in S : ~(<<y, x>> \in R)
    BY <1>1, WFMin
<1>4. \A y \in S : x \in Nat /\ y \in Nat /\ ~(y < x)
    BY <1>2, <1>3
<1> QED BY <1>4

\* Induction, for the set of the numbers that have the property.
LEMMA NatSetInduction ==
    ASSUME NEW S, 0 \in S, \A n \in Nat : n \in S => n + 1 \in S
    PROVE  Nat \subseteq S
<1> SUFFICES ASSUME Nat \ S # {} PROVE FALSE
    OBVIOUS
<1>1. PICK m \in Nat \ S : \A k \in Nat \ S : m =< k
    BY LeastNat
<1>2. m # 0 /\ m - 1 \in Nat
    BY <1>1
<1>3. m - 1 \in S
    BY <1>1, <1>2
<1> QED BY <1>1, <1>2, <1>3

-----------------------------------------------------------------------------
(* Lists *)
LEMMA ListIs ==
    ASSUME NEW S, NEW s \in Seq(S)
    PROVE  IsList(s)
<1> DEFINE Z == {s[j] : j \in DOMAIN s}
<1>1. Len(s) \in Nat /\ DOMAIN s = 1..Len(s) /\ s \in [1..Len(s) -> S]
    BY LenProperties
<1>2. s \in [1..Len(s) -> Z]
    BY <1>1
<1>3. s \in Seq(Z)
    BY <1>1, <1>2, SeqDef
<1> QED BY <1>3 DEF IsList

LEMMA ListLen ==
    ASSUME NEW s, IsList(s)
    PROVE  Len(s) \in Nat /\ DOMAIN s = 1..Len(s)
BY LenProperties DEF IsList

LEMMA ChangeInList ==
    ASSUME NEW s, IsList(s), NEW n \in DOMAIN s, NEW x
    PROVE  LET z == [s EXCEPT ![n] = x]
           IN  /\ IsList(z) /\ Len(z) = Len(s) /\ DOMAIN z = DOMAIN s
               /\ \A k \in DOMAIN z : z[k] = IF k = n THEN x ELSE s[k]
<1> DEFINE S == {s[k] : k \in DOMAIN s} \cup {x}
<1> DEFINE z == [s EXCEPT ![n] = x]
<1>1. s \in Seq(S) /\ n \in 1..Len(s) /\ DOMAIN s = 1..Len(s)
    BY SeqMonotonic, ListLen DEF IsList
<1>2. z \in Seq(S) /\ Len(z) = Len(s) /\ \A k \in 1..Len(s) : z[k] = IF k = n THEN x ELSE s[k]
    BY <1>1, ExceptSeq
<1> HIDE DEF z, S
<1>3. DOMAIN z = 1..Len(z)
    BY <1>2, LenProperties
<1>4. IsList(z)
    BY <1>2, ListIs
<1> QED BY <1>1, <1>2, <1>3, <1>4 DEF z

LEMMA FrontOfList ==
    ASSUME NEW s, IsList(s), NEW n \in 0..Len(s)
    PROVE  LET z == SubSeq(s, 1, n)
           IN  /\ IsList(z) /\ Len(z) = n /\ DOMAIN z = 1..n
               /\ \A k \in 1..n : z[k] = s[k]
<1> DEFINE S == {s[k] : k \in DOMAIN s}
<1> DEFINE z == SubSeq(s, 1, n)
<1>1. s \in Seq(S) /\ Len(s) \in Nat /\ DOMAIN s = 1..Len(s) /\ n \in Nat
    BY ListLen DEF IsList
<1>2. \A k \in 1..n : s[k] \in S
    BY <1>1
<1>3. /\ z \in Seq(S) /\ Len(z) = IF 1 =< n THEN n - 1 + 1 ELSE 0
      /\ \A k \in 1..(n - 1 + 1) : z[k] = s[1 + k - 1]
    BY <1>1, <1>2, SubSeqProperties
<1> HIDE DEF z, S
<1>4. Len(z) = n
    BY <1>1, <1>3
<1>5. DOMAIN z = 1..n
    BY <1>3, <1>4, LenProperties
<1>6. \A k \in 1..n : z[k] = s[k]
    BY <1>1, <1>3
<1>7. IsList(z)
    BY <1>3, ListIs
<1> QED BY <1>4, <1>5, <1>6, <1>7 DEF z

LEMMA AppendToList ==
    ASSUME NEW s, IsList(s), NEW x
    PROVE  LET z == Append(s, x)
           IN  /\ IsList(z) /\ Len(z) = Len(s) + 1 /\ DOMAIN z = 1..(Len(s) + 1)
               /\ z[Len(s) + 1] = x
               /\ \A k \in 1..Len(s) : z[k] = s[k]
<1> DEFINE S == {s[j] : j \in DOMAIN s} \cup {x}
<1> DEFINE z == Append(s, x)
<1>1. s \in Seq(S)
    BY SeqMonotonic DEF IsList
<1>2. /\ z \in Seq(S) /\ Len(z) = Len(s) + 1
      /\ \A j \in 1..Len(s) : z[j] = s[j]
      /\ z[Len(s) + 1] = x
    BY <1>1, AppendProperties
<1> HIDE DEF z, S
<1>3. DOMAIN z = 1..Len(z) /\ IsList(z)
    BY <1>2, LenProperties, ListIs
<1> QED BY <1>2, <1>3 DEF z

-----------------------------------------------------------------------------
(* Numbers that are rounded *)
LEMMA TwoToIs ==
    /\ twoTo[0] = 1
    /\ \A n \in Nat : twoTo[n + 1] = 2 * twoTo[n]
<1> DEFINE P(f, n) == f = [j \in 0 .. n |-> IF j = 0 THEN 1 ELSE 2 * f[j - 1]]
<1> DEFINE S == {n \in Nat : \E f : P(f, n)}
<1>1. 0 \in S
    <2>1. P([j \in 0 .. 0 |-> 1], 0)
        OBVIOUS
    <2> QED BY <2>1
<1>2. ASSUME NEW n \in Nat, n \in S
      PROVE  n + 1 \in S
    <2>1. PICK f : P(f, n)
        BY <1>2
    <2> DEFINE g == [j \in 0 .. n + 1 |-> IF j = n + 1 THEN 2 * f[n] ELSE f[j]]
    <2>2. ASSUME NEW j \in 0 .. n + 1
          PROVE  g[j] = IF j = 0 THEN 1 ELSE 2 * g[j - 1]
        <3>1. CASE j = n + 1
            BY <3>1
        <3>2. CASE j # n + 1
            <4>1. j \in 0 .. n /\ (j # 0 => j - 1 \in 0 .. n)
                BY <3>2
            <4> HIDE DEF P
            <4>2. f[j] = IF j = 0 THEN 1 ELSE 2 * f[j - 1]
                BY <2>1, <4>1 DEF P
            <4> QED BY <3>2, <4>1, <4>2
        <3> QED BY <3>1, <3>2
    <2>3. P(g, n + 1)
        BY <2>2
    <2> HIDE DEF P, g
    <2> QED BY <2>3
<1>3. ASSUME NEW n \in Nat, NEW f, P(f, n)
      PROVE  f[0] = 1 /\ \A j \in Nat : j + 1 =< n => f[j + 1] = 2 * f[j]
    <2> HIDE DEF P
    <2>1. \A j \in 0 .. n : f[j] = IF j = 0 THEN 1 ELSE 2 * f[j - 1]
        BY <1>3 DEF P
    <2>2. 0 \in 0 .. n /\ \A j \in Nat : j + 1 =< n => j + 1 \in 0 .. n /\ j + 1 # 0 /\ (j + 1) - 1 = j
        OBVIOUS
    <2> QED BY <2>1, <2>2
<1> HIDE DEF P, S
<1>4. Nat \subseteq S
    BY <1>1, <1>2, NatSetInduction
\* Two of these functions agree where both are defined.
<1> DEFINE A == {k \in Nat : \A n, m \in Nat : \A f, g : P(f, n) /\ P(g, m) /\ k =< n /\ k =< m => f[k] = g[k]}
<1>5. 0 \in A
    BY <1>3
<1>6. ASSUME NEW k \in Nat, k \in A
      PROVE  k + 1 \in A
    <2> SUFFICES ASSUME NEW n \in Nat, NEW m \in Nat, NEW f, NEW g, P(f, n), P(g, m),
                        k + 1 =< n, k + 1 =< m
                 PROVE  f[k + 1] = g[k + 1]
        OBVIOUS
    <2>1. f[k] = g[k]
        BY <1>6
    <2>2. f[k + 1] = 2 * f[k] /\ g[k + 1] = 2 * g[k]
        BY <1>3
    <2> QED BY <2>1, <2>2
<1> HIDE DEF A
<1>7. Nat \subseteq A
    BY <1>5, <1>6, NatSetInduction
<1> DEFINE F(n) == CHOOSE f : P(f, n)
<1>8. \A n \in Nat : P(F(n), n)
    BY <1>4 DEF S
<1> HIDE DEF F
<1> DEFINE h == [n \in Nat |-> F(n)[n]]
<1>9. ASSUME NEW n \in Nat
      PROVE  h[n] = IF n = 0 THEN 1 ELSE 2 * h[n - 1]
    <2>1. CASE n = 0
        BY <1>3, <1>8, <2>1
    <2>2. CASE n # 0
        <3>1. n - 1 \in Nat /\ (n - 1) + 1 = n /\ n =< n /\ n - 1 =< n - 1 /\ n - 1 =< n
            BY <2>2
        <3>2. F(n)[n] = 2 * F(n)[n - 1]
            BY <1>3, <1>8, <3>1
        <3>3. F(n)[n - 1] = F(n - 1)[n - 1]
            BY <1>7, <1>8, <3>1 DEF A
        <3> QED BY <2>2, <3>1, <3>2, <3>3
    <2> QED BY <2>1, <2>2
<1> DEFINE Q(f) == f = [n \in Nat |-> IF n = 0 THEN 1 ELSE 2 * f[n - 1]]
<1>10. Q(h)
    BY <1>9
<1>11. twoTo = CHOOSE f : Q(f)
    BY DEF twoTo, Q
<1> HIDE DEF Q, h
<1>12. Q(twoTo)
    BY <1>10, <1>11
<1>13. \A n \in Nat : twoTo[n] = IF n = 0 THEN 1 ELSE 2 * twoTo[n - 1]
    BY <1>12, Zenon DEF Q
<1>14. \A n \in Nat : n + 1 \in Nat /\ n + 1 # 0 /\ (n + 1) - 1 = n
    OBVIOUS
<1> QED BY <1>13, <1>14

LEMMA TwoToGrows ==
    /\ \A n \in Nat : twoTo[n] \in Nat /\ twoTo[n] > n
    /\ \A m, n \in Nat : m =< n => twoTo[m] =< twoTo[n]
    /\ \A m, n \in Nat : twoTo[m + n] = twoTo[m] * twoTo[n]
<1> DEFINE S == {n \in Nat : twoTo[n] \in Nat /\ twoTo[n] > n}
<1>1. 0 \in S
    BY TwoToIs
<1>2. ASSUME NEW n \in Nat, n \in S
      PROVE  n + 1 \in S
    BY <1>2, TwoToIs
<1> HIDE DEF S
<1>3. \A n \in Nat : twoTo[n] \in Nat /\ twoTo[n] > n
    BY <1>1, <1>2, NatSetInduction DEF S
<1> DEFINE M == {d \in Nat : \A m \in Nat : twoTo[m] =< twoTo[m + d]}
<1>4. 0 \in M
    BY <1>3
<1>5. ASSUME NEW d \in Nat, d \in M
      PROVE  d + 1 \in M
    <2>1. ASSUME NEW m \in Nat
          PROVE  twoTo[m] =< twoTo[m + (d + 1)]
        <3>1. m + d \in Nat /\ m + (d + 1) = (m + d) + 1
            OBVIOUS
        <3>2. twoTo[m] =< twoTo[m + d] /\ twoTo[m + (d + 1)] = 2 * twoTo[m + d]
            BY <1>5, <3>1, TwoToIs
        <3> QED BY <1>3, <3>1, <3>2
    <2> QED BY <2>1
<1> HIDE DEF M
<1>6. \A d \in Nat : d \in M
    BY <1>4, <1>5, NatSetInduction
<1>7. ASSUME NEW m \in Nat, NEW n \in Nat, m =< n
      PROVE  twoTo[m] =< twoTo[n]
    <2>1. n - m \in Nat /\ m + (n - m) = n
        BY <1>7
    <2> QED BY <1>6, <2>1 DEF M
<1> DEFINE T == {n \in Nat : \A m \in Nat : twoTo[m + n] = twoTo[m] * twoTo[n]}
<1>8. 0 \in T
    <2>1. \A m \in Nat : m + 0 = m
        OBVIOUS
    <2> QED BY <1>3, <2>1, TwoToIs
<1>9. ASSUME NEW n \in Nat, n \in T
      PROVE  n + 1 \in T
    <2>1. ASSUME NEW m \in Nat
          PROVE  twoTo[m + (n + 1)] = twoTo[m] * twoTo[n + 1]
        <3>1. m + n \in Nat /\ m + (n + 1) = (m + n) + 1
            OBVIOUS
        <3>2. twoTo[m + (n + 1)] = 2 * (twoTo[m] * twoTo[n]) /\ twoTo[n + 1] = 2 * twoTo[n]
            BY <1>9, <3>1, TwoToIs
        <3>3. \A x, y \in Nat : 2 * (x * y) = x * (2 * y)
            OBVIOUS
        <3> QED BY <1>3, <3>2, <3>3
    <2> QED BY <2>1
<1> HIDE DEF T
<1>10. \A n \in Nat : n \in T
    BY <1>8, <1>9, NatSetInduction
<1> QED BY <1>3, <1>7, <1>10 DEF T

\* e is the scale of n.
IsScale(e, n, p) ==
    /\ e \in Nat /\ n < twoTo[p + e]
    /\ e = 0 \/ n >= twoTo[p + e - 1]

LEMMA ScaleIs ==
    ASSUME NEW p \in Nat \ {0}, NEW n \in Nat
    PROVE  /\ Scale(n, p) \in 0..n /\ IsScale(Scale(n, p), n, p)
           /\ \A e : IsScale(e, n, p) => e = Scale(n, p)
<1>1. p \in Nat /\ p > 0
    OBVIOUS
<1>11. \A k \in Nat : twoTo[k] \in Nat /\ twoTo[k] > k
    BY TwoToGrows
<1>12. \A m, k \in Nat : m =< k => twoTo[m] =< twoTo[k]
    BY TwoToGrows
<1> DEFINE S == {e \in Nat : n < twoTo[p + e]}
<1>2. n < twoTo[p + n]
    <2>1. p + n \in Nat /\ p + n > n
        BY <1>1
    <2> QED BY <1>11, <2>1
<1>3. n \in S
    BY <1>2
<1>4. PICK e \in S : \A k \in S : e =< k
    BY <1>3, LeastNat
<1>5. e \in 0..n
    BY <1>3, <1>4
<1>6. IsScale(e, n, p)
    <2>1. CASE e = 0
        BY <1>4, <2>1 DEF IsScale
    <2>2. CASE e # 0
        <3>1. e - 1 \in Nat /\ ~(e =< e - 1) /\ p + (e - 1) = p + e - 1 /\ p + (e - 1) \in Nat
            BY <1>1, <1>5, <2>2
        <3>2. ~(n < twoTo[p + (e - 1)])
            BY <1>4, <3>1
        <3>3. n >= twoTo[p + e - 1]
            BY <1>11, <3>1, <3>2
        <3> QED BY <1>4, <3>3 DEF IsScale
    <2> QED BY <2>1, <2>2
<1>7. ASSUME NEW x, NEW y, IsScale(x, n, p), IsScale(y, n, p), x < y
      PROVE  FALSE
    <2>1. x \in Nat /\ y \in Nat /\ n < twoTo[p + x] /\ n >= twoTo[p + y - 1]
        BY <1>7 DEF IsScale
    <2>2. p + x \in Nat /\ p + y - 1 \in Nat /\ p + x =< p + y - 1
        BY <1>1, <1>7, <2>1
    <2> QED BY <1>11, <1>12, <2>1, <2>2
<1>8. \A x, y : IsScale(x, n, p) /\ IsScale(y, n, p) => x = y
    <2>1. \A x, y \in Nat : x < y \/ y < x \/ x = y
        OBVIOUS
    <2> QED BY <1>7, <2>1 DEF IsScale
<1>9. Scale(n, p) = CHOOSE x \in 0..n : IsScale(x, n, p)
    BY DEF Scale, IsScale
<1>10. Scale(n, p) \in 0..n /\ IsScale(Scale(n, p), n, p)
    BY <1>5, <1>6, <1>9
<1> QED BY <1>8, <1>10

\* What is rounded is a multiple, and a multiple stays.
LEMMA NearestIs ==
    ASSUME NEW u \in Nat, u > 0
    PROVE  /\ \A k \in Nat : Nearest(k * u, u) = k * u
           /\ \A a \in Nat : \E k \in Nat :
                 /\ Nearest(a, u) = k * u
                 /\ \A m \in Nat : m * u =< a => m =< k
                 /\ \A m \in Nat : a < m * u => k =< m
<1>1. ASSUME NEW k \in Nat
      PROVE  Nearest(k * u, u) = k * u
    <2>1. (k * u) \div u = k /\ (k * u) % u = 0 /\ 2 * 0 = 0 /\ ~(0 > u) /\ 0 # u
        <3>1. \A j, x \in Nat : x > 0 => (j * x) \div x = j
            OBVIOUS
        <3>2. \A j, x \in Nat : x > 0 => (j * x) % x = 0
            OBVIOUS
        <3>3. 2 * 0 = 0 /\ ~(0 > u) /\ 0 # u
            OBVIOUS
        <3> QED BY <3>1, <3>2, <3>3
    <2> QED BY <2>1, Zenon DEF Nearest
<1>2. ASSUME NEW a \in Nat
      PROVE  \E k \in Nat : /\ Nearest(a, u) = k * u
                            /\ \A m \in Nat : m * u =< a => m =< k
                            /\ \A m \in Nat : a < m * u => k =< m
    <2> DEFINE q == a \div u
    <2>1. q \in Nat /\ q + 1 \in Nat
        BY DEF q
    <2>2. a = u * q + (a % u) /\ a % u \in 0 .. u - 1
        OBVIOUS
    <2> HIDE DEF q
    <2>3. q * u =< a /\ a < (q + 1) * u
        <3>1. \A x, y, r \in Nat : x = u * y + r /\ r =< u - 1 => y * u =< x /\ x < (y + 1) * u
            OBVIOUS
        <3> QED BY <2>1, <2>2, <3>1
    <2>4. \A x, y \in Nat : x * u < y * u => x < y
        OBVIOUS
    <2>5. \A x, y, z \in Int : x =< y /\ y < z => x < z
        OBVIOUS
    <2>6. ASSUME NEW m \in Nat
          PROVE  (m * u =< a => m < q + 1) /\ (a < m * u => q < m)
        <3>1. m * u \in Int /\ q * u \in Int /\ (q + 1) * u \in Int
            BY <2>1
        <3>2. m * u =< a => m * u < (q + 1) * u
            BY <2>3, <2>5, <3>1
        <3>3. a < m * u => q * u < m * u
            BY <2>3, <2>5, <3>1
        <3> QED BY <2>1, <2>4, <3>2, <3>3
    <2>7. \A m \in Nat : (m < q + 1 => m =< q /\ m =< q + 1) /\ (q < m => q =< m /\ q + 1 =< m)
        BY <2>1
    <2>8. Nearest(a, u) = q * u \/ Nearest(a, u) = (q + 1) * u
        BY Zenon DEF Nearest, q
    <2> QED BY <2>1, <2>6, <2>7, <2>8
<1> QED BY <1>1, <1>2

\* Rounding what is rounded changes nothing.
LEMMA RoundAgain ==
    ASSUME NEW p \in Nat \ {0}, NEW a \in Nat
    PROVE  Round(a, p) \in Nat /\ Round(Round(a, p), p) = Round(a, p)
<1> DEFINE e == Scale(a, p)
           u == twoTo[e]
           n == Nearest(a, u)
<1>1. p \in Nat /\ p > 0 /\ p - 1 \in Nat
    OBVIOUS
<1>2. e \in Nat /\ IsScale(e, a, p)
    BY ScaleIs
<1>3. \A k \in Nat : twoTo[k] \in Nat /\ twoTo[k] > k
    BY TwoToGrows
<1>4. u \in Nat /\ u > 0
    BY <1>2, <1>3
<1> HIDE DEF e, u, n
<1>5. PICK k \in Nat : /\ n = k * u
                       /\ \A m \in Nat : m * u =< a => m =< k
                       /\ \A m \in Nat : a < m * u => k =< m
    BY <1>4, NearestIs DEF n
<1>6. n \in Nat
    BY <1>4, <1>5
<1>7. twoTo[p + e] = twoTo[p] * u /\ twoTo[p] \in Nat /\ p + e \in Nat
    <2>1. twoTo[p + e] = twoTo[p] * twoTo[e]
        BY <1>1, <1>2, TwoToGrows
    <2>2. twoTo[p] \in Nat /\ p + e \in Nat
        BY <1>1, <1>2, <1>3
    <2> QED BY <2>1, <2>2 DEF u
<1>8. k =< twoTo[p]
    BY <1>2, <1>5, <1>7 DEF IsScale
<1>9. e # 0 => n >= twoTo[p + e - 1]
    <2> SUFFICES ASSUME e # 0 PROVE n >= twoTo[p + e - 1]
        OBVIOUS
    <2>1. p + e - 1 = (p - 1) + e /\ (p - 1) + e \in Nat
        BY <1>1, <1>2
    <2>2. twoTo[p + e - 1] = twoTo[p - 1] * u /\ twoTo[p - 1] \in Nat
        BY <1>1, <1>2, <1>3, <2>1, TwoToGrows DEF u
    <2>3. a >= twoTo[p + e - 1]
        BY <1>2 DEF IsScale
    <2>4. twoTo[p - 1] * u =< a
        <3>1. \A x, y \in Nat : x >= y => y =< x
            OBVIOUS
        <3>2. twoTo[p - 1] * u \in Nat
            BY <1>4, <2>2
        <3> QED BY <2>2, <2>3, <3>1, <3>2
    <2>5. twoTo[p - 1] =< k
        BY <1>5, <2>2, <2>4
    <2>6. \A x, y, z \in Nat : x =< y => y * z >= x * z
        OBVIOUS
    <2> QED BY <1>4, <1>5, <2>2, <2>5, <2>6
<1>10. Nearest(n, twoTo[Scale(n, p)]) = n
    <2>1. CASE k < twoTo[p]
        <3>1. \A x, y, z \in Nat : x < y /\ z > 0 => x * z < y * z
            OBVIOUS
        <3>2. n < twoTo[p + e]
            BY <1>4, <1>5, <1>7, <2>1, <3>1
        <3>3. IsScale(e, n, p)
            BY <1>2, <1>9, <3>2 DEF IsScale
        <3>4. Scale(n, p) = e
            BY <1>6, <3>3, ScaleIs
        <3>5. Nearest(k * u, u) = k * u
            BY <1>4, NearestIs
        <3> QED BY <1>5, <3>4, <3>5 DEF u
    <2>2. CASE k = twoTo[p]
        <3>1. n = twoTo[p + e] /\ p + (e + 1) = (p + e) + 1 /\ p + (e + 1) - 1 = p + e /\ e + 1 \in Nat
            BY <1>1, <1>2, <1>5, <1>7, <2>2
        <3>2. twoTo[(p + e) + 1] = 2 * twoTo[p + e] /\ twoTo[p + e] > p + e
            BY <1>3, <1>7, TwoToIs
        <3>3. \A x \in Nat : x > p + e => x < 2 * x /\ x >= x
            BY <1>7
        <3>4. IsScale(e + 1, n, p)
            <4>1. n < twoTo[(p + e) + 1] /\ n >= n
                BY <1>6, <3>1, <3>2, <3>3
            <4> QED BY <3>1, <4>1, Zenon DEF IsScale
        <3>5. Scale(n, p) = e + 1
            BY <1>6, <3>4, ScaleIs
        <3>6. twoTo[p + e] = twoTo[p - 1] * twoTo[e + 1]
            <4>1. (p - 1) + (e + 1) = p + e
                BY <1>1, <1>2
            <4>2. twoTo[(p - 1) + (e + 1)] = twoTo[p - 1] * twoTo[e + 1]
                BY <1>1, <3>1, TwoToGrows
            <4> QED BY <4>1, <4>2
        <3>7. twoTo[p - 1] \in Nat /\ twoTo[e + 1] \in Nat /\ twoTo[e + 1] > 0
            BY <1>1, <1>3, <3>1
        <3>8. \A j \in Nat : Nearest(j * twoTo[e + 1], twoTo[e + 1]) = j * twoTo[e + 1]
            BY <3>7, NearestIs
        <3> QED BY <3>1, <3>5, <3>6, <3>7, <3>8
    <2>3. \A x, y \in Nat : x =< y => x < y \/ x = y
        OBVIOUS
    <2> QED BY <1>7, <1>8, <2>1, <2>2, <2>3
<1> QED BY <1>6, <1>10 DEF Round, n, u, e

LEMMA TwoToPositive == \A n \in Nat : twoTo[n] \in Nat /\ twoTo[n] > 0
<1>1. \A n \in Nat : twoTo[n] \in Nat /\ twoTo[n] > n
    BY TwoToGrows
<1> QED BY <1>1

LEMMA TwoToSum == \A m, n \in Nat : twoTo[m + n] = twoTo[m] * twoTo[n]
BY TwoToGrows


\* A number that is rounded is between the multiples of the power of two of its scale.
LEMMA RoundIs ==
    ASSUME NEW p \in Nat \ {0}, NEW a \in Nat
    PROVE  LET e == Scale(a, p)
               u == twoTo[e]
           IN  /\ e \in Nat /\ u \in Nat /\ u > 0
               /\ a < twoTo[p] * u /\ (e # 0 => twoTo[p - 1] * u =< a)
               /\ Round(a, p) \in Nat /\ Round(a, p) = Nearest(a, u)
<1> DEFINE e == Scale(a, p)
           u == twoTo[e]
<1>1. e \in Nat /\ IsScale(e, a, p)
    BY ScaleIs
<1>2. u \in Nat /\ u > 0
    BY <1>1, TwoToPositive
<1>3. twoTo[p + e] = twoTo[p] * u
    BY <1>1, TwoToSum
<1>4. ASSUME e # 0
      PROVE  twoTo[p - 1] * u =< a
    <2>1. (p - 1) \in Nat /\ (p - 1) + e = p + e - 1
        BY <1>1
    <2>2. twoTo[(p - 1) + e] = twoTo[p - 1] * u
        BY <1>1, <2>1, TwoToSum
    <2>3. (p - 1) + e \in Nat
        BY <1>1, <2>1
    <2>4. twoTo[p + e - 1] \in Nat
        BY <2>1, <2>3, TwoToPositive
    <2>5. a >= twoTo[p + e - 1]
        BY <1>1, <1>4 DEF IsScale
    <2> QED BY <2>1, <2>2, <2>4, <2>5
<1>5. Round(a, p) \in Nat
    BY RoundAgain
<1> QED BY <1>1, <1>2, <1>3, <1>4, <1>5 DEF Round, IsScale

LEMMA NearestGrows ==
    ASSUME NEW u \in Nat, u > 0, NEW a \in Nat, NEW b \in Nat, a =< b
    PROVE  Nearest(a, u) =< Nearest(b, u)
<1> DEFINE q == a \div u
           r == b \div u
           s == a % u
           t == b % u
<1>1. q \in Nat /\ r \in Nat /\ s \in 0 .. u - 1 /\ t \in 0 .. u - 1 /\ a = u * q + s /\ b = u * r + t
    OBVIOUS
<1>2. Nearest(a, u) = IF 2 * s > u \/ (2 * s = u /\ q % 2 = 1) THEN (q + 1) * u ELSE q * u
    BY DEF Nearest
<1>3. Nearest(b, u) = IF 2 * t > u \/ (2 * t = u /\ r % 2 = 1) THEN (r + 1) * u ELSE r * u
    BY DEF Nearest
<1> HIDE DEF q, r, s, t
<1>4. \A x, y \in Nat : x =< y => x * u =< y * u
    OBVIOUS
<1>5. q =< r
    <2> SUFFICES ASSUME r + 1 =< q PROVE FALSE
        BY <1>1
    <2>1. (r + 1) * u =< q * u
        BY <1>1, <1>4
    <2>2. (r + 1) * u = u * r + u /\ q * u = u * q
        BY <1>1
    <2> QED BY <1>1, <2>1, <2>2
<1>6. CASE q = r
    <2>1. s =< t
        BY <1>1, <1>6
    <2>2. q * u =< (q + 1) * u /\ q * u \in Nat /\ (q + 1) * u \in Nat
        BY <1>1, <1>4
    <2> QED BY <1>1, <1>2, <1>3, <1>6, <2>1, <2>2
<1>7. CASE q # r
    <2>1. q + 1 =< r /\ r =< r + 1 /\ q =< q + 1
        BY <1>1, <1>5, <1>7
    <2>2. (q + 1) * u =< r * u /\ r * u =< (r + 1) * u /\ q * u =< (q + 1) * u
        BY <1>1, <1>4, <2>1
    <2>3. q * u \in Nat /\ (q + 1) * u \in Nat /\ r * u \in Nat /\ (r + 1) * u \in Nat
        BY <1>1
    <2> QED BY <1>2, <1>3, <2>2, <2>3
<1> QED BY <1>6, <1>7

LEMMA RoundGrows ==
    ASSUME NEW p \in Nat \ {0}, NEW a \in Nat, NEW b \in Nat, a =< b
    PROVE  Round(a, p) =< Round(b, p)
<1> DEFINE d == Scale(a, p)
           e == Scale(b, p)
           u == twoTo[d]
           v == twoTo[e]
<1>1. /\ d \in Nat /\ u \in Nat /\ u > 0 /\ a < twoTo[p] * u /\ (d # 0 => twoTo[p - 1] * u =< a)
      /\ Round(a, p) \in Nat /\ Round(a, p) = Nearest(a, u)
    BY RoundIs
<1>2. /\ e \in Nat /\ v \in Nat /\ v > 0 /\ b < twoTo[p] * v /\ (e # 0 => twoTo[p - 1] * v =< b)
      /\ Round(b, p) \in Nat /\ Round(b, p) = Nearest(b, v)
    BY RoundIs
<1>3. \A m, n \in Nat : m < n => twoTo[p] * twoTo[m] =< twoTo[p - 1] * twoTo[n]
    <2> SUFFICES ASSUME NEW m \in Nat, NEW n \in Nat, m < n
                 PROVE  twoTo[p] * twoTo[m] =< twoTo[p - 1] * twoTo[n]
        OBVIOUS
    <2>1. p - 1 \in Nat /\ p + m \in Nat /\ (p - 1) + n \in Nat /\ p + m =< (p - 1) + n
        OBVIOUS
    <2>2. twoTo[p + m] =< twoTo[(p - 1) + n]
        BY <2>1, TwoToGrows
    <2> QED BY <2>1, <2>2, TwoToGrows
<1>4. twoTo[p] \in Nat /\ twoTo[p - 1] \in Nat
    <2>1. p \in Nat /\ p - 1 \in Nat
        OBVIOUS
    <2> QED BY <2>1, TwoToPositive
<1> HIDE DEF d, e, u, v
<1>5. CASE d = e
    BY <1>1, <1>2, <1>5, NearestGrows DEF u, v
<1>6. CASE d < e
    <2>1. twoTo[p] * u =< twoTo[p - 1] * v /\ twoTo[p - 1] * v =< b
        BY <1>1, <1>2, <1>3, <1>6 DEF u, v
    <2>2. PICK k \in Nat : Nearest(a, u) = k * u /\ \A m \in Nat : a < m * u => k =< m
        BY <1>1, NearestIs
    <2>3. k =< twoTo[p]
        BY <1>1, <1>4, <2>2
    <2>4. PICK j \in Nat : Nearest(b, v) = j * v /\ \A m \in Nat : m * v =< b => m =< j
        BY <1>2, NearestIs
    <2>5. twoTo[p - 1] =< j
        BY <1>4, <2>1, <2>4
    <2>6. \A x, y, z \in Nat : x =< y => x * z =< y * z
        OBVIOUS
    <2>7. k * u =< twoTo[p] * u /\ twoTo[p - 1] * v =< j * v
        BY <1>1, <1>2, <1>4, <2>2, <2>3, <2>4, <2>5, <2>6
    <2>8. k * u \in Nat /\ twoTo[p] * u \in Nat /\ twoTo[p - 1] * v \in Nat /\ j * v \in Nat
        BY <1>1, <1>2, <1>4, <2>2, <2>4
    <2> QED BY <1>1, <1>2, <2>1, <2>2, <2>4, <2>7, <2>8
<1>7. CASE e < d
    <2>1. twoTo[p] * v =< twoTo[p - 1] * u /\ twoTo[p - 1] * u =< a
        BY <1>1, <1>2, <1>3, <1>7 DEF u, v
    <2>2. twoTo[p] * v \in Nat /\ twoTo[p - 1] * u \in Nat
        BY <1>1, <1>2, <1>4
    <2> QED BY <1>2, <2>1, <2>2
<1> QED BY <1>1, <1>2, <1>5, <1>6, <1>7

\* What has p bits has q bits too, when these are more.
LEMMA MoreBits ==
    ASSUME NEW p \in Nat \ {0}, NEW q \in Nat \ {0}, p =< q, NEW x \in Nat, Round(x, p) = x
    PROVE  Round(x, q) = x
<1> DEFINE d == Scale(x, q)
           e == Scale(x, p)
           u == twoTo[d]
           v == twoTo[e]
<1>1. /\ d \in Nat /\ u \in Nat /\ u > 0 /\ (d # 0 => twoTo[q - 1] * u =< x)
      /\ Round(x, q) = Nearest(x, u)
    BY RoundIs
<1>2. e \in Nat /\ v \in Nat /\ v > 0 /\ x < twoTo[p] * v /\ x = Nearest(x, v)
    BY RoundIs
<1>3. twoTo[p] \in Nat /\ twoTo[q - 1] \in Nat
    <2>1. p \in Nat /\ q - 1 \in Nat
        OBVIOUS
    <2> QED BY <2>1, TwoToPositive
<1> HIDE DEF d, e, u, v
<1>4. d =< e
    <2> SUFFICES ASSUME e < d PROVE FALSE
        BY <1>1, <1>2
    <2>1. q - 1 \in Nat /\ p + e \in Nat /\ (q - 1) + d \in Nat /\ p + e =< (q - 1) + d
        BY <1>1, <1>2
    <2>2. twoTo[p + e] =< twoTo[(q - 1) + d]
        BY <2>1, TwoToGrows
    <2>3. twoTo[p] * v =< twoTo[q - 1] * u
        BY <1>1, <1>2, <2>1, <2>2, TwoToGrows DEF u, v
    <2>4. twoTo[p] * v \in Nat /\ twoTo[q - 1] * u \in Nat /\ twoTo[q - 1] * u =< x
        BY <1>1, <1>2, <1>3
    <2> QED BY <1>2, <2>3, <2>4
<1>5. PICK k \in Nat : x = k * v
    <2>1. \E k \in Nat : Nearest(x, v) = k * v
        BY <1>2, NearestIs
    <2> QED BY <1>2, <2>1
<1>6. e - d \in Nat /\ d + (e - d) = e
    BY <1>1, <1>2, <1>4
<1>7. v = u * twoTo[e - d] /\ twoTo[e - d] \in Nat
    BY <1>1, <1>6, TwoToGrows DEF u, v
<1>8. \A i, j, z \in Nat : i * (z * j) = (i * j) * z
    OBVIOUS
<1>9. x = (k * twoTo[e - d]) * u /\ k * twoTo[e - d] \in Nat
    <2>1. k * (u * twoTo[e - d]) = (k * twoTo[e - d]) * u
        BY <1>1, <1>7, <1>8
    <2>2. \A i, j \in Nat : i * j \in Nat
        OBVIOUS
    <2> QED BY <1>5, <1>7, <2>1, <2>2
<1>10. Nearest((k * twoTo[e - d]) * u, u) = (k * twoTo[e - d]) * u
    BY <1>1, <1>9, NearestIs
<1> QED BY <1>1, <1>9, <1>10


\* The largest number of scale s is one of p bits.
LEMMA LargestStays ==
    ASSUME NEW p \in Nat \ {0}, NEW s \in Nat
    PROVE  LET L == (twoTo[p] - 1) * twoTo[s]
           IN  L \in Nat /\ Round(L, p) = L /\ twoTo[p - 1] * twoTo[s] =< L /\ L < twoTo[p] * twoTo[s]
<1> DEFINE u == twoTo[s]
           L == (twoTo[p] - 1) * u
<1>1. p \in Nat /\ p - 1 \in Nat /\ p = (p - 1) + 1
    OBVIOUS
<1>2. /\ u \in Nat /\ u > 0 /\ twoTo[p] \in Nat /\ twoTo[p] > 0
      /\ twoTo[p - 1] \in Nat /\ twoTo[p - 1] > 0
    BY <1>1, TwoToPositive
<1>3. twoTo[(p - 1) + 1] = 2 * twoTo[p - 1]
    BY <1>1, TwoToIs
<1>4. twoTo[p] = 2 * twoTo[p - 1]
    BY <1>1, <1>3
<1>5. twoTo[p - 1] =< twoTo[p] - 1 /\ twoTo[p] - 1 < twoTo[p] /\ twoTo[p] - 1 \in Nat
    BY <1>2, <1>4
<1> HIDE DEF u
<1>6. \A x, y, z \in Nat : (x =< y => x * z =< y * z) /\ (x < y /\ z > 0 => x * z < y * z)
    OBVIOUS
<1>7. twoTo[p - 1] * u =< L /\ L < twoTo[p] * u /\ L \in Nat
    BY <1>2, <1>5, <1>6
<1>8. twoTo[p + s] = twoTo[p] * u /\ twoTo[(p - 1) + s] = twoTo[p - 1] * u
    BY <1>1, TwoToSum DEF u
<1>9. p + s - 1 = (p - 1) + s
    OBVIOUS
<1>10. IsScale(s, L, p)
    <2>1. L >= twoTo[p - 1] * u
        BY <1>2, <1>7
    <2> HIDE DEF L
    <2> QED BY <1>7, <1>8, <1>9, <2>1 DEF IsScale
<1>11. Scale(L, p) = s
    BY <1>7, <1>10, ScaleIs
<1>12. Nearest(L, u) = L
    BY <1>2, <1>5, NearestIs
<1>13. Round(L, p) = L
    BY <1>11, <1>12 DEF Round, u
<1> QED BY <1>7, <1>13 DEF u

\* What is rounded to more than the largest number of p bits and scale s is at least
\* halfway to the next one, which has p + 1 bits.  So it makes no difference that it was
\* rounded to q bits before.
LEMMA RoundedTwice ==
    ASSUME NEW p \in Nat \ {0}, NEW q \in Nat \ {0}, p =< q, NEW s \in Nat, NEW a \in Nat,
           Round(Round(a, q), p) =< (twoTo[p] - 1) * twoTo[s]
    PROVE  Round(a, p) =< (twoTo[p] - 1) * twoTo[s]
<1> DEFINE u == twoTo[s]
           L == (twoTo[p] - 1) * u
<1>1. L \in Nat /\ Round(L, p) = L /\ twoTo[p - 1] * u =< L /\ L < twoTo[p] * u
    BY LargestStays
<1>2. p \in Nat /\ p - 1 \in Nat /\ u \in Nat /\ u > 0 /\ twoTo[p] \in Nat /\ twoTo[p] > 0
    BY TwoToPositive
<1>3. \A x \in Nat : Round(x, p) \in Nat /\ Round(x, q) \in Nat
    BY RoundIs
<1>4. \A x, y \in Nat : x =< y => Round(x, p) =< Round(y, p) /\ Round(x, q) =< Round(y, q)
    BY RoundGrows
<1> HIDE DEF u, L
<1>5. CASE p = q
    <2>1. Round(Round(a, p), p) = Round(a, p)
        BY RoundAgain
    <2> QED BY <1>5, <2>1
<1>6. CASE a =< L
    BY <1>1, <1>4, <1>6 DEF L, u
\* t is the least number that is rounded to more.
<1>7. ASSUME NEW t \in Nat, t =< a, Round(t, q) = t, L < Round(t, p)
      PROVE  FALSE
    <2>1. t =< Round(a, q)
        BY <1>4, <1>7
    <2>2. Round(t, p) =< Round(Round(a, q), p)
        BY <1>3, <1>4, <1>7, <2>1
    <2>3. Round(Round(a, q), p) =< L
        BY DEF L, u
    <2> QED BY <1>1, <1>3, <1>7, <2>2, <2>3
<1>8. CASE L < a /\ p < q /\ s = 0
    <2>1. u = 1 /\ L = twoTo[p] - 1
        BY <1>2, <1>8, TwoToIs DEF u, L
    <2>2. twoTo[p] =< a
        BY <1>2, <1>8, <2>1
    <2>3. Round(twoTo[p], p) = twoTo[p] /\ Round(twoTo[p], q) = twoTo[p]
        <3>1. twoTo[1] = 2 * twoTo[0] /\ twoTo[0] = 1
            <4>1. twoTo[0 + 1] = 2 * twoTo[0] /\ twoTo[0] = 1
                BY TwoToIs
            <4>2. 0 + 1 = 1
                OBVIOUS
            <4> QED BY <4>1, <4>2
        <3>2. (twoTo[1] - 1) * twoTo[p] = twoTo[p]
            BY <1>2, <3>1
        <3>3. 1 \in Nat \ {0} /\ 1 =< p /\ 1 =< q
            BY <1>8
        <3>4. Round(twoTo[p], 1) = twoTo[p]
            BY <1>2, <3>2, <3>3, LargestStays
        <3> QED BY <1>2, <3>3, <3>4, MoreBits
    <2>4. L < Round(twoTo[p], p)
        BY <1>2, <2>1, <2>3
    <2> QED BY <1>2, <1>7, <2>2, <2>3, <2>4
<1>9. CASE L < a /\ p < q /\ s # 0
    <2> DEFINE v == twoTo[s - 1]
               t == (twoTo[p + 1] - 1) * v
    <2>1. s - 1 \in Nat /\ (s - 1) + 1 = s /\ p + 1 \in Nat \ {0} /\ p + 1 =< q
        BY <1>9
    <2>2. v \in Nat /\ v > 0 /\ twoTo[(s - 1) + 1] = 2 * v
        BY <2>1, TwoToPositive, TwoToIs
    <2>3. u = 2 * v
        BY <2>1, <2>2 DEF u
    <2>4. twoTo[p + 1] = 2 * twoTo[p]
        BY <1>2, TwoToIs
    <2> HIDE DEF v
    <2>5. t = L + v
        <3>1. \A x, y \in Nat : x > 0 => (2 * x - 1) * y = (x - 1) * (2 * y) + y
            OBVIOUS
        <3> QED BY <1>2, <2>2, <2>3, <2>4, <3>1 DEF L
    <2>6. t \in Nat /\ Round(t, p + 1) = t
        BY <2>1, LargestStays DEF v
    <2>7. Round(t, q) = t
        BY <2>1, <2>6, MoreBits
    <2> HIDE DEF t
    <2>8. twoTo[p + s] = twoTo[p] * u /\ twoTo[(p - 1) + s] = twoTo[p - 1] * u /\ p + s - 1 = (p - 1) + s
        BY <1>2, TwoToSum DEF u
    <2>9. L + u = twoTo[p] * u
        <3>1. \A x, y \in Nat : x > 0 => (x - 1) * y + y = x * y
            OBVIOUS
        <3> QED BY <1>2, <3>1 DEF L
    \* Between L and t, or t itself, numbers have the scale s.
    <2>10. ASSUME NEW r \in Nat, r < u
           PROVE  /\ Round(L + r, p) = Nearest(L + r, u)
                  /\ (L + r) \div u = twoTo[p] - 1 /\ (L + r) % u = r
        <3>1. L + r \in Nat /\ L + r < twoTo[p] * u
            BY <1>1, <1>2, <2>9, <2>10
        <3>2. twoTo[p - 1] \in Nat
            BY <1>2, TwoToPositive
        <3>3. L + r >= twoTo[p - 1] * u
            <4>1. twoTo[p - 1] * u \in Nat
                BY <1>2, <3>2
            <4> QED BY <1>1, <4>1
        <3>4. IsScale(s, L + r, p)
            BY <2>8, <3>1, <3>3 DEF IsScale
        <3>5. Scale(L + r, p) = s
            BY <3>1, <3>4, ScaleIs
        <3>6. \A k, j, w \in Nat : w > 0 /\ j < w => (k * w + j) \div w = k
            OBVIOUS
        <3>7. \A k, j, w \in Nat : w > 0 /\ j < w => (k * w + j) % w = j
            OBVIOUS
        <3>8. twoTo[p] - 1 \in Nat
            BY <1>2
        <3> QED BY <1>2, <2>10, <3>5, <3>6, <3>7, <3>8 DEF Round, L, u
    <2>11. CASE a < t
        <3>1. a - L \in Nat /\ a - L < v /\ a - L < u /\ L + (a - L) = a /\ 2 * (a - L) < u
            BY <1>1, <1>9, <2>2, <2>3, <2>5, <2>11
        <3>2. Round(a, p) = Nearest(a, u) /\ a \div u = twoTo[p] - 1 /\ a % u = a - L
            BY <2>10, <3>1
        <3>3. ~(2 * (a - L) > u) /\ 2 * (a - L) # u
            BY <1>2, <3>1
        <3>4. Nearest(a, u) = (a \div u) * u
            BY <3>2, <3>3 DEF Nearest
        <3>5. Round(a, p) = L
            BY <3>2, <3>4 DEF L
        <3> QED BY <1>1, <3>5 DEF L, u
    <2>12. CASE t =< a
        <3>1. v < u /\ 2 * v = u
            BY <2>2, <2>3
        <3>2. Round(t, p) = Nearest(t, u) /\ t \div u = twoTo[p] - 1 /\ t % u = v
            BY <2>2, <2>5, <2>10, <3>1
        <3>3. (twoTo[p] - 1) % 2 = 1
            <4>1. twoTo[(p - 1) + 1] = 2 * twoTo[p - 1] /\ (p - 1) + 1 = p
                BY <1>2, TwoToIs
            <4>2. twoTo[p - 1] \in Nat /\ twoTo[p - 1] > 0
                BY <1>2, TwoToPositive
            <4>3. \A x \in Nat : x > 0 => (2 * x - 1) % 2 = 1
                OBVIOUS
            <4> QED BY <4>1, <4>2, <4>3
        <3>4. Nearest(t, u) = ((twoTo[p] - 1) + 1) * u
            BY <3>1, <3>2, <3>3 DEF Nearest
        <3>5. (twoTo[p] - 1) + 1 = twoTo[p]
            BY <1>2
        <3>6. L < Round(t, p)
            BY <1>1, <3>2, <3>4, <3>5
        <3> QED BY <1>7, <2>6, <2>7, <2>12, <3>6
    <2> QED BY <2>6, <2>11, <2>12
<1> QED BY <1>1, <1>5, <1>6, <1>8, <1>9

\* Rounding loses less than half.
LEMMA RoundHalves ==
    ASSUME NEW p \in Nat \ {0}, NEW a \in Nat
    PROVE  a =< 2 * Round(a, p)
<1> DEFINE e == Scale(a, p)
           u == twoTo[e]
<1>1. /\ e \in Nat /\ u \in Nat /\ u > 0
      /\ a < twoTo[p] * u /\ (e # 0 => twoTo[p - 1] * u =< a)
      /\ Round(a, p) \in Nat /\ Round(a, p) = Nearest(a, u)
    BY RoundIs
<1>2. PICK k \in Nat : /\ Nearest(a, u) = k * u
                       /\ \A m \in Nat : m * u =< a => m =< k
    BY <1>1, NearestIs
<1>3. CASE e = 0
    <2>1. u = 1
        BY <1>3, TwoToIs
    <2>2. \A m \in Nat : m * 1 = m
        OBVIOUS
    <2>3. a =< k
        BY <1>2, <2>1, <2>2
    <2> HIDE DEF u
    <2> QED BY <1>1, <1>2, <2>1, <2>2, <2>3
<1>4. CASE e # 0
    <2>1. p - 1 \in Nat /\ (p - 1) + 1 = p
        OBVIOUS
    <2>2. twoTo[p - 1] \in Nat /\ twoTo[(p - 1) + 1] = 2 * twoTo[p - 1]
        BY <2>1, TwoToPositive, TwoToIs
    <2> DEFINE x == twoTo[p - 1]
    <2>3. x \in Nat /\ twoTo[p] = 2 * x
        BY <2>1, <2>2
    <2> HIDE DEF x, u
    <2>4. x =< k
        BY <1>1, <1>2, <1>4, <2>3 DEF x
    <2>5. \A y, z \in Nat : y =< z => y * u =< z * u
        BY <1>1
    <2>6. x * u =< k * u /\ a < (2 * x) * u
        BY <1>1, <2>3, <2>4, <2>5
    <2>7. (2 * x) * u = 2 * (x * u) /\ x * u \in Nat /\ k * u \in Nat
        BY <1>1, <2>3
    <2> QED BY <1>1, <1>2, <2>6, <2>7
<1> QED BY <1>3, <1>4

\* A number that is rounded to q bits and then to p is what it is when it is rounded to p
\* at once, unless the number of q bits is just in the middle between two of p bits.
LEMMA RoundedOnTheWay ==
    ASSUME NEW p \in Nat \ {0}, NEW q \in Nat \ {0}, p =< q, NEW a \in Nat
    PROVE  LET m == Round(a, q)
               unit == twoTo[Scale(m, p)]
           IN  Round(m, p) = Round(a, p) \/ 2 * (m % unit) = unit
<1> DEFINE d == Scale(a, p)
           u == twoTo[d]
           f == Round(a, p)
           m == Round(a, q)
<1>1. /\ d \in Nat /\ u \in Nat /\ u > 0 /\ a < twoTo[p] * u /\ (d # 0 => twoTo[p - 1] * u =< a)
      /\ f \in Nat /\ f = Nearest(a, u)
    BY RoundIs
<1>2. m \in Nat
    BY RoundIs
<1>3. Round(f, p) = f /\ Round(f, q) = f
    <2>1. Round(f, p) = f
        BY RoundAgain
    <2> QED BY <1>1, <2>1, MoreBits
<1>4. CASE p = q
    BY <1>3, <1>4
<1>5. CASE d = 0
    <2>1. u = 1
        BY <1>5, TwoToIs
    <2>2. Nearest(a * 1, 1) = a * 1 /\ a * 1 = a
        <3>1. 1 \in Nat /\ 1 > 0
            OBVIOUS
        <3>2. \A k \in Nat : Nearest(k * 1, 1) = k * 1
            BY <3>1, NearestIs
        <3> QED BY <3>2
    <2>3. f = a
        BY <1>1, <2>1, <2>2
    <2> QED BY <1>3, <2>3
<1>6. CASE p < q /\ d # 0
    <2> DEFINE v == twoTo[d - 1]
               k == a \div u
               r == a % u
               c == k * u + v
    <2>1. p \in Nat /\ p - 1 \in Nat /\ d - 1 \in Nat /\ (d - 1) + 1 = d
        BY <1>1, <1>6
    <2>2. /\ v \in Nat /\ v > 0 /\ twoTo[p] \in Nat /\ twoTo[p - 1] \in Nat
          /\ twoTo[(d - 1) + 1] = 2 * v
        BY <2>1, TwoToPositive, TwoToIs
    <2>3. u = 2 * v
        BY <2>1, <2>2
    <2>4. k \in Nat /\ r \in 0 .. u - 1 /\ a = u * k + r
        <3> HIDE DEF u
        <3> QED BY <1>1
    <2>5. f = IF 2 * r > u \/ (2 * r = u /\ k % 2 = 1) THEN (k + 1) * u ELSE k * u
        BY <1>1 DEF Nearest
    <2> HIDE DEF d, u, f, m, v, k, r
    <2>6. k * u =< a /\ a < (k + 1) * u /\ u * k = k * u /\ (k + 1) * u = k * u + u /\ k * u \in Nat
        <3>1. u * k = k * u /\ (k + 1) * u = k * u + u /\ k * u \in Nat
            BY <1>1, <2>4
        <3> QED BY <1>1, <2>4, <3>1
    <2>7. \A x, y \in Nat : x * u < y * u => x < y
        BY <1>1
    <2>8. \A x, y \in Nat : x =< y => x * u =< y * u
        BY <1>1
    <2>9. twoTo[p - 1] =< k /\ k < twoTo[p]
        <3>1. twoTo[p - 1] * u \in Nat /\ twoTo[p] * u \in Nat /\ (k + 1) * u \in Nat /\ k + 1 \in Nat
            BY <1>1, <2>2, <2>4
        <3>2. twoTo[p - 1] * u < (k + 1) * u /\ k * u < twoTo[p] * u
            BY <1>1, <1>6, <2>6, <3>1
        <3>3. twoTo[p - 1] < k + 1 /\ k < twoTo[p]
            BY <2>2, <2>4, <2>7, <3>1, <3>2
        <3> QED BY <2>2, <2>4, <3>3
    <2>10. twoTo[p - 1] * u =< k * u /\ (k + 1) * u =< twoTo[p] * u
        <3>1. k + 1 =< twoTo[p] /\ k + 1 \in Nat
            BY <2>2, <2>4, <2>9
        <3> QED BY <2>2, <2>4, <2>8, <2>9, <3>1
    <2>11. twoTo[p + d] = twoTo[p] * u /\ twoTo[p + d - 1] = twoTo[p - 1] * u
        <3>1. p + d - 1 = (p - 1) + d
            BY <1>1, <2>1
        <3> QED BY <1>1, <2>1, <3>1, TwoToSum DEF u
    <2>12. twoTo[p] * u \in Nat /\ twoTo[p - 1] * u \in Nat /\ (k + 1) * u \in Nat
        BY <1>1, <2>2, <2>6
    <2>13. \A x, y, z \in Nat : (x < y /\ y =< z => x < z) /\ (z =< y /\ y =< x => x >= z)
        OBVIOUS
    \* Between these two neighbours, numbers have the scale of a.
    <2>14. ASSUME NEW x \in Nat, k * u =< x, x < (k + 1) * u
           PROVE  /\ Scale(x, p) = d
                  /\ x % u = x - k * u /\ x - k * u \in Nat
                  /\ Round(x, p) = IF 2 * (x - k * u) > u \/ (2 * (x - k * u) = u /\ k % 2 = 1)
                                   THEN (k + 1) * u ELSE k * u
        <3>1. x < twoTo[p] * u /\ x >= twoTo[p - 1] * u
            BY <2>6, <2>10, <2>12, <2>14, <2>13
        <3>2. IsScale(d, x, p)
            BY <1>1, <2>11, <3>1 DEF IsScale
        <3>3. Scale(x, p) = d
            BY <3>2, ScaleIs
        <3> DEFINE y == x - k * u
        <3>4. y \in 0 .. u - 1 /\ x = k * u + y
            BY <1>1, <2>6, <2>14
        <3> HIDE DEF y
        <3>5. x \div u = k /\ x % u = y
            <4>1. \A i, j \in Nat : j \in 0 .. u - 1 => (i * u + j) % u = j /\ (i * u + j) \div u = i
                BY <1>1
            <4>2. y \in Nat
                BY <1>1, <3>4
            <4> QED BY <2>4, <3>4, <4>1, <4>2
        <3>6. Nearest(x, u) = IF 2 * y > u \/ (2 * y = u /\ k % 2 = 1) THEN (k + 1) * u ELSE k * u
            BY <3>5 DEF Nearest
        <3>7. Round(x, p) = Nearest(x, u)
            BY <3>3 DEF Round, u
        <3> QED BY <1>1, <3>3, <3>4, <3>5, <3>6, <3>7 DEF y
    \* The middle between them has one bit more.
    <2>15. c \in Nat /\ k * u =< c /\ c < (k + 1) * u /\ c - k * u = v
        BY <2>2, <2>3, <2>6
    <2>16. Round(c, q) = c
        <3>1. p + 1 \in Nat \ {0} /\ p + 1 =< q /\ (p + 1) + (d - 1) = p + d /\ (p + 1) + (d - 1) - 1 = p + d - 1
            BY <1>1, <1>6, <2>1
        <3>2. c < twoTo[p + d] /\ c >= twoTo[p + d - 1]
            BY <2>6, <2>10, <2>11, <2>12, <2>15, <2>13
        <3>3. IsScale(d - 1, c, p + 1)
            <4> HIDE DEF c
            <4> QED BY <2>1, <3>1, <3>2 DEF IsScale
        <3>4. Scale(c, p + 1) = d - 1
            BY <2>15, <3>1, <3>3, ScaleIs
        <3>5. c = (2 * k + 1) * v /\ 2 * k + 1 \in Nat
            <4>1. (2 * k + 1) * v = k * (2 * v) + v
                BY <2>2, <2>4
            <4> QED BY <2>3, <2>4, <4>1
        <3>6. Nearest((2 * k + 1) * v, v) = (2 * k + 1) * v
            BY <2>2, <3>5, NearestIs
        <3>7. Round(c, p + 1) = c
            BY <3>4, <3>5, <3>6 DEF Round, v
        <3> HIDE DEF c
        <3> QED BY <2>15, <3>1, <3>7, MoreBits
    <2> HIDE DEF c
    <2>17. CASE m = c
        <3>1. Scale(c, p) = d /\ c % u = v
            BY <2>14, <2>15
        <3> QED BY <2>3, <2>17, <3>1 DEF u, m
    <2>18. CASE 2 * r < u
        <3>1. f = k * u
            BY <1>1, <2>4, <2>5, <2>18
        <3>2. f =< a /\ a =< c
            BY <1>1, <2>2, <2>3, <2>4, <2>6, <2>15, <2>18, <3>1
        <3>3. Round(f, q) =< m /\ m =< Round(c, q)
            BY <1>1, <2>15, <3>2, RoundGrows DEF m
        <3>4. k * u =< m /\ m =< c
            BY <1>3, <2>16, <3>1, <3>3 DEF f
        <3>5. ASSUME m # c PROVE Round(m, p) = k * u
            <4>1. m \in Nat
                BY <1>2 DEF m
            <4>2. m < c /\ m < (k + 1) * u
                <5>1. \A x, y, z \in Nat : x =< y /\ x # y /\ y < z => x < y /\ x < z
                    OBVIOUS
                <5> QED BY <2>12, <2>15, <3>4, <3>5, <4>1, <5>1
            <4>3. m - k * u \in Nat /\ 2 * (m - k * u) < u
                BY <2>2, <2>3, <2>6, <2>15, <3>4, <4>1, <4>2
            <4>4. Round(m, p) = IF 2 * (m - k * u) > u \/ (2 * (m - k * u) = u /\ k % 2 = 1)
                                THEN (k + 1) * u ELSE k * u
                BY <2>14, <3>4, <4>1, <4>2
            <4> DEFINE y == m - k * u
            <4> HIDE DEF y
            <4>5. y \in Nat /\ 2 * y < u
                BY <4>3 DEF y
            <4>6. ~(2 * y > u) /\ 2 * y # u
                BY <1>1, <4>5
            <4> QED BY <4>4, <4>6 DEF y
        <3> QED BY <2>17, <3>1, <3>5 DEF f, m
    <2>19. CASE 2 * r = u
        <3>1. a = c
            BY <2>2, <2>3, <2>4, <2>6, <2>15, <2>19
        <3> QED BY <2>16, <2>17, <3>1 DEF m
    <2>20. CASE 2 * r > u
        <3>1. f = (k + 1) * u
            BY <2>5, <2>20
        <3>2. c =< a /\ a =< f
            BY <1>1, <2>2, <2>3, <2>4, <2>6, <2>15, <2>20, <3>1
        <3>3. Round(c, q) =< m /\ m =< Round(f, q)
            BY <1>1, <2>15, <3>2, RoundGrows DEF m
        <3>4. c =< m /\ m =< (k + 1) * u
            BY <1>3, <2>16, <3>1, <3>3 DEF f
        <3>5. CASE m = f
            BY <1>3, <3>5 DEF f, m
        <3>6. CASE m # c /\ m # f
            <4>1. m \in Nat
                BY <1>2 DEF m
            <4>2. c < m /\ m < (k + 1) * u /\ k * u =< m
                BY <2>6, <2>15, <3>1, <3>4, <3>6, <4>1
            <4>3. 2 * (m - k * u) > u
                BY <2>2, <2>3, <2>6, <2>15, <4>1, <4>2
            <4>4. Round(m, p) = (k + 1) * u
                BY <2>14, <4>1, <4>2, <4>3
            <4> QED BY <3>1, <4>4 DEF f, m
        <3> QED BY <2>17, <3>5, <3>6
    <2>21. 2 * r < u \/ 2 * r = u \/ 2 * r > u
        BY <1>1, <2>4
    <2> QED BY <2>18, <2>19, <2>20, <2>21
<1> QED BY <1>1, <1>4, <1>5, <1>6
=============================================================================
