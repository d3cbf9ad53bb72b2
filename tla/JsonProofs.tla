----------------------------- MODULE JsonProofs -----------------------------
(***************************************************************************)
(* Proofs about Json, for any schemas, widths and texts: whether and how a *)
(* text is accepted does not depend on the order in which Go's map gives   *)
(* its members (OrderIsFree), an error leaves only whole and right fields  *)
(* (WholeFields), and every value fits its field (TypeOK); and about       *)
(* JsonWire: what is sent is received (RoundTrip), and what was decoded    *)
(* can be encoded (CanBeSentOn).                                           *)
(*                                                                         *)
(* The invariant compares each call that has not returned with the meaning *)
(* of its object: the fields it has done hold what they mean, the list in  *)
(* progress holds what the elements before it mean, and each call is for   *)
(* the value that the one before it waits for.  So a member that is wrong  *)
(* in the last call makes every call, and the text, wrong, and a call that *)
(* has nothing left to do has the meaning of its object.                   *)
(*                                                                         *)
(* The meaning recurs on how deeply values nest.  That it exists, and that *)
(* it is the same however deep a text could be, is proved by induction     *)
(* over numbers.                                                           *)
(*                                                                         *)
(* The text of a message has, at the schema's fields, the texts of the     *)
(* messages in it.  That a receiver reads it as what was sent is proved by *)
(* induction over how deeply schemas nest.                                 *)
(***************************************************************************)
EXTENDS JsonWire, DataLemmas

-----------------------------------------------------------------------------
(* Numbers *)

LEMMA LargestIs == ASSUME NEW w \in Width PROVE Largest[w] \in Nat
BY LargestStays, NumbersAssumption DEF Largest

LEMMA RoundedIsFloat ==
    ASSUME NEW w \in Width, NEW h \in Int, IsFinite(Rounded(h, w))
    PROVE  Rounded(h, w) \in FloatOf[w]
<1> DEFINE a == Abs(h)
           n == Round(a, Precision[w])
           s == IF h < 0 THEN -1 ELSE 1
<1>1. a \in Nat
    BY DEF Abs
<1>2. n \in Nat /\ Round(n, Precision[w]) = n
    BY <1>1, RoundAgain, NumbersAssumption
<1>3. Rounded(h, w) = IF n > Largest[w] THEN Inf(s) ELSE Finite(s * n)
    BY DEF Rounded
<1>4. s = -1 \/ s = 1
    OBVIOUS
<1> HIDE DEF a, n, s
<1>5. ~(n > Largest[w]) /\ Largest[w] \in Nat
    <2>1. ~IsFinite(Inf(s))
        BY DEF IsFinite, Inf
    <2>2. Largest[w] \in Nat
        BY LargestIs
    <2> QED BY <1>3, <2>1, <2>2
<1>6. s * n \in -Largest[w]..Largest[w] /\ s * n \in Int
    BY <1>2, <1>4, <1>5
<1>7. Abs(s * n) = n
    BY <1>2, <1>4 DEF Abs
<1>8. (IF s * n < 0 THEN -1 ELSE 1) * n = s * n
    BY <1>2, <1>4
<1>9. Rounded(s * n, w) = Finite(s * n)
    BY <1>2, <1>5, <1>7, <1>8, Zenon DEF Rounded
<1> QED BY <1>3, <1>5, <1>6, <1>9 DEF FloatOf

-----------------------------------------------------------------------------
(* Values *)

\* The values whose elements and members are in V.
Nest(V) == Leaf \cup ({"array"} \X Seq(V)) \cup ({"object"} \X Seq(STRING \X V))

LEMMA JsonValueIs ==
    /\ JsonValue[0] = Leaf
    /\ \A d \in Nat : d + 1 =< Depth => JsonValue[d + 1] = Nest(JsonValue[d])
<1> DEFINE P(f, n) == f = [d \in 0 .. n |-> IF d = 0 THEN Leaf ELSE Nest(f[d - 1])]
<1> DEFINE S == {n \in Nat : \E f : P(f, n)}
<1>1. 0 \in S
    <2>1. P([d \in 0 .. 0 |-> Leaf], 0)
        OBVIOUS
    <2> QED BY <2>1
<1>2. ASSUME NEW n \in Nat, n \in S
      PROVE  n + 1 \in S
    <2>1. PICK f : P(f, n)
        BY <1>2
    <2> DEFINE g == [d \in 0 .. n + 1 |-> IF d = n + 1 THEN Nest(f[n]) ELSE f[d]]
    <2>2. ASSUME NEW d \in 0 .. n + 1
          PROVE  g[d] = IF d = 0 THEN Leaf ELSE Nest(g[d - 1])
        <3>1. CASE d = n + 1
            BY <3>1
        <3>2. CASE d # n + 1
            <4>1. d \in 0 .. n /\ (d # 0 => d - 1 \in 0 .. n)
                BY <3>2
            <4> HIDE DEF P
            <4>2. f[d] = IF d = 0 THEN Leaf ELSE Nest(f[d - 1])
                BY <2>1, <4>1 DEF P
            <4> QED BY <3>2, <4>1, <4>2
        <3> QED BY <3>1, <3>2
    <2>3. P(g, n + 1)
        BY <2>2
    <2> HIDE DEF P, g
    <2> QED BY <2>3
<1> HIDE DEF P, S
<1>3. Depth \in Nat /\ Nat \subseteq S
    BY <1>1, <1>2, NatSetInduction, JsonAssumption
<1>4. \E f : P(f, Depth)
    BY <1>3 DEF S
<1>5. JsonValue = CHOOSE f : P(f, Depth)
    BY DEF P, JsonValue, Nest
<1>6. P(JsonValue, Depth)
    BY <1>4, <1>5, Zenon
<1>7. \A d \in 0 .. Depth : JsonValue[d] = IF d = 0 THEN Leaf ELSE Nest(JsonValue[d - 1])
    BY <1>6, Zenon DEF P
<1>8. \A d \in Nat : d + 1 =< Depth => d + 1 \in 0 .. Depth /\ d + 1 # 0 /\ (d + 1) - 1 = d
    BY <1>3
<1>9. 0 \in 0 .. Depth
    BY <1>3
<1>10. JsonValue[0] = Leaf
    BY <1>7, <1>9
<1>11. ASSUME NEW d \in Nat, d + 1 =< Depth
       PROVE  JsonValue[d + 1] = Nest(JsonValue[d])
    BY <1>7, <1>8, <1>11
<1> QED BY <1>10, <1>11

LEMMA NestGrows ==
    ASSUME NEW V, NEW W, V \subseteq W
    PROVE  Nest(V) \subseteq Nest(W)
<1>1. Seq(V) \subseteq Seq(W)
    BY SeqMonotonic
<1>2. STRING \X V \subseteq STRING \X W
    OBVIOUS
<1>3. Seq(STRING \X V) \subseteq Seq(STRING \X W)
    BY <1>2, SeqMonotonic
<1> QED BY <1>1, <1>3 DEF Nest

\* What is nested less deep is also nested deeper.
LEMMA ValuesGrow ==
    \A d \in Nat : d + 1 =< Depth =>
        /\ JsonValue[d] \subseteq JsonValue[d + 1]
        /\ Members(d) \subseteq Members(d + 1)
<1> DEFINE S == {d \in Nat : d + 1 =< Depth => JsonValue[d] \subseteq JsonValue[d + 1]}
<1>1. 0 \in S
    <2>1. 1 =< Depth => JsonValue[1] = Nest(JsonValue[0])
        BY JsonValueIs
    <2> QED BY <2>1, JsonValueIs DEF Nest
<1>2. ASSUME NEW d \in Nat, d \in S
      PROVE  d + 1 \in S
    <2> SUFFICES ASSUME (d + 1) + 1 =< Depth
                 PROVE  JsonValue[d + 1] \subseteq JsonValue[(d + 1) + 1]
        OBVIOUS
    <2>1. d + 1 \in Nat /\ d + 1 =< Depth
        BY JsonAssumption
    <2>2. JsonValue[d] \subseteq JsonValue[d + 1]
        BY <1>2, <2>1
    <2>3. JsonValue[d + 1] = Nest(JsonValue[d]) /\ JsonValue[(d + 1) + 1] = Nest(JsonValue[d + 1])
        BY <2>1, JsonValueIs
    <2> QED BY <2>2, <2>3, NestGrows
<1> HIDE DEF S
<1>3. \A d \in Nat : d \in S
    BY <1>1, <1>2, NatSetInduction
<1> SUFFICES ASSUME NEW d \in Nat, d + 1 =< Depth
             PROVE  JsonValue[d] \subseteq JsonValue[d + 1] /\ Members(d) \subseteq Members(d + 1)
    OBVIOUS
<1>4. JsonValue[d] \subseteq JsonValue[d + 1]
    BY <1>3 DEF S
<1>5. STRING \X JsonValue[d] \subseteq STRING \X JsonValue[d + 1]
    BY <1>4
<1>6. Members(d) \subseteq Members(d + 1)
    BY <1>5, SeqMonotonic DEF Members
<1> QED BY <1>4, <1>6

\* The members that an object among values nested d deep can have.
Under(d) == IF d = 0 THEN {} ELSE Members(d - 1)

LEMMA ValueIs ==
    ASSUME NEW d \in 0..Depth, NEW v \in JsonValue[d]
    PROVE  /\ IsA("object", v) => v[2] \in Under(d) /\ v[2] \in Members(d)
           /\ IsA("array", v) => v[2] \in Seq(JsonValue[d])
<1>1. \A x \in Leaf : ~IsA("object", x) /\ ~IsA("array", x)
    BY DEF Leaf, Null, IsA
<1>2. CASE d = 0
    BY <1>1, <1>2, JsonValueIs
<1>3. CASE d # 0
    <2>1. d - 1 \in Nat /\ (d - 1) + 1 = d /\ (d - 1) + 1 =< Depth
        BY <1>3, JsonAssumption
    <2>2. JsonValue[d] = Nest(JsonValue[d - 1])
        BY <2>1, JsonValueIs
    <2>3. JsonValue[d - 1] \subseteq JsonValue[d] /\ Members(d - 1) \subseteq Members(d)
        BY <2>1, ValuesGrow
    <2>4. Seq(JsonValue[d - 1]) \subseteq Seq(JsonValue[d])
        BY <2>3, SeqMonotonic
    <2>5. CASE v \in Leaf
        BY <1>1, <2>5
    <2>6. CASE v \in {"array"} \X Seq(JsonValue[d - 1])
        BY <2>4, <2>6 DEF IsA
    <2>7. CASE v \in {"object"} \X Members(d - 1)
        BY <1>3, <2>3, <2>7 DEF IsA, Under
    <2> QED BY <2>2, <2>5, <2>6, <2>7 DEF Nest, Members
<1> QED BY <1>2, <1>3

\* The map of the members holds one of their values for every key.
Held(ms, k) == \E i \in DOMAIN ms : ms[i] = <<k, At(ms, k)>>

LEMMA AtFrom ==
    ASSUME NEW V, NEW ms \in Seq(STRING \X V), NEW k \in Keys(ms)
    PROVE  /\ At(ms, k) \in V
           /\ Held(ms, k)
<1> DEFINE of == {i \in DOMAIN ms : ms[i][1] = k}
<1>1. DOMAIN ms = 1..Len(ms) /\ Len(ms) \in Nat
    BY LenProperties
<1>2. of # {} /\ of \subseteq 1..Len(ms)
    BY <1>1 DEF Keys
<1> HIDE DEF of
<1> DEFINE B == {b \in Nat : \A j \in of : j =< b}
<1>3. Len(ms) \in B
    BY <1>1, <1>2
<1>4. PICK b \in B : \A c \in B : b =< c
    BY <1>3, LeastNat
<1>5. b \in of
    <2> SUFFICES ASSUME b \notin of PROVE FALSE
        OBVIOUS
    <2>1. PICK i \in of : TRUE
        BY <1>2
    <2>2. i \in Nat /\ i =< b /\ i # b /\ i >= 1 /\ b \in Nat
        BY <1>1, <1>2, <1>4, <2>1
    <2>3. b - 1 \in Nat /\ ~(b =< b - 1)
        BY <2>2
    <2>4. \A j \in of : j \in Nat /\ j =< b /\ j # b
        BY <1>1, <1>2, <1>4
    <2>5. \A j \in of : j =< b - 1
        BY <2>2, <2>4
    <2> QED BY <1>4, <2>3, <2>5
<1>6. \E i \in of : \A j \in of : j =< i
    BY <1>4, <1>5
<1> DEFINE i == CHOOSE i \in of : \A j \in of : j =< i
<1>7. i \in of
    BY <1>6
<1>8. At(ms, k) = ms[i][2]
    BY DEF At, of
<1> HIDE DEF i
<1>9. ms[i] \in STRING \X V /\ i \in DOMAIN ms
    BY <1>1, <1>2, <1>7, ElementOfSeq
<1>10. ms[i][1] = k
    BY <1>7 DEF of
<1>11. ms[i] = <<k, At(ms, k)>>
    BY <1>8, <1>9, <1>10
<1> QED BY <1>8, <1>9, <1>11 DEF Held

LEMMA AtIs ==
    ASSUME NEW V, NEW ms \in Seq(STRING \X V), NEW k \in Keys(ms)
    PROVE  At(ms, k) \in V
BY AtFrom

-----------------------------------------------------------------------------
(* The meaning of a text *)

LEMMA LookupIs ==
    ASSUME NEW t \in Type, NEW n \in Names(t)
    PROVE  /\ lookupName(t, n) \in FieldSchema /\ lookupName(t, n).name = n
           /\ lookupName(t, n).type = "message" => lookupName(t, n).schema \in Type
<1> DEFINE j == CHOOSE j \in DOMAIN Fields[t] : Fields[t][j].name = n
<1>1. j \in DOMAIN Fields[t] /\ Fields[t][j].name = n
    BY DEF Names
<1>2. lookupName(t, n) = Fields[t][j]
    BY DEF lookupName
<1> HIDE DEF j
<1>3. Fields[t] \in Seq(FieldSchema)
    BY JsonAssumption
<1>4. Fields[t][j] \in FieldSchema
    BY <1>1, <1>3
<1>5. Fields[t][j].type = "message" => Fields[t][j].schema \in Type
    BY <1>1, JsonAssumption
<1> QED BY <1>1, <1>2, <1>4, <1>5

\* The meanings of the messages in the values of depth d are the same in g and in h.
Agree(g, h, d) == \A t \in Type : \A ms \in Under(d) : g[t][ms] = h[t][ms]

LEMMA SameMeaning ==
    ASSUME NEW d \in 0..Depth, NEW g, NEW h, Agree(g, h, d), NEW t \in Type
    PROVE  /\ \A n \in Names(t), v \in JsonValue[d] :
                 meantField(g, lookupName(t, n), v) = meantField(h, lookupName(t, n), v)
           /\ \A ms \in Members(d) : meantMessage(g, t, ms) = meantMessage(h, t, ms)
<1>1. ASSUME NEW n \in Names(t), NEW v \in JsonValue[d]
      PROVE  meantField(g, lookupName(t, n), v) = meantField(h, lookupName(t, n), v)
    <2> DEFINE f == lookupName(t, n)
    <2>1. f.type = "message" => f.schema \in Type
        BY LookupIs
    <2> HIDE DEF f
    <2>2. ASSUME NEW x \in JsonValue[d]
          PROVE  meantOne(g, f, x) = meantOne(h, f, x)
        <3>1. IsA("object", x) => x[2] \in Under(d)
            BY ValueIs
        <3> QED BY <2>1, <3>1 DEF Agree, meantOne
    <2>3. \A x \in JsonValue[d] : meantElement(g, f, x) = meantElement(h, f, x)
        BY <2>2 DEF meantElement
    <2>4. ASSUME IsA("array", v)
          PROVE  meantList(g, f, v[2]) = meantList(h, f, v[2])
        <3>1. v[2] \in Seq(JsonValue[d])
            BY <2>4, ValueIs
        <3> DEFINE s == v[2]
        <3> HIDE DEF s
        <3>2. \A j \in DOMAIN s : s[j] \in JsonValue[d]
            BY <3>1, LenProperties DEF s
        <3>3. \A j \in DOMAIN s : meantElement(g, f, s[j]) = meantElement(h, f, s[j])
            BY <2>3, <3>2
        <3>4. [j \in DOMAIN s |-> meantElement(g, f, s[j]).v] = [j \in DOMAIN s |-> meantElement(h, f, s[j]).v]
            BY <3>3
        <3> QED BY <3>3, <3>4, Zenon DEF meantList, s
    <2>5. meantField(g, f, v) = meantField(h, f, v)
        BY <2>2, <2>4, Zenon DEF meantField
    <2> QED BY <2>5 DEF f
<1>2. ASSUME NEW ms \in Members(d)
      PROVE  meantMessage(g, t, ms) = meantMessage(h, t, ms)
    <2> DEFINE F(k, n) == meantField(k, lookupName(t, n), At(ms, n))
    <2>1. ASSUME NEW n \in present(t, ms)
          PROVE  F(g, n) = F(h, n)
        <3>1. n \in Keys(ms) /\ n \in Names(t)
            BY DEF present
        <3>2. At(ms, n) \in JsonValue[d]
            BY <3>1, AtIs DEF Members
        <3> QED BY <1>1, <3>1, <3>2
    <2>2. \A k : meantMessage(k, t, ms) = When(\A n \in present(t, ms) : F(k, n).ok,
                                               [n \in present(t, ms) |-> F(k, n).v])
        BY DEF meantMessage
    <2> HIDE DEF F
    <2>3. [n \in present(t, ms) |-> F(g, n).v] = [n \in present(t, ms) |-> F(h, n).v]
        BY <2>1
    <2>4. (\A n \in present(t, ms) : F(g, n).ok) <=> (\A n \in present(t, ms) : F(h, n).ok)
        BY <2>1
    <2> QED BY <2>2, <2>3, <2>4, Zenon DEF When
<1> QED BY <1>1, <1>2

\* The meanings at depth d, from a function g that has those less deep.
Level(g, d) == [t \in Type |-> [members \in Members(d) |->
                   meantMessage(IF d = 0 THEN <<>> ELSE g[d - 1], t, members)]]

LEMMA MeaningIs ==
    \A d \in 0..Depth : meaning[d] = Level(meaning, d)
<1> DEFINE P(f, n) == f = [d \in 0 .. n |-> Level(f, d)]
<1> DEFINE S == {n \in Nat : \E f : P(f, n)}
<1>1. 0 \in S
    <2>1. \A f, g : Level(f, 0) = Level(g, 0)
        BY DEF Level
    <2>2. P([d \in 0 .. 0 |-> Level(<<>>, 0)], 0)
        <3> DEFINE f == [d \in 0 .. 0 |-> Level(<<>>, 0)]
        <3>1. \A d \in 0 .. 0 : Level(<<>>, 0) = Level(f, d)
            BY <2>1
        <3> QED BY <3>1
    <2> HIDE DEF P
    <2> QED BY <2>2
<1>2. ASSUME NEW n \in Nat, n \in S
      PROVE  n + 1 \in S
    <2>1. PICK f : P(f, n)
        BY <1>2
    <2> DEFINE g == [d \in 0 .. n + 1 |-> IF d = n + 1 THEN Level(f, n + 1) ELSE f[d]]
    <2>2. ASSUME NEW d \in 0 .. n + 1
          PROVE  g[d] = Level(g, d)
        <3>1. d # 0 => d - 1 \in 0 .. n + 1 /\ d - 1 # n + 1
            OBVIOUS
        <3>2. Level(g, d) = Level(f, d)
            BY <3>1 DEF Level
        <3>3. CASE d = n + 1
            BY <3>2, <3>3
        <3>4. CASE d # n + 1
            <4>1. d \in 0 .. n
                BY <3>4
            <4> HIDE DEF P
            <4>2. f[d] = Level(f, d)
                BY <2>1, <4>1 DEF P
            <4> QED BY <3>2, <3>4, <4>2
        <3> QED BY <3>3, <3>4
    <2>3. P(g, n + 1)
        BY <2>2
    <2> HIDE DEF P, g
    <2> QED BY <2>3
<1> HIDE DEF P, S
<1>3. Depth \in Nat /\ Nat \subseteq S
    BY <1>1, <1>2, NatSetInduction, JsonAssumption
<1>4. \E f : P(f, Depth)
    BY <1>3 DEF S
<1>5. meaning = CHOOSE f : P(f, Depth)
    BY DEF P, meaning, Level
<1>6. P(meaning, Depth)
    BY <1>4, <1>5, Zenon
<1> QED BY <1>6, Zenon DEF P

LEMMA MeaningAt ==
    ASSUME NEW d \in 0..Depth, NEW t \in Type, NEW ms \in Members(d)
    PROVE  meaning[d][t][ms] = meantMessage(IF d = 0 THEN <<>> ELSE meaning[d - 1], t, ms)
<1>1. meaning[d] = Level(meaning, d)
    BY MeaningIs
<1> DEFINE F(u, x) == meantMessage(IF d = 0 THEN <<>> ELSE meaning[d - 1], u, x)
<1>2. Level(meaning, d) = [u \in Type |-> [x \in Members(d) |-> F(u, x)]]
    BY Zenon DEF Level
<1> HIDE DEF F
<1>3. Level(meaning, d)[t][ms] = F(t, ms)
    BY <1>2
<1> QED BY <1>1, <1>3 DEF F

\* The meaning of a text does not depend on how deep it could be.
LEMMA MeaningStays ==
    \A d \in Nat : d + 1 =< Depth =>
        \A t \in Type : \A ms \in Members(d) : meaning[d + 1][t][ms] = meaning[d][t][ms]
<1> DEFINE S == {d \in Nat : d + 1 =< Depth => Agree(meaning[d + 1], meaning[d], d + 1)}
<1>1. \A d \in Nat : d + 1 # 0 /\ (d + 1) - 1 = d /\ Under(d + 1) = Members(d)
    BY DEF Under
<1>2. ASSUME NEW d \in Nat, d + 1 =< Depth, NEW t \in Type, NEW ms \in Members(d),
             d # 0 => Agree(meaning[d], meaning[d - 1], d)
      PROVE  meaning[d + 1][t][ms] = meaning[d][t][ms]
    <2>1. d \in 0..Depth /\ d + 1 \in 0..Depth
        BY <1>2, JsonAssumption
    <2>2. ms \in Members(d + 1)
        BY <1>2, ValuesGrow
    <2>3. meaning[d + 1][t][ms] = meantMessage(meaning[d], t, ms)
        <3>1. d + 1 # 0 /\ (d + 1) - 1 = d
            BY <1>1
        <3>2. meaning[d + 1][t][ms]
                  = meantMessage(IF d + 1 = 0 THEN <<>> ELSE meaning[(d + 1) - 1], t, ms)
            BY <2>1, <2>2, MeaningAt
        <3> QED BY <3>1, <3>2
    <2>4. meaning[d][t][ms] = meantMessage(IF d = 0 THEN <<>> ELSE meaning[d - 1], t, ms)
        BY <2>1, MeaningAt
    <2>5. Agree(meaning[d], IF d = 0 THEN <<>> ELSE meaning[d - 1], d)
        BY <1>2 DEF Agree, Under
    <2>6. meantMessage(meaning[d], t, ms)
              = meantMessage(IF d = 0 THEN <<>> ELSE meaning[d - 1], t, ms)
        BY <2>1, <2>5, SameMeaning
    <2> QED BY <2>3, <2>4, <2>6
<1>3. 0 \in S
    BY <1>1, <1>2 DEF Agree
<1>4. ASSUME NEW d \in Nat, d \in S
      PROVE  d + 1 \in S
    <2> SUFFICES ASSUME (d + 1) + 1 =< Depth
                 PROVE  Agree(meaning[(d + 1) + 1], meaning[d + 1], (d + 1) + 1)
        OBVIOUS
    <2>1. d + 1 \in Nat /\ d + 1 =< Depth
        BY JsonAssumption
    <2>2. Agree(meaning[d + 1], meaning[(d + 1) - 1], d + 1)
        BY <1>1, <1>4, <2>1
    <2> HIDE DEF S
    <2> QED BY <1>1, <1>2, <2>1, <2>2 DEF Agree
<1> HIDE DEF S
<1>5. \A d \in Nat : d \in S
    BY <1>3, <1>4, NatSetInduction
<1> QED BY <1>1, <1>5 DEF S, Agree

\* So Reading is the meaning, for it gives every message inside a text its meaning too.
LEMMA ReadingIs ==
    \A t \in Type : \A ms \in Members(Depth) : Reading[t][ms] = meantMessage(Reading, t, ms)
<1> SUFFICES ASSUME NEW t \in Type, NEW ms \in Members(Depth)
             PROVE  Reading[t][ms] = meantMessage(Reading, t, ms)
    OBVIOUS
<1>1. Depth \in Nat /\ Depth \in 0..Depth
    BY JsonAssumption
<1> DEFINE g == IF Depth = 0 THEN <<>> ELSE meaning[Depth - 1]
<1>2. Reading[t][ms] = meantMessage(g, t, ms)
    BY <1>1, MeaningAt DEF Reading
<1>3. Agree(g, Reading, Depth)
    <2>1. CASE Depth = 0
        BY <2>1 DEF Agree, Under
    <2>2. CASE Depth # 0
        <3>1. Depth - 1 \in Nat /\ (Depth - 1) + 1 = Depth /\ (Depth - 1) + 1 =< Depth
            BY <1>1, <2>2
        <3>2. \A u \in Type : \A x \in Members(Depth - 1) : meaning[Depth][u][x] = meaning[Depth - 1][u][x]
            BY <3>1, MeaningStays
        <3> QED BY <2>2, <3>2 DEF Agree, Under, Reading
    <2> QED BY <2>1, <2>2
<1> QED BY <1>1, <1>2, <1>3, SameMeaning

LEMMA WhenIs ==
    ASSUME NEW c, NEW v
    PROVE  /\ When(c, v).ok <=> c
           /\ c => When(c, v).v = v
BY DEF When, Value, Malformed

LEMMA TextLeaf ==
    ASSUME NEW v \in JsonValue[Depth]
    PROVE  /\ IsA("number", v) => v[2] \in [h : Int, minus : BOOLEAN, digits : BOOLEAN]
           /\ IsA("bool", v) => v[2] \in BOOLEAN
           /\ IsA("string", v) => v[2] \in Str
<1>1. v \in Leaf => /\ IsA("number", v) => v[2] \in [h : Int, minus : BOOLEAN, digits : BOOLEAN]
                    /\ IsA("bool", v) => v[2] \in BOOLEAN
                    /\ IsA("string", v) => v[2] \in Str
    BY DEF Leaf, Null, IsA
<1>2. v \in Nest(JsonValue[Depth - 1]) /\ v \notin Leaf => v[1] = "array" \/ v[1] = "object"
    BY DEF Nest
<1>3. v \in Leaf \/ v \in Nest(JsonValue[Depth - 1])
    <2>1. CASE Depth = 0
        BY <2>1, JsonValueIs
    <2>2. CASE Depth # 0
        <3>1. Depth - 1 \in Nat /\ (Depth - 1) + 1 = Depth /\ (Depth - 1) + 1 =< Depth
            BY <2>2, JsonAssumption
        <3> QED BY <3>1, JsonValueIs
    <2> QED BY <2>1, <2>2
<1> QED BY <1>1, <1>2, <1>3 DEF IsA

LEMMA ScalarFits ==
    ASSUME NEW f \in FieldSchema, f.type # "message", NEW v \in JsonValue[Depth],
           decodeJSONScalar(f.type, v).ok
    PROVE  FitsOne(f, decodeJSONScalar(f.type, v).v)
<1> DEFINE r == decodeJSONScalar(f.type, v)
<1>1. f.type \in FieldType
    BY DEF FieldSchema
<1>2. ~Malformed.ok
    BY DEF Malformed
<1>3. /\ IsA("number", v) => v[2] \in [h : Int, minus : BOOLEAN, digits : BOOLEAN]
      /\ IsA("bool", v) => v[2] \in BOOLEAN
      /\ IsA("string", v) => v[2] \in Str
    BY TextLeaf
<1>4. \A w \in Width, n \in [h : Int, minus : BOOLEAN, digits : BOOLEAN] :
         /\ ParseInt(n, w).ok => ParseInt(n, w).v \in IntOf(w)
         /\ ParseUint(n, w).ok => ParseUint(n, w).v \in UintOf(w)
         /\ ParseFloat(n, w).ok => ParseFloat(n, w).v \in FloatOf[w] /\ IsFinite(ParseFloat(n, w).v)
    <2> SUFFICES ASSUME NEW w \in Width, NEW n \in [h : Int, minus : BOOLEAN, digits : BOOLEAN]
                 PROVE  /\ ParseInt(n, w).ok => ParseInt(n, w).v \in IntOf(w)
                        /\ ParseUint(n, w).ok => ParseUint(n, w).v \in UintOf(w)
                        /\ ParseFloat(n, w).ok => ParseFloat(n, w).v \in FloatOf[w] /\ IsFinite(ParseFloat(n, w).v)
        OBVIOUS
    <2>1. ParseInt(n, w).ok => ParseInt(n, w).v \in IntOf(w)
        BY WhenIs, Zenon DEF ParseInt
    <2>2. ParseUint(n, w).ok => ParseUint(n, w).v \in UintOf(w)
        BY WhenIs, Zenon DEF ParseUint
    <2>3. ParseFloat(n, w).ok => IsFinite(Rounded(n.h, w)) /\ ParseFloat(n, w).v = Rounded(n.h, w)
        BY WhenIs, Zenon DEF ParseFloat
    <2>4. n.h \in Int
        OBVIOUS
    <2> QED BY <2>1, <2>2, <2>3, <2>4, RoundedIsFloat
<1>5. 32 \in Width /\ 64 \in Width
    BY DEF Width
<1> DEFINE num == v[2]
<1>6. ASSUME NEW p, r = IF IsA("number", v) THEN p ELSE Malformed, r.ok
      PROVE  IsA("number", v) /\ r = p /\ num \in [h : Int, minus : BOOLEAN, digits : BOOLEAN]
    BY <1>2, <1>3, <1>6
<1>7. r.ok
    OBVIOUS
<1> HIDE DEF num
<1>8. CASE f.type = "int32"
    <2>1. r = IF IsA("number", v) THEN ParseInt(num, 32) ELSE Malformed
        BY <1>8 DEF decodeJSONScalar, num
    <2> HIDE DEF r
    <2>2. r.v \in IntOf(32)
        BY <1>4, <1>5, <1>6, <1>7, <2>1
    <2> QED BY <1>8, <2>2 DEF FitsOne, r
<1>9. CASE f.type = "int64"
    <2>1. r = IF IsA("number", v) THEN ParseInt(num, 64) ELSE Malformed
        BY <1>9 DEF decodeJSONScalar, num
    <2> HIDE DEF r
    <2>2. r.v \in IntOf(64)
        BY <1>4, <1>5, <1>6, <1>7, <2>1
    <2> QED BY <1>9, <2>2 DEF FitsOne, r
<1>10. CASE f.type = "uint32"
    <2>1. r = IF IsA("number", v) THEN ParseUint(num, 32) ELSE Malformed
        BY <1>10 DEF decodeJSONScalar, num
    <2> HIDE DEF r
    <2>2. r.v \in UintOf(32)
        BY <1>4, <1>5, <1>6, <1>7, <2>1
    <2> QED BY <1>10, <2>2 DEF FitsOne, r
<1>11. CASE f.type = "uint64"
    <2>1. r = IF IsA("number", v) THEN ParseUint(num, 64) ELSE Malformed
        BY <1>11 DEF decodeJSONScalar, num
    <2> HIDE DEF r
    <2>2. r.v \in UintOf(64)
        BY <1>4, <1>5, <1>6, <1>7, <2>1
    <2> QED BY <1>11, <2>2 DEF FitsOne, r
<1>12. CASE f.type = "float"
    <2>1. r = IF IsA("number", v) THEN ParseFloat(num, 32) ELSE Malformed
        BY <1>12 DEF decodeJSONScalar, num
    <2> HIDE DEF r
    <2>2. r.v \in FloatOf[32] /\ IsFinite(r.v)
        BY <1>4, <1>5, <1>6, <1>7, <2>1
    <2> QED BY <1>12, <2>2 DEF FitsOne, r
<1>13. CASE f.type = "double"
    <2>1. r = IF IsA("number", v) THEN ParseFloat(num, 64) ELSE Malformed
        BY <1>13 DEF decodeJSONScalar, num
    <2> HIDE DEF r
    <2>2. r.v \in FloatOf[64] /\ IsFinite(r.v)
        BY <1>4, <1>5, <1>6, <1>7, <2>1
    <2> QED BY <1>13, <2>2 DEF FitsOne, r
<1>14. CASE f.type = "bool"
    <2>1. r = IF IsA("bool", v) THEN Value(v[2]) ELSE Malformed
        BY <1>14 DEF decodeJSONScalar
    <2> HIDE DEF r
    <2>2. IsA("bool", v) /\ r.v = v[2]
        BY <1>2, <1>7, <2>1 DEF Value
    <2> QED BY <1>3, <1>14, <2>2 DEF FitsOne, r
<1>15. CASE f.type = "string"
    <2>1. r = IF IsA("string", v) THEN Value(v[2]) ELSE Malformed
        BY <1>15 DEF decodeJSONScalar
    <2> HIDE DEF r
    <2>2. IsA("string", v) /\ r.v = v[2]
        BY <1>2, <1>7, <2>1 DEF Value
    <2> QED BY JsonAssumption, <1>3, <1>15, <2>2 DEF FitsOne, r
<1>16. CASE f.type = "bytes"
    <2>1. r = IF IsA("string", v) /\ v[2] \in DOMAIN FromBase64 THEN Value(FromBase64[v[2]])
              ELSE Malformed
        BY <1>16 DEF decodeJSONScalar
    <2> HIDE DEF r
    <2>2. v[2] \in DOMAIN FromBase64 /\ r.v = FromBase64[v[2]]
        BY <1>2, <1>7, <2>1 DEF Value
    <2> QED BY <1>16, <2>2 DEF FitsOne, r
<1> QED BY <1>1, <1>8, <1>9, <1>10, <1>11, <1>12, <1>13, <1>14, <1>15, <1>16 DEF FieldType

LEMMA MessageIs ==
    ASSUME NEW t \in Type, NEW ms \in Members(Depth)
    PROVE  LET F(n) == meantField(Reading, lookupName(t, n), At(ms, n))
           IN  /\ Reading[t][ms].ok <=> \A n \in present(t, ms) : F(n).ok
               /\ Reading[t][ms].ok => Reading[t][ms].v = [n \in present(t, ms) |-> F(n).v]
<1> DEFINE F(n) == meantField(Reading, lookupName(t, n), At(ms, n))
<1> DEFINE c == \A n \in present(t, ms) : F(n).ok
<1> DEFINE m == [n \in present(t, ms) |-> F(n).v]
<1>1. Reading[t][ms] = When(c, m)
    BY ReadingIs DEF meantMessage
<1> HIDE DEF c, m
<1>2. (Reading[t][ms].ok <=> c) /\ (c => Reading[t][ms].v = m)
    BY <1>1, WhenIs
<1> QED BY <1>2 DEF c, m

LEMMA ElementFits ==
    ASSUME NEW t \in Type, NEW n \in Names(t), NEW v \in JsonValue[Depth]
    PROVE  LET f == lookupName(t, n)
           IN  /\ meantOne(Reading, f, v).ok => FitsOne(f, meantOne(Reading, f, v).v)
               /\ meantElement(Reading, f, v).ok =>
                     \/ f.type = "message" /\ meantElement(Reading, f, v).v = NoMessage
                     \/ FitsOne(f, meantElement(Reading, f, v).v)
<1> DEFINE f == lookupName(t, n)
<1>1. f \in FieldSchema /\ (f.type = "message" => f.schema \in Type)
    BY LookupIs
<1> HIDE DEF f
<1>2. ASSUME meantOne(Reading, f, v).ok
      PROVE  FitsOne(f, meantOne(Reading, f, v).v)
    <2>1. CASE f.type # "message"
        BY <1>1, <1>2, <2>1, ScalarFits DEF meantOne
    <2>2. CASE f.type = "message"
        <3>1. IsA("object", v) /\ meantOne(Reading, f, v) = Reading[f.schema][v[2]]
            BY <1>2, <2>2 DEF meantOne, Malformed
        <3>2. v[2] \in Members(Depth)
            <4>1. Depth \in 0..Depth
                BY JsonAssumption
            <4> QED BY <3>1, <4>1, ValueIs
        <3>3. DOMAIN Reading[f.schema][v[2]].v = present(f.schema, v[2])
            <4> DEFINE u == f.schema
                       ms == v[2]
                       F(k) == meantField(Reading, lookupName(u, k), At(ms, k))
            <4>1. u \in Type /\ ms \in Members(Depth) /\ Reading[u][ms].ok
                BY <1>1, <1>2, <2>2, <3>1, <3>2
            <4> HIDE DEF u, ms
            <4>2. Reading[u][ms].v = [k \in present(u, ms) |-> F(k).v]
                BY <4>1, MessageIs
            <4> HIDE DEF F
            <4>3. DOMAIN Reading[u][ms].v = present(u, ms)
                BY <4>2
            <4> QED BY <4>3 DEF u, ms
        <3>4. DOMAIN meantOne(Reading, f, v).v \subseteq Names(f.schema)
            BY <3>1, <3>3 DEF present
        <3> QED BY <2>2, <3>4 DEF FitsOne
    <2> QED BY <2>1, <2>2
<1>3. meantElement(Reading, f, v).ok =>
          \/ f.type = "message" /\ meantElement(Reading, f, v).v = NoMessage
          \/ FitsOne(f, meantElement(Reading, f, v).v)
    BY <1>2, WhenIs DEF meantElement, Value
<1> QED BY <1>2, <1>3 DEF f

LEMMA FieldFits ==
    ASSUME NEW t \in Type, NEW n \in Names(t), NEW v \in JsonValue[Depth],
           meantField(Reading, lookupName(t, n), v).ok
    PROVE  Fits(lookupName(t, n), meantField(Reading, lookupName(t, n), v).v)
<1> DEFINE f == lookupName(t, n)
<1> DEFINE r == meantField(Reading, f, v)
<1>1. r.ok
    OBVIOUS
<1>2. CASE ~f.repeated
    BY <1>1, <1>2, ElementFits DEF meantField, Fits
<1>3. CASE f.repeated
    <2>1. IsA("array", v) /\ r = meantList(Reading, f, v[2])
        BY <1>1, <1>3 DEF meantField, Malformed
    <2>2. v[2] \in Seq(JsonValue[Depth])
        <3>1. Depth \in 0..Depth
            BY JsonAssumption
        <3> QED BY <2>1, <3>1, ValueIs
    <2> DEFINE s == v[2]
    <2> DEFINE E(j) == meantElement(Reading, f, s[j])
    <2> DEFINE l == [j \in DOMAIN s |-> E(j).v]
    <2>3. r = When(\A j \in DOMAIN s : E(j).ok, l)
        BY <2>1 DEF meantList
    <2>4. (\A j \in DOMAIN s : E(j).ok) /\ r.v = l
        BY <1>1, <2>3, WhenIs, Zenon
    <2> HIDE DEF s, f, r
    <2>5. Len(s) \in Nat /\ DOMAIN s = 1..Len(s) /\ \A j \in DOMAIN s : s[j] \in JsonValue[Depth]
        BY <2>2, LenProperties DEF s
    <2>6. ASSUME NEW j \in DOMAIN s
          PROVE  (f.type = "message" /\ E(j).v = NoMessage) \/ FitsOne(f, E(j).v)
        BY <2>4, <2>5, ElementFits DEF f
    <2>7. IsList(l)
        <3>1. l \in [1..Len(s) -> {E(j).v : j \in DOMAIN s}]
            BY <2>5
        <3>2. l \in Seq({E(j).v : j \in DOMAIN s})
            BY <2>5, <3>1, SeqDef
        <3> HIDE DEF l
        <3> QED BY <3>2, ListIs
    <2>8. \A j \in DOMAIN l : (f.type = "message" /\ l[j] = NoMessage) \/ FitsOne(f, l[j])
        BY <2>6
    <2> HIDE DEF l
    <2> QED BY <1>3, <2>4, <2>7, <2>8 DEF Fits, f, r
<1> QED BY <1>2, <1>3

-----------------------------------------------------------------------------
(* The invariant *)

\* What the member of a field n of frame f means, and the elements of the list it is in.
meant(f, n) == meantField(Reading, lookupName(f.type, n), At(f.members, n))
values(f) == At(f.members, f.field.name)[2]

\* The fields that are decoded: neither to come nor in progress.
Done(f) == present(f.type, f.members)
              \ (f.left \cup (IF f.field = NoField THEN {} ELSE {f.field.name}))

\* A frame holds the meaning of these, and nothing else.
FrameOK(f) ==
    /\ DOMAIN f = {"type", "members", "left", "msg", "field", "todo", "list"}
    /\ f.type \in Type /\ f.members \in Members(Depth)
    /\ f.left \subseteq Keys(f.members)
    /\ \A n \in Done(f) : meant(f, n).ok
    /\ f.msg = [n \in Done(f) |-> meant(f, n).v]

\* The field in progress has a member, of the kind that it needs.
FieldOK(f) ==
    f.field = NoField \/
        LET v == At(f.members, f.field.name)
        IN  /\ f.field.name \in present(f.type, f.members) \ f.left
            /\ f.field = lookupName(f.type, f.field.name)
            /\ IF f.field.repeated THEN IsA("array", v)
               ELSE f.field.type = "message" /\ IsA("object", v)

\* The elements of its list so far are right, and those to come are the last of the array.
ListOK(f) ==
    IF f.field # NoField /\ f.field.repeated
    THEN /\ IsList(f.list) /\ IsList(f.todo) /\ Len(f.list) + Len(f.todo) =< Len(values(f))
         /\ \A j \in DOMAIN f.list :
               LET r == meantElement(Reading, f.field, values(f)[j])
               IN  r.ok /\ f.list[j] = r.v
         /\ \A j \in DOMAIN f.todo : f.todo[j] = values(f)[Len(values(f)) - Len(f.todo) + j]
    ELSE f.list = <<>> /\ f.todo = <<>>

\* The last call is in no nested message.
TopOK(f) ==
    f.field = NoField \/ (f.field.repeated /\ Len(f.list) + Len(f.todo) = Len(values(f)))

\* The value that a nested call of f decodes, and that g is this call.
inside(f) == IF f.field.repeated THEN values(f)[Len(f.list) + 1]
             ELSE At(f.members, f.field.name)

CallOK(f, g) ==
    /\ f.field # NoField /\ f.field.type = "message" /\ g.type = f.field.schema
    /\ f.field.repeated => Len(f.list) + Len(f.todo) + 1 = Len(values(f))
    /\ IsA("object", inside(f)) /\ g.members = inside(f)[2]

Running ==
    /\ readErr = "nil" /\ IsA("object", data[1]) /\ stack[1].members = data[1][2]
    /\ IsList(stack) /\ stack # <<>>
    /\ \A k \in DOMAIN stack : FrameOK(stack[k]) /\ FieldOK(stack[k]) /\ ListOK(stack[k])
    /\ \A k \in 1..(Len(stack) - 1) : CallOK(stack[k], stack[k + 1])
    /\ TopOK(top)

\* What TypeOK says of a frame.
Typed(f) ==
    /\ f.type \in Type
    /\ f.left \subseteq Keys(f.members)
    /\ f.field = NoField \/ f.field.name \in Names(f.type)
    /\ DOMAIN f.msg \subseteq Names(f.type)
    /\ \A n \in DOMAIN f.msg : Fits(lookupName(f.type, n), f.msg[n])
    /\ f.field # NoField /\ f.field.repeated => Fits(f.field, f.list)

JsonInv ==
    /\ err \in {"idle", "running", "nil", "ErrTruncated", "ErrMalformedData"}
    /\ data \in Text
    /\ IF err = "running" THEN Running
       ELSE Len(stack) = 1 /\ DOMAIN stack = {1} /\ Typed(stack[1]) /\ OrderIsFree /\ WholeFields
    /\ err = "idle" => stack = <<Frame(stack[1].type, <<>>, before)>>

LEMMA RunningIs ==
    ASSUME JsonInv, err = "running"
    PROVE  /\ Running /\ IsList(stack) /\ Len(stack) \in Nat /\ Len(stack) >= 1
           /\ DOMAIN stack = 1..Len(stack) /\ 1 \in DOMAIN stack /\ Len(stack) \in DOMAIN stack
           /\ FrameOK(top) /\ FieldOK(top) /\ ListOK(top) /\ TopOK(top)
<1>1. Running
    BY DEF JsonInv
<1>2. IsList(stack) /\ stack # <<>>
    BY <1>1 DEF Running
<1>3. Len(stack) \in Nat \ {0} /\ DOMAIN stack = 1..Len(stack)
    BY <1>2, ListLen, EmptySeq DEF IsList
<1>4. 1 \in DOMAIN stack /\ Len(stack) \in DOMAIN stack
    BY <1>3
<1> QED BY <1>1, <1>2, <1>3, <1>4 DEF Running, top

\* A member of a frame that is for a field, and the field.
LEMMA PresentIs ==
    ASSUME NEW f, FrameOK(f), NEW n \in present(f.type, f.members)
    PROVE  /\ n \in Names(f.type) /\ n \in Keys(f.members)
           /\ At(f.members, n) \in JsonValue[Depth] /\ At(f.members, n) # Null
           /\ lookupName(f.type, n) \in FieldSchema /\ lookupName(f.type, n).name = n
           /\ lookupName(f.type, n).type = "message" => lookupName(f.type, n).schema \in Type
<1>1. f.type \in Type /\ f.members \in Members(Depth)
    BY DEF FrameOK
<1>2. n \in Names(f.type) /\ n \in Keys(f.members) /\ At(f.members, n) # Null
    BY DEF present
<1>3. At(f.members, n) \in JsonValue[Depth]
    BY <1>1, <1>2, AtIs DEF Members
<1> QED BY <1>1, <1>2, <1>3, LookupIs

\* The array of a list in progress.
LEMMA ValuesAre ==
    ASSUME NEW f, FrameOK(f), FieldOK(f), ListOK(f), f.field # NoField, f.field.repeated
    PROVE  /\ values(f) \in Seq(JsonValue[Depth]) /\ Len(values(f)) \in Nat
           /\ DOMAIN values(f) = 1..Len(values(f))
           /\ \A j \in DOMAIN values(f) : values(f)[j] \in JsonValue[Depth]
           /\ Len(f.list) \in Nat /\ DOMAIN f.list = 1..Len(f.list)
           /\ Len(f.todo) \in Nat /\ DOMAIN f.todo = 1..Len(f.todo)
           /\ meant(f, f.field.name) = meantList(Reading, f.field, values(f))
<1> DEFINE n == f.field.name
<1>1. /\ n \in present(f.type, f.members) /\ f.field = lookupName(f.type, n)
      /\ IsA("array", At(f.members, n))
    BY DEF FieldOK
<1>2. At(f.members, n) \in JsonValue[Depth]
    BY <1>1, PresentIs
<1>3. Depth \in 0..Depth
    BY JsonAssumption
<1>4. values(f) \in Seq(JsonValue[Depth])
    BY <1>1, <1>2, <1>3, ValueIs DEF values
<1>5. Len(values(f)) \in Nat /\ DOMAIN values(f) = 1..Len(values(f))
      /\ \A j \in DOMAIN values(f) : values(f)[j] \in JsonValue[Depth]
    BY <1>4, LenProperties
<1>6. IsList(f.list) /\ IsList(f.todo)
    BY DEF ListOK
<1>7. meant(f, n) = meantList(Reading, f.field, values(f))
    BY <1>1 DEF meant, meantField, values
<1> QED BY <1>4, <1>5, <1>6, <1>7, ListLen

LEMMA FrameTyped ==
    ASSUME NEW f, FrameOK(f), FieldOK(f), ListOK(f)
    PROVE  Typed(f)
<1>1. f.type \in Type /\ f.left \subseteq Keys(f.members)
    BY DEF FrameOK
<1>2. f.field = NoField \/ f.field.name \in Names(f.type)
    BY PresentIs DEF FieldOK
<1>3. \A n \in DOMAIN f.msg : /\ n \in present(f.type, f.members) /\ n \in Done(f)
                              /\ meant(f, n).ok /\ f.msg[n] = meant(f, n).v
    BY DEF FrameOK, Done
<1>4. \A n \in DOMAIN f.msg : n \in Names(f.type) /\ Fits(lookupName(f.type, n), f.msg[n])
    BY <1>1, <1>3, PresentIs, FieldFits DEF meant
<1>5. ASSUME f.field # NoField, f.field.repeated
      PROVE  Fits(f.field, f.list)
    <2> DEFINE n == f.field.name
    <2>1. f.field = lookupName(f.type, n) /\ n \in Names(f.type)
        BY <1>5, PresentIs DEF FieldOK
    <2>2. IsList(f.list) /\ Len(f.list) + Len(f.todo) =< Len(values(f))
        BY <1>5 DEF ListOK
    <2> HIDE DEF n
    <2> DEFINE E(j) == meantElement(Reading, f.field, values(f)[j])
    <2>3. \A j \in DOMAIN f.list : E(j).ok /\ f.list[j] = E(j).v
        BY <1>5 DEF ListOK
    <2>4. \A j \in DOMAIN f.list : values(f)[j] \in JsonValue[Depth]
        <3>1. /\ Len(values(f)) \in Nat /\ DOMAIN values(f) = 1..Len(values(f))
              /\ \A j \in DOMAIN values(f) : values(f)[j] \in JsonValue[Depth]
              /\ Len(f.list) \in Nat /\ DOMAIN f.list = 1..Len(f.list) /\ Len(f.todo) \in Nat
            BY <1>5, ValuesAre
        <3>2. \A a, b, c \in Nat : a + b =< c => 1..a \subseteq 1..c
            OBVIOUS
        <3>3. 1..Len(f.list) \subseteq 1..Len(values(f))
            BY <2>2, <3>1, <3>2
        <3> QED BY <3>1, <3>3
    <2>5. \A j \in DOMAIN f.list :
              E(j).ok => (f.field.type = "message" /\ E(j).v = NoMessage) \/ FitsOne(f.field, E(j).v)
        BY <1>1, <2>1, <2>4, ElementFits
    <2> HIDE DEF E
    <2>6. \A j \in DOMAIN f.list :
              (f.field.type = "message" /\ f.list[j] = NoMessage) \/ FitsOne(f.field, f.list[j])
        BY <2>3, <2>5
    <2> QED BY <1>5, <2>2, <2>6 DEF Fits
<1> QED BY <1>1, <1>2, <1>4, <1>5 DEF Typed

\* The call in progress goes on.
LEMMA UpdateKeeps ==
    ASSUME JsonInv, err = "running", NEW f, Update(f), Going,
           FrameOK(f), FieldOK(f), ListOK(f), TopOK(f), f.type = top.type, f.members = top.members
    PROVE  JsonInv'
<1> DEFINE n == Len(stack)
<1>1. n \in Nat /\ n >= 1 /\ DOMAIN stack = 1..n /\ n \in DOMAIN stack /\ IsList(stack) /\ Running
    BY RunningIs
<1>2. stack' = [stack EXCEPT ![n] = f]
    BY DEF Update
<1>3. /\ IsList(stack') /\ Len(stack') = n /\ DOMAIN stack' = 1..n
      /\ \A k \in 1..n : stack'[k] = IF k = n THEN f ELSE stack[k]
    BY <1>1, <1>2, ChangeInList, ZenonT(40)
<1>4. top = stack[n]
    BY DEF top
<1> HIDE DEF n
<1>5. stack' # <<>> /\ top' = f
    BY <1>1, <1>3 DEF top
<1>6. \A k \in 1..n : FrameOK(stack'[k]) /\ FieldOK(stack'[k]) /\ ListOK(stack'[k])
    BY <1>1, <1>3 DEF Running
<1>7. \A k \in 1..n : stack'[k].type = stack[k].type /\ stack'[k].members = stack[k].members
    BY <1>3, <1>4
<1>8. ASSUME NEW k \in 1..(n - 1)
      PROVE  CallOK(stack'[k], stack'[k + 1])
    <2>1. k \in 1..n /\ k + 1 \in 1..n /\ k # n
        BY <1>1
    <2>2. stack'[k] = stack[k] /\ CallOK(stack[k], stack[k + 1])
        BY <1>1, <1>3, <2>1 DEF Running, n
    <2>3. stack'[k + 1].type = stack[k + 1].type /\ stack'[k + 1].members = stack[k + 1].members
        BY <1>7, <2>1
    <2> QED BY <2>2, <2>3 DEF CallOK
<1>9. data' = data /\ err' = err /\ before' = before /\ readErr' = readErr
    BY DEF Going, readErr
<1>10. stack'[1].members = data'[1][2] /\ readErr' = "nil" /\ IsA("object", data'[1])
    BY <1>1, <1>7, <1>9 DEF Running
<1>11. Running'
    BY <1>3, <1>5, <1>6, <1>8, <1>10 DEF Running
<1> QED BY <1>9, <1>11 DEF JsonInv

\* A list that is not right to its end makes its message wrong.
LEMMA BadElement ==
    ASSUME NEW f, FrameOK(f), FieldOK(f), ListOK(f), f.field # NoField, f.field.repeated,
           NEW j \in DOMAIN values(f), ~meantElement(Reading, f.field, values(f)[j]).ok
    PROVE  ~meant(f, f.field.name).ok
<1>1. meant(f, f.field.name) = meantList(Reading, f.field, values(f))
    BY ValuesAre
<1> DEFINE s == values(f)
<1> HIDE DEF s
<1> DEFINE c == \A i \in DOMAIN s : meantElement(Reading, f.field, s[i]).ok
           l == [i \in DOMAIN s |-> meantElement(Reading, f.field, s[i]).v]
<1>2. ~c
    BY DEF s
<1>3. meant(f, f.field.name) = When(c, l)
    BY <1>1 DEF meantList, s
<1> HIDE DEF c, l
<1> QED BY <1>2, <1>3, WhenIs

\* One member that is wrong makes its message wrong.
LEMMA BadMember ==
    ASSUME NEW f, FrameOK(f), NEW n \in present(f.type, f.members), ~meant(f, n).ok
    PROVE  ~Reading[f.type][f.members].ok
<1>1. f.type \in Type /\ f.members \in Members(Depth)
    BY DEF FrameOK
<1> QED BY <1>1, MessageIs DEF meant

\* A nested message that is wrong makes the one around it wrong.
LEMMA BadCall ==
    ASSUME NEW f, NEW g, FrameOK(f), FieldOK(f), ListOK(f), CallOK(f, g),
           ~Reading[g.type][g.members].ok
    PROVE  ~Reading[f.type][f.members].ok
<1> DEFINE n == f.field.name
<1>1. /\ f.field # NoField /\ f.field.type = "message" /\ g.type = f.field.schema
      /\ IsA("object", inside(f)) /\ g.members = inside(f)[2]
    BY DEF CallOK
<1>2. n \in present(f.type, f.members) /\ f.field = lookupName(f.type, n)
    BY <1>1 DEF FieldOK
<1>3. meantOne(Reading, f.field, inside(f)) = Reading[g.type][g.members]
    BY <1>1 DEF meantOne
<1>4. ~meant(f, n).ok
    <2>1. CASE f.field.repeated
        <3>1. Len(f.list) + Len(f.todo) + 1 = Len(values(f)) /\ inside(f) = values(f)[Len(f.list) + 1]
            BY <2>1 DEF CallOK, inside
        <3>2. Len(f.list) + 1 \in DOMAIN values(f)
            <4>1. \A a, b, c \in Nat : a + b + 1 = c => a + 1 \in 1..c
                OBVIOUS
            <4>2. /\ Len(values(f)) \in Nat /\ DOMAIN values(f) = 1..Len(values(f))
                  /\ Len(f.list) \in Nat /\ Len(f.todo) \in Nat
                BY <1>1, <2>1, ValuesAre
            <4> QED BY <3>1, <4>1, <4>2
        <3>3. inside(f) # Null
            BY <1>1 DEF IsA, Null
        <3>4. meantElement(Reading, f.field, inside(f)) = Reading[g.type][g.members]
            BY <1>3, <3>3 DEF meantElement
        <3> QED BY <1>1, <2>1, <3>1, <3>2, <3>4, BadElement
    <2>2. CASE ~f.field.repeated
        <3>1. inside(f) = At(f.members, n)
            BY <2>2 DEF inside
        <3>2. meant(f, n) = meantOne(Reading, f.field, At(f.members, n))
            BY <1>2, <2>2 DEF meant, meantField
        <3> QED BY <1>3, <3>1, <3>2
    <2> QED BY <2>1, <2>2
<1> QED BY <1>2, <1>4, BadMember

\* So the whole text is wrong when the last call finds a member wrong.
LEMMA BadText ==
    ASSUME JsonInv, err = "running", ~Reading[top.type][top.members].ok
    PROVE  ~Reading[stack[1].type][stack[1].members].ok
<1> DEFINE n == Len(stack)
<1>1. n \in Nat /\ n >= 1 /\ DOMAIN stack = 1..n /\ Running /\ top = stack[n]
    BY RunningIs DEF top
<1> HIDE DEF n
<1> DEFINE bad(k) == ~Reading[stack[k].type][stack[k].members].ok
<1> DEFINE S == {m \in Nat : m < n => bad(n - m)}
<1>2. 0 \in S
    BY <1>1
<1>3. ASSUME NEW m \in Nat, m \in S
      PROVE  m + 1 \in S
    <2> SUFFICES ASSUME m + 1 < n PROVE bad(n - (m + 1))
        OBVIOUS
    <2> DEFINE k == n - (m + 1)
    <2>1. k \in 1..(n - 1) /\ k \in DOMAIN stack /\ k + 1 = n - m /\ m < n
        BY <1>1
    <2> HIDE DEF k
    <2>2. CallOK(stack[k], stack[k + 1])
        BY <1>1, <2>1 DEF Running, n
    <2>3. FrameOK(stack[k]) /\ FieldOK(stack[k]) /\ ListOK(stack[k])
        BY <1>1, <2>1 DEF Running
    <2>4. bad(k + 1)
        BY <1>3, <2>1
    <2>5. bad(k)
        BY <2>2, <2>3, <2>4, BadCall
    <2> QED BY <2>5 DEF k
<1> HIDE DEF S
<1>4. n - 1 \in S /\ n - 1 < n /\ n - (n - 1) = 1
    BY <1>1, <1>2, <1>3, NatSetInduction
<1> QED BY <1>4 DEF S

\* The fields of the message in a frame are right.
LEMMA FieldsRight ==
    ASSUME NEW f, FrameOK(f), NEW n \in DOMAIN f.msg
    PROVE  n \in present(f.type, f.members) /\ meant(f, n).ok /\ f.msg[n] = meant(f, n).v
BY DEF FrameOK, Done

LEMMA FailKeeps ==
    ASSUME JsonInv, err = "running", Fail, ~Reading[top.type][top.members].ok
    PROVE  JsonInv'
<1> DEFINE f == stack[1]
<1>1. ~Reading[f.type][f.members].ok
    BY BadText
<1>2. /\ FrameOK(f) /\ FieldOK(f) /\ ListOK(f) /\ f.members = data[1][2]
      /\ readErr = "nil" /\ IsA("object", data[1])
    BY RunningIs DEF Running
<1>3. stack' = <<f>> /\ err' = "ErrMalformedData" /\ data' = data /\ before' = before
    BY DEF Fail
<1> HIDE DEF f
<1>4. Len(stack') = 1 /\ DOMAIN stack' = {1} /\ stack'[1] = f
    BY <1>3
<1>5. readErr' = "nil"
    BY <1>2, <1>3 DEF readErr
<1>6. type' = f.type /\ message' = f.msg
    BY <1>4 DEF type, message
<1>7. Typed(f)
    BY <1>2, FrameTyped
<1>8. OrderIsFree'
    <2>1. IsA("object", data'[1]) /\ Reading[type'][data'[1][2]] = Reading[f.type][f.members]
        BY <1>2, <1>3, <1>6
    <2> DEFINE r == Reading[type'][data'[1][2]]
    <2>2. err' = (IF r.ok THEN "nil" ELSE "ErrMalformedData") /\ err' # "nil"
        BY <1>1, <1>3, <2>1
    <2>3. data'[1] # Null
        BY <2>1 DEF IsA, Null
    <2> QED BY <2>1, <2>2, <2>3, Zenon DEF OrderIsFree
<1>9. WholeFields'
    <2>1. \A n \in DOMAIN f.msg :
              /\ n \in present(f.type, data[1][2])
              /\ LET r == meantField(Reading, lookupName(f.type, n), At(data[1][2], n))
                 IN  r.ok /\ f.msg[n] = r.v
        BY <1>2, FieldsRight DEF meant
    <2> QED BY <1>3, <1>5, <1>6, <2>1 DEF WholeFields
<1> QED BY <1>3, <1>4, <1>7, <1>8, <1>9 DEF JsonInv

\* A call of decodeJSONObject begins.
LEMMA FrameBegins ==
    ASSUME NEW u \in Type, NEW ms \in Members(Depth)
    PROVE  LET g == Frame(u, ms, <<>>)
           IN  /\ FrameOK(g) /\ FieldOK(g) /\ ListOK(g) /\ TopOK(g)
               /\ g.type = u /\ g.members = ms
<1> DEFINE g == Frame(u, ms, <<>>)
<1>1. /\ DOMAIN g = {"type", "members", "left", "msg", "field", "todo", "list"}
      /\ g.type = u /\ g.members = ms /\ g.left = Keys(ms) /\ g.msg = <<>>
      /\ g.field = NoField /\ g.todo = <<>> /\ g.list = <<>>
    BY DEF Frame
<1> HIDE DEF g
<1>2. Done(g) = {}
    BY <1>1 DEF Done, present
<1>3. g.msg = [n \in Done(g) |-> meant(g, n).v]
    BY <1>1, <1>2
<1>4. FrameOK(g)
    BY <1>1, <1>2, <1>3 DEF FrameOK
<1> QED BY <1>1, <1>4 DEF FieldOK, ListOK, TopOK, g

LEMMA CallKeeps ==
    ASSUME JsonInv, err = "running", NEW f, NEW u \in Type, NEW ms \in Members(Depth),
           stack' = Append([stack EXCEPT ![Len(stack)] = f], Frame(u, ms, <<>>)), Going,
           FrameOK(f), FieldOK(f), ListOK(f), f.type = top.type, f.members = top.members,
           CallOK(f, Frame(u, ms, <<>>))
    PROVE  JsonInv'
<1> DEFINE n == Len(stack)
           g == Frame(u, ms, <<>>)
           mid == [stack EXCEPT ![n] = f]
<1>1. n \in Nat /\ n >= 1 /\ DOMAIN stack = 1..n /\ n \in DOMAIN stack /\ IsList(stack) /\ Running
    BY RunningIs
<1>2. /\ IsList(mid) /\ Len(mid) = n /\ DOMAIN mid = 1..n
      /\ \A k \in 1..n : mid[k] = IF k = n THEN f ELSE stack[k]
    BY <1>1, ChangeInList
<1>3. top = stack[n]
    BY DEF top
<1>4. FrameOK(g) /\ FieldOK(g) /\ ListOK(g) /\ TopOK(g)
    BY FrameBegins
<1>5. stack' = Append(mid, g)
    OBVIOUS
<1> HIDE DEF n, g, mid
<1>6. /\ IsList(stack') /\ Len(stack') = n + 1 /\ DOMAIN stack' = 1..(n + 1)
      /\ stack'[n + 1] = g /\ \A k \in 1..n : stack'[k] = mid[k]
    <2> DEFINE z == Append(mid, g)
    <2>1. /\ IsList(z) /\ Len(z) = Len(mid) + 1 /\ DOMAIN z = 1..(Len(mid) + 1)
          /\ z[Len(mid) + 1] = g /\ \A k \in 1..Len(mid) : z[k] = mid[k]
        BY <1>2, AppendToList
    <2> QED BY <1>2, <1>5, <2>1
<1>7. \A k \in 1..(n + 1) : k = n + 1 \/ k = n \/ (k \in 1..n /\ k # n)
    BY <1>1
<1>8. n \in 1..n /\ n + 1 \in Nat /\ n + 1 >= 1 /\ 1 \in 1..n
    BY <1>1
<1>9. stack'[n] = f /\ \A k \in 1..n : k # n => stack'[k] = stack[k]
    BY <1>2, <1>6, <1>8
<1>10. stack' # <<>> /\ top' = g
    BY <1>6, <1>8 DEF top
<1>11. \A k \in 1..(n + 1) : FrameOK(stack'[k]) /\ FieldOK(stack'[k]) /\ ListOK(stack'[k])
    <2> SUFFICES ASSUME NEW k \in 1..(n + 1)
                 PROVE  FrameOK(stack'[k]) /\ FieldOK(stack'[k]) /\ ListOK(stack'[k])
        OBVIOUS
    <2>1. CASE k = n + 1
        BY <1>4, <1>6, <2>1
    <2>2. CASE k = n
        BY <1>9, <2>2
    <2>3. CASE k \in 1..n /\ k # n
        BY <1>1, <1>9, <2>3 DEF Running
    <2> QED BY <1>7, <2>1, <2>2, <2>3
<1>12. \A k \in 1..n : stack'[k].type = stack[k].type /\ stack'[k].members = stack[k].members
    BY <1>3, <1>9
<1>13. ASSUME NEW k \in 1..n
       PROVE  CallOK(stack'[k], stack'[k + 1])
    <2>1. CASE k = n
        BY <1>6, <1>9, <2>1 DEF g
    <2>2. CASE k # n
        <3>1. k \in 1..(n - 1) /\ k + 1 \in 1..n
            BY <1>1, <2>2
        <3>2. stack'[k] = stack[k] /\ CallOK(stack[k], stack[k + 1])
            BY <1>1, <1>9, <2>2, <3>1 DEF Running, n
        <3>3. stack'[k + 1].type = stack[k + 1].type /\ stack'[k + 1].members = stack[k + 1].members
            BY <1>12, <3>1
        <3> QED BY <3>2, <3>3 DEF CallOK
    <2> QED BY <2>1, <2>2
<1>14. data' = data /\ err' = err /\ before' = before /\ readErr' = readErr
    BY DEF Going, readErr
<1>15. stack'[1].members = data'[1][2] /\ readErr' = "nil" /\ IsA("object", data'[1])
    BY <1>1, <1>8, <1>12, <1>14 DEF Running
<1>16. (n + 1) - 1 = n
    BY <1>1
<1>17. Running'
    BY <1>4, <1>6, <1>10, <1>11, <1>13, <1>15, <1>16 DEF Running
<1> QED BY <1>14, <1>17 DEF JsonInv

\* A call returns to the one before it, of which f is left.
LEMMA ReturnKeeps ==
    ASSUME JsonInv, err = "running", Len(stack) > 1, NEW f,
           stack' = Append(SubSeq(stack, 1, Len(stack) - 2), f), Going,
           FrameOK(f), FieldOK(f), ListOK(f), TopOK(f),
           f.type = stack[Len(stack) - 1].type, f.members = stack[Len(stack) - 1].members
    PROVE  JsonInv'
<1> DEFINE n == Len(stack) - 1
           front == SubSeq(stack, 1, n - 1)
<1>1. n \in Nat /\ n >= 1 /\ DOMAIN stack = 1..(n + 1) /\ IsList(stack) /\ Running
      /\ n - 1 \in 0..Len(stack) /\ Len(stack) = n + 1
    BY RunningIs
<1>2. IsList(front) /\ Len(front) = n - 1 /\ \A k \in 1..(n - 1) : front[k] = stack[k]
    BY <1>1, FrontOfList
<1>3. stack' = Append(front, f)
    <2>1. Len(stack) - 2 = n - 1
        BY <1>1
    <2> QED BY <2>1
<1>4. f.type = stack[n].type /\ f.members = stack[n].members
    OBVIOUS
<1> HIDE DEF n, front
<1>5. /\ IsList(stack') /\ Len(stack') = n /\ DOMAIN stack' = 1..n
      /\ stack'[n] = f /\ \A k \in 1..(n - 1) : stack'[k] = stack[k]
    <2>1. (n - 1) + 1 = n
        BY <1>1
    <2> DEFINE z == Append(front, f)
    <2>2. /\ IsList(z) /\ Len(z) = Len(front) + 1 /\ DOMAIN z = 1..(Len(front) + 1)
          /\ z[Len(front) + 1] = f /\ \A k \in 1..Len(front) : z[k] = front[k]
        BY <1>2, AppendToList
    <2> QED BY <1>2, <1>3, <2>1, <2>2
<1>6. \A k \in 1..n : k = n \/ k \in 1..(n - 1)
    BY <1>1
<1>7. n \in 1..n /\ 1 \in 1..n /\ \A k \in 1..n : k \in 1..(n + 1)
    BY <1>1
<1>8. stack' # <<>> /\ top' = f
    BY <1>1, <1>5 DEF top
<1>9. \A k \in 1..n : FrameOK(stack'[k]) /\ FieldOK(stack'[k]) /\ ListOK(stack'[k])
    BY <1>1, <1>5, <1>6, <1>7 DEF Running
<1>10. \A k \in 1..n : stack'[k].type = stack[k].type /\ stack'[k].members = stack[k].members
    BY <1>4, <1>5, <1>6
<1>11. ASSUME NEW k \in 1..(n - 1)
       PROVE  CallOK(stack'[k], stack'[k + 1])
    <2>1. k + 1 \in 1..n /\ k \in 1..(Len(stack) - 1)
        BY <1>1
    <2>2. stack'[k] = stack[k] /\ CallOK(stack[k], stack[k + 1])
        BY <1>1, <1>5, <2>1 DEF Running
    <2>3. stack'[k + 1].type = stack[k + 1].type /\ stack'[k + 1].members = stack[k + 1].members
        BY <1>10, <2>1
    <2> QED BY <2>2, <2>3 DEF CallOK
<1>12. data' = data /\ err' = err /\ before' = before /\ readErr' = readErr
    BY DEF Going, readErr
<1>13. stack'[1].members = data'[1][2] /\ readErr' = "nil" /\ IsA("object", data'[1])
    BY <1>1, <1>7, <1>10, <1>12 DEF Running
<1>14. Running'
    BY <1>5, <1>8, <1>9, <1>11, <1>13 DEF Running
<1> QED BY <1>12, <1>14 DEF JsonInv

-----------------------------------------------------------------------------
(* The steps *)

\* A field is stored that was to come or in progress.
LEMMA StoreStep ==
    ASSUME NEW f, FrameOK(f), NEW k \in present(f.type, f.members), meant(f, k).ok,
           NEW g, DOMAIN g = DOMAIN f, g.type = f.type, g.members = f.members,
           g.left \subseteq f.left, g.field = NoField, g.todo = <<>>, g.list = <<>>,
           g.msg = With(f.msg, k, meant(f, k).v), Done(g) = Done(f) \cup {k}
    PROVE  FrameOK(g) /\ FieldOK(g) /\ ListOK(g) /\ TopOK(g)
<1>1. \A n : meant(g, n) = meant(f, n)
    BY DEF meant
<1>2. f.msg = [n \in Done(f) |-> meant(f, n).v] /\ \A n \in Done(f) : meant(f, n).ok
    BY DEF FrameOK
<1>3. g.msg = [n \in Done(f) \cup {k} |-> meant(f, n).v]
    BY <1>2 DEF With
<1>4. g.msg = [n \in Done(g) |-> meant(g, n).v]
    BY <1>1, <1>3
<1>5. \A n \in Done(g) : meant(g, n).ok
    BY <1>1, <1>2
<1>6. FrameOK(g)
    BY <1>4, <1>5 DEF FrameOK
<1> QED BY <1>6 DEF FieldOK, ListOK, TopOK

\* What a frame says of its fields does not depend on the list in progress.
LEMMA SameFields ==
    ASSUME NEW f, FrameOK(f), FieldOK(f),
           NEW g, DOMAIN g = DOMAIN f, g.type = f.type, g.members = f.members,
           g.left = f.left, g.msg = f.msg, g.field = f.field
    PROVE  FrameOK(g) /\ FieldOK(g) /\ values(g) = values(f)
<1>1. Done(g) = Done(f) /\ values(g) = values(f) /\ \A n : meant(g, n) = meant(f, n)
    BY DEF Done, values, meant
<1>2. [n \in Done(g) |-> meant(g, n).v] = [n \in Done(f) |-> meant(f, n).v]
    BY <1>1
<1>3. FrameOK(g)
    BY <1>1, <1>2 DEF FrameOK
<1>4. FieldOK(g)
    BY DEF FieldOK
<1> QED BY <1>1, <1>3, <1>4

\* A list gets its next element.
LEMMA ListStep ==
    ASSUME NEW f, FrameOK(f), FieldOK(f), ListOK(f), f.field # NoField, f.field.repeated,
           NEW j, j = Len(f.list) + 1, j \in DOMAIN values(f),
           meantElement(Reading, f.field, values(f)[j]).ok,
           NEW g, DOMAIN g = DOMAIN f, g.type = f.type, g.members = f.members,
           g.left = f.left, g.msg = f.msg, g.field = f.field,
           g.list = Append(f.list, meantElement(Reading, f.field, values(f)[j]).v),
           IsList(g.todo), j + Len(g.todo) = Len(values(f)),
           \A i \in DOMAIN g.todo : g.todo[i] = values(f)[Len(values(f)) - Len(g.todo) + i]
    PROVE  FrameOK(g) /\ FieldOK(g) /\ ListOK(g) /\ TopOK(g)
<1>1. FrameOK(g) /\ FieldOK(g) /\ values(g) = values(f)
    BY SameFields
<1>2. /\ Len(values(f)) \in Nat /\ Len(f.list) \in Nat /\ DOMAIN f.list = 1..Len(f.list)
      /\ IsList(f.list)
    BY ValuesAre DEF ListOK
<1> DEFINE E(i) == meantElement(Reading, f.field, values(f)[i])
<1>3. /\ IsList(g.list) /\ Len(g.list) = j /\ DOMAIN g.list = 1..j
      /\ g.list[j] = E(j).v /\ \A i \in 1..Len(f.list) : g.list[i] = f.list[i]
    <2> DEFINE z == Append(f.list, E(j).v)
    <2>1. /\ IsList(z) /\ Len(z) = Len(f.list) + 1 /\ DOMAIN z = 1..(Len(f.list) + 1)
          /\ z[Len(f.list) + 1] = E(j).v /\ \A i \in 1..Len(f.list) : z[i] = f.list[i]
        BY <1>2, AppendToList
    <2>2. g.list = z
        OBVIOUS
    <2> HIDE DEF z, E
    <2> QED BY <2>1, <2>2
<1>4. \A i \in DOMAIN f.list : E(i).ok /\ f.list[i] = E(i).v
    BY DEF ListOK
<1>5. E(j).ok
    OBVIOUS
<1> HIDE DEF E
<1>6. \A i \in 1..j : i = j \/ i \in 1..Len(f.list)
    BY <1>2
<1>7. \A i \in DOMAIN g.list : E(i).ok /\ g.list[i] = E(i).v
    BY <1>2, <1>3, <1>4, <1>5, <1>6
<1>8. Len(g.list) + Len(g.todo) = Len(values(g)) /\ Len(g.list) + Len(g.todo) =< Len(values(g))
    <2>1. Len(g.list) + Len(g.todo) = Len(values(f))
        <3>1. Len(g.list) = j
            BY <1>3
        <3> QED BY <3>1, Zenon
    <2>2. \A n \in Nat : n =< n
        OBVIOUS
    <2> QED BY <1>1, <1>2, <2>1, <2>2, Zenon
<1>9. ListOK(g)
    BY <1>1, <1>3, <1>7, <1>8 DEF ListOK, E
<1> QED BY <1>1, <1>8, <1>9 DEF TopOK

LEMMA NoFieldIs == NoField.type = "string" /\ ~NoField.repeated
BY DEF NoField

\* A frame at a key is in no field.
LEMMA KeyIs ==
    ASSUME JsonInv, NEW k, AtKey(k)
    PROVE  /\ err = "running" /\ top.field = NoField /\ top.todo = <<>> /\ top.list = <<>>
           /\ k \in top.left /\ k \in Keys(top.members)
           /\ DOMAIN top = {"type", "members", "left", "msg", "field", "todo", "list"}
           /\ FrameOK(top) /\ FieldOK(top) /\ ListOK(top)
           /\ Done(top) = present(top.type, top.members) \ top.left
<1>1. err = "running" /\ top.field = NoField /\ k \in top.left
    BY DEF AtKey
<1>2. FrameOK(top) /\ FieldOK(top) /\ ListOK(top)
    BY <1>1, RunningIs
<1>3. top.left \subseteq Keys(top.members)
      /\ DOMAIN top = {"type", "members", "left", "msg", "field", "todo", "list"}
    BY <1>2 DEF FrameOK
<1>4. top.todo = <<>> /\ top.list = <<>>
    BY <1>1, <1>2 DEF ListOK
<1>5. Done(top) = present(top.type, top.members) \ top.left
    BY <1>1 DEF Done
<1> QED BY <1>1, <1>2, <1>3, <1>4, <1>5

LEMMA FieldIs ==
    ASSUME JsonInv, NEW k, AtField(k)
    PROVE  /\ k \in present(top.type, top.members)
           /\ fs(k).name = k /\ fs(k) = lookupName(top.type, k) /\ raw(k) = At(top.members, k)
           /\ fs(k).type = "message" => fs(k).schema \in Type
           /\ raw(k) \in JsonValue[Depth]
           /\ meant(top, k) = meantField(Reading, fs(k), raw(k))
<1>1. AtKey(k) /\ Known(k) /\ raw(k) # Null
    BY DEF AtField
<1>2. FrameOK(top) /\ k \in Keys(top.members)
    BY <1>1, KeyIs
<1>3. k \in present(top.type, top.members)
    BY <1>1, <1>2 DEF present, Known, raw
<1>4. fs(k) = lookupName(top.type, k) /\ raw(k) = At(top.members, k)
    BY DEF fs, raw
<1>5. /\ At(top.members, k) \in JsonValue[Depth] /\ lookupName(top.type, k).name = k
      /\ lookupName(top.type, k).type = "message" => lookupName(top.type, k).schema \in Type
    BY <1>2, <1>3, PresentIs
<1> QED BY <1>3, <1>4, <1>5 DEF meant

\* A member that is for no field, or null, is passed and no field has changed.
LEMMA PassStep ==
    ASSUME JsonInv, NEW k, AtKey(k), k \notin present(top.type, top.members),
           NEW f, Update(f), Going, DOMAIN f = DOMAIN top, f.type = top.type,
           f.members = top.members, f.left = top.left \ {k}, f.field = top.field,
           f.todo = top.todo, f.list = top.list,
           f.msg = top.msg \/ f.msg = [n \in DOMAIN top.msg \ {k} |-> top.msg[n]]
    PROVE  JsonInv'
<1>1. /\ err = "running" /\ top.field = NoField /\ top.todo = <<>> /\ top.list = <<>>
      /\ k \in top.left /\ FrameOK(top)
      /\ Done(top) = present(top.type, top.members) \ top.left
    BY KeyIs
<1>2. f.msg = top.msg
    <2>1. k \notin DOMAIN top.msg
        BY <1>1, FieldsRight
    <2>2. top.msg = [n \in DOMAIN top.msg |-> top.msg[n]]
        BY <1>1 DEF FrameOK
    <2>3. DOMAIN top.msg \ {k} = DOMAIN top.msg
        BY <2>1
    <2> QED BY <2>2, <2>3
<1>3. Done(f) = Done(top)
    BY <1>1 DEF Done
<1>4. \A n : meant(f, n) = meant(top, n)
    BY DEF meant
<1>5. [n \in Done(f) |-> meant(f, n).v] = [n \in Done(top) |-> meant(top, n).v]
    BY <1>3, <1>4
<1>6. FrameOK(f)
    BY <1>1, <1>2, <1>3, <1>4, <1>5 DEF FrameOK
<1>7. FieldOK(f) /\ ListOK(f) /\ TopOK(f)
    BY <1>1 DEF FieldOK, ListOK, TopOK
<1> QED BY <1>1, <1>6, <1>7, UpdateKeeps

LEMMA SkipKeeps ==
    ASSUME JsonInv, NEW k, SkipKey(k)
    PROVE  JsonInv'
<1> DEFINE f == Past(k)
<1>1. AtKey(k) /\ Going /\ Update(f)
    BY DEF SkipKey
<1>2. k \notin present(top.type, top.members)
    BY DEF SkipKey, Known, present
<1>3. DOMAIN top = {"type", "members", "left", "msg", "field", "todo", "list"}
    BY <1>1, KeyIs
<1>4. /\ DOMAIN f = DOMAIN top /\ f.type = top.type /\ f.members = top.members
      /\ f.left = top.left \ {k} /\ f.field = top.field /\ f.todo = top.todo
      /\ f.list = top.list /\ f.msg = top.msg
    BY <1>3 DEF Past
<1> HIDE DEF f
<1> QED BY <1>1, <1>2, <1>4, PassStep

LEMMA UnsetKeeps ==
    ASSUME JsonInv, NEW k, UnsetField(k)
    PROVE  JsonInv'
<1> DEFINE m == [n \in DOMAIN top.msg \ {k} |-> top.msg[n]]
           f == [Past(k) EXCEPT !.msg = m]
<1>1. AtKey(k) /\ Going /\ Update(f)
    BY DEF UnsetField
<1>2. k \notin present(top.type, top.members)
    BY DEF UnsetField, raw, present
<1>3. DOMAIN top = {"type", "members", "left", "msg", "field", "todo", "list"}
    BY <1>1, KeyIs
<1> HIDE DEF m
<1>4. /\ DOMAIN f = DOMAIN top /\ f.type = top.type /\ f.members = top.members
      /\ f.left = top.left \ {k} /\ f.field = top.field /\ f.todo = top.todo
      /\ f.list = top.list /\ f.msg = m
    BY <1>3 DEF Past
<1> HIDE DEF f
<1> QED BY <1>1, <1>2, <1>4, PassStep DEF m

LEMMA ScalarKeeps ==
    ASSUME JsonInv, NEW k, DecodeScalar(k)
    PROVE  JsonInv'
<1> DEFINE v == decodeJSONScalar(fs(k).type, raw(k))
           f == Put(Past(k), k, v.v)
<1>1. AtField(k) /\ AtKey(k) /\ Going /\ Update(f) /\ v.ok /\ ~fs(k).repeated /\ fs(k).type # "message"
    BY DEF DecodeScalar, IsScalarField, AtField
<1>2. /\ err = "running" /\ top.field = NoField /\ top.todo = <<>> /\ top.list = <<>>
      /\ k \in top.left
      /\ DOMAIN top = {"type", "members", "left", "msg", "field", "todo", "list"}
      /\ FrameOK(top) /\ Done(top) = present(top.type, top.members) \ top.left
    BY <1>1, KeyIs
<1>3. /\ k \in present(top.type, top.members)
      /\ meant(top, k) = meantField(Reading, fs(k), raw(k))
    BY <1>1, FieldIs
<1>4. meant(top, k) = v
    BY <1>1, <1>3 DEF meantField, meantOne
<1> HIDE DEF v
<1>5. /\ DOMAIN f = DOMAIN top /\ f.type = top.type /\ f.members = top.members
      /\ f.left = top.left \ {k} /\ f.field = NoField /\ f.todo = <<>> /\ f.list = <<>>
      /\ f.msg = With(top.msg, k, v.v)
    BY <1>2 DEF Past, Put
<1> HIDE DEF f
<1>6. Done(f) = Done(top) \cup {k}
    BY <1>2, <1>3, <1>5 DEF Done
<1>7. FrameOK(f) /\ FieldOK(f) /\ ListOK(f) /\ TopOK(f)
    BY <1>1, <1>2, <1>3, <1>4, <1>5, <1>6, StoreStep
<1> QED BY <1>1, <1>2, <1>5, <1>7, UpdateKeeps

LEMMA ScalarFailKeeps ==
    ASSUME JsonInv, NEW k, ScalarFail(k)
    PROVE  JsonInv'
<1>1. AtField(k) /\ AtKey(k) /\ Fail /\ ~fs(k).repeated /\ fs(k).type # "message"
      /\ ~decodeJSONScalar(fs(k).type, raw(k)).ok
    BY DEF ScalarFail, IsScalarField, AtField
<1>2. err = "running" /\ FrameOK(top)
    BY <1>1, KeyIs
<1>3. /\ k \in present(top.type, top.members)
      /\ meant(top, k) = meantField(Reading, fs(k), raw(k))
    BY <1>1, FieldIs
<1>4. ~meant(top, k).ok
    BY <1>1, <1>3 DEF meantField, meantOne
<1> QED BY <1>1, <1>2, <1>3, <1>4, BadMember, FailKeeps

LEMMA KindFailKeeps ==
    ASSUME JsonInv, NEW k, KindFail(k)
    PROVE  JsonInv'
<1>1. AtField(k) /\ AtKey(k) /\ Fail
    BY DEF KindFail, AtField
<1>2. err = "running" /\ FrameOK(top)
    BY <1>1, KeyIs
<1>3. /\ k \in present(top.type, top.members)
      /\ meant(top, k) = meantField(Reading, fs(k), raw(k))
    BY <1>1, FieldIs
<1>4. meant(top, k) = Malformed
    BY <1>3 DEF KindFail, meantField, meantOne
<1>5. ~meant(top, k).ok
    BY <1>4 DEF Malformed
<1> QED BY <1>1, <1>2, <1>3, <1>5, BadMember, FailKeeps

LEMMA EnterMessageKeeps ==
    ASSUME JsonInv, NEW k, EnterMessage(k)
    PROVE  JsonInv'
<1> DEFINE f == [Past(k) EXCEPT !.field = fs(k)]
           g == Frame(fs(k).schema, raw(k)[2], <<>>)
<1>1. AtField(k) /\ AtKey(k) /\ Going /\ ~fs(k).repeated /\ fs(k).type = "message"
      /\ IsA("object", raw(k)) /\ stack' = Append([stack EXCEPT ![Len(stack)] = f], g)
    BY DEF EnterMessage, AtField
<1>2. /\ err = "running" /\ top.field = NoField /\ top.todo = <<>> /\ top.list = <<>>
      /\ k \in top.left
      /\ DOMAIN top = {"type", "members", "left", "msg", "field", "todo", "list"}
      /\ FrameOK(top) /\ Done(top) = present(top.type, top.members) \ top.left
    BY <1>1, KeyIs
<1>3. /\ k \in present(top.type, top.members)
      /\ fs(k).name = k /\ fs(k) = lookupName(top.type, k) /\ raw(k) = At(top.members, k)
      /\ fs(k).schema \in Type /\ raw(k) \in JsonValue[Depth]
    BY <1>1, FieldIs
<1>4. raw(k)[2] \in Members(Depth)
    <2>1. Depth \in 0..Depth
        BY JsonAssumption
    <2> QED BY <1>1, <1>3, <2>1, ValueIs
<1>5. /\ DOMAIN f = DOMAIN top /\ f.type = top.type /\ f.members = top.members
      /\ f.left = top.left \ {k} /\ f.msg = top.msg /\ f.field = fs(k)
      /\ f.todo = <<>> /\ f.list = <<>>
    BY <1>2 DEF Past
<1> HIDE DEF f
<1>6. fs(k) # NoField
    BY <1>1, NoFieldIs
<1>7. Done(f) = Done(top)
    BY <1>2, <1>3, <1>5, <1>6 DEF Done
<1>8. \A n : meant(f, n) = meant(top, n)
    BY <1>5 DEF meant
<1>9. [n \in Done(f) |-> meant(f, n).v] = [n \in Done(top) |-> meant(top, n).v]
    BY <1>7, <1>8
<1>10. FrameOK(f)
    BY <1>2, <1>5, <1>7, <1>8, <1>9 DEF FrameOK
<1>11. FieldOK(f)
    BY <1>1, <1>3, <1>5 DEF FieldOK
<1>12. ListOK(f)
    BY <1>1, <1>5 DEF ListOK
<1>13. inside(f) = raw(k)
    BY <1>1, <1>3, <1>5 DEF inside
<1>14. g.type = fs(k).schema /\ g.members = raw(k)[2]
    BY DEF Frame
<1> HIDE DEF g
<1>15. CallOK(f, g)
    BY <1>1, <1>5, <1>6, <1>13, <1>14 DEF CallOK
<1> QED BY <1>1, <1>2, <1>3, <1>4, <1>5, <1>10, <1>11, <1>12, <1>15, CallKeeps DEF g

LEMMA EnterListKeeps ==
    ASSUME JsonInv, NEW k, EnterList(k)
    PROVE  JsonInv'
<1> DEFINE f == [Past(k) EXCEPT !.field = fs(k), !.todo = raw(k)[2]]
<1>1. AtField(k) /\ AtKey(k) /\ Going /\ fs(k).repeated /\ IsA("array", raw(k)) /\ Update(f)
    BY DEF EnterList, AtField
<1>2. /\ err = "running" /\ top.field = NoField /\ top.todo = <<>> /\ top.list = <<>>
      /\ k \in top.left
      /\ DOMAIN top = {"type", "members", "left", "msg", "field", "todo", "list"}
      /\ FrameOK(top) /\ Done(top) = present(top.type, top.members) \ top.left
    BY <1>1, KeyIs
<1>3. /\ k \in present(top.type, top.members)
      /\ fs(k).name = k /\ fs(k) = lookupName(top.type, k) /\ raw(k) = At(top.members, k)
      /\ raw(k) \in JsonValue[Depth]
    BY <1>1, FieldIs
<1> DEFINE s == raw(k)[2]
<1>4. s \in Seq(JsonValue[Depth])
    <2>1. Depth \in 0..Depth
        BY JsonAssumption
    <2> QED BY <1>1, <1>3, <2>1, ValueIs
<1> HIDE DEF s
<1>5. IsList(s) /\ Len(s) \in Nat /\ DOMAIN s = 1..Len(s)
    BY <1>4, ListIs, ListLen
<1>6. /\ DOMAIN f = DOMAIN top /\ f.type = top.type /\ f.members = top.members
      /\ f.left = top.left \ {k} /\ f.msg = top.msg /\ f.field = fs(k)
      /\ f.todo = s /\ f.list = <<>>
    BY <1>2 DEF Past, s
<1> HIDE DEF f
<1>7. fs(k) # NoField
    BY <1>1, NoFieldIs
<1>8. Done(f) = Done(top)
    BY <1>2, <1>3, <1>6, <1>7 DEF Done
<1>9. \A n : meant(f, n) = meant(top, n)
    BY <1>6 DEF meant
<1>10. [n \in Done(f) |-> meant(f, n).v] = [n \in Done(top) |-> meant(top, n).v]
    BY <1>8, <1>9
<1>11. FrameOK(f)
    BY <1>2, <1>6, <1>8, <1>9, <1>10 DEF FrameOK
<1>12. FieldOK(f)
    BY <1>1, <1>3, <1>6 DEF FieldOK
<1>13. values(f) = s
    BY <1>3, <1>6 DEF values, s
<1>14. Len(f.list) = 0 /\ DOMAIN f.list = {} /\ IsList(f.list)
    <2>1. <<>> \in Seq(Nat)
        OBVIOUS
    <2>2. IsList(<<>>)
        BY <2>1, ListIs
    <2>3. Len(<<>>) = 0 /\ DOMAIN <<>> = {}
        OBVIOUS
    <2> QED BY <1>6, <2>2, <2>3
<1>15. Len(f.list) + Len(f.todo) = Len(values(f)) /\ Len(f.list) + Len(f.todo) =< Len(values(f))
    BY <1>5, <1>6, <1>13, <1>14
<1>16. \A j \in DOMAIN f.todo : f.todo[j] = values(f)[Len(values(f)) - Len(f.todo) + j]
    <2>1. \A j \in 1..Len(s) : Len(s) - Len(s) + j = j
        BY <1>5
    <2> QED BY <1>5, <1>6, <1>13, <2>1
<1>17. ListOK(f) /\ TopOK(f)
    BY <1>1, <1>5, <1>6, <1>7, <1>14, <1>15, <1>16 DEF ListOK, TopOK
<1> QED BY <1>1, <1>2, <1>6, <1>11, <1>12, <1>17, UpdateKeeps

\* The element that a list is at.
LEMMA ElementIs ==
    ASSUME JsonInv, AtElement
    PROVE  LET j == Len(top.list) + 1
               rest == Tail(top.todo)
           IN  /\ err = "running" /\ top.field # NoField /\ top.field.repeated
               /\ DOMAIN top = {"type", "members", "left", "msg", "field", "todo", "list"}
               /\ FrameOK(top) /\ FieldOK(top) /\ ListOK(top)
               /\ top.field = lookupName(top.type, top.field.name)
               /\ top.field.name \in present(top.type, top.members)
               /\ j \in DOMAIN values(top) /\ elem = values(top)[j]
               /\ elem \in JsonValue[Depth]
               /\ IsList(rest) /\ j + Len(rest) = Len(values(top)) /\ Len(rest) \in Nat
               /\ \A i \in DOMAIN rest : rest[i] = values(top)[Len(values(top)) - Len(rest) + i]
<1> DEFINE j == Len(top.list) + 1
           rest == Tail(top.todo)
           s == values(top)
<1>1. err = "running" /\ top.field # NoField /\ top.field.repeated /\ top.todo # <<>>
    BY DEF AtElement, InList
<1>2. FrameOK(top) /\ FieldOK(top) /\ ListOK(top) /\ TopOK(top)
    BY <1>1, RunningIs
<1>3. DOMAIN top = {"type", "members", "left", "msg", "field", "todo", "list"}
    BY <1>2 DEF FrameOK
<1>4. top.field = lookupName(top.type, top.field.name)
      /\ top.field.name \in present(top.type, top.members)
    BY <1>1, <1>2 DEF FieldOK
<1>5. IsList(top.todo) /\ \A i \in DOMAIN top.todo : top.todo[i] = s[Len(s) - Len(top.todo) + i]
    BY <1>1, <1>2 DEF ListOK
<1>6. Len(top.list) + Len(top.todo) = Len(s)
    BY <1>1, <1>2 DEF TopOK
<1>7. /\ Len(s) \in Nat /\ DOMAIN s = 1..Len(s) /\ \A i \in DOMAIN s : s[i] \in JsonValue[Depth]
      /\ Len(top.list) \in Nat /\ Len(top.todo) \in Nat /\ DOMAIN top.todo = 1..Len(top.todo)
    BY <1>1, <1>2, ValuesAre
<1> DEFINE S == {top.todo[i] : i \in DOMAIN top.todo}
<1>8. /\ rest \in Seq(S) /\ Len(rest) = Len(top.todo) - 1
      /\ \A i \in 1..Len(rest) : rest[i] = top.todo[i + 1]
    BY <1>1, <1>5, HeadTailProperties DEF IsList
<1>9. elem = top.todo[1]
    BY <1>1, <1>5 DEF elem, IsList
<1>10. Len(top.todo) >= 1
    <2>1. Len(top.todo) # 0
        BY <1>1, <1>5, EmptySeq DEF IsList
    <2> QED BY <1>7, <2>1
<1> HIDE DEF rest, S, s
<1>11. IsList(rest) /\ DOMAIN rest = 1..Len(rest)
    BY <1>8, ListIs, ListLen
<1>12. \A a, b, c \in Nat : a + b = c /\ b >= 1 =>
          /\ a + 1 \in 1..c /\ c - b + 1 = a + 1 /\ 1 \in 1..b
          /\ a + 1 + (b - 1) = c /\ b - 1 \in Nat
          /\ \A i \in 1..(b - 1) : i + 1 \in 1..b /\ c - b + (i + 1) = c - (b - 1) + i
    OBVIOUS
<1>13. /\ j \in DOMAIN s /\ Len(s) - Len(top.todo) + 1 = j /\ 1 \in 1..Len(top.todo)
       /\ j + Len(rest) = Len(s) /\ Len(rest) \in Nat
       /\ \A i \in 1..Len(rest) : /\ i + 1 \in 1..Len(top.todo)
                                  /\ Len(s) - Len(top.todo) + (i + 1) = Len(s) - Len(rest) + i
    <2> DEFINE a == Len(top.list)
               b == Len(top.todo)
               c == Len(s)
    <2>1. a \in Nat /\ b \in Nat /\ c \in Nat /\ a + b = c /\ b >= 1
        BY <1>6, <1>7, <1>10
    <2>2. Len(rest) = b - 1 /\ DOMAIN s = 1..c
        BY <1>7, <1>8
    <2> HIDE DEF a, b, c
    <2>3. /\ a + 1 \in 1..c /\ c - b + 1 = a + 1 /\ 1 \in 1..b
          /\ a + 1 + (b - 1) = c /\ b - 1 \in Nat
          /\ \A i \in 1..(b - 1) : i + 1 \in 1..b /\ c - b + (i + 1) = c - (b - 1) + i
        BY <1>12, <2>1
    <2> QED BY <2>2, <2>3, Zenon DEF a, b, c
<1>14. elem = s[j] /\ elem \in JsonValue[Depth]
    BY <1>5, <1>7, <1>9, <1>13
<1>15. \A i \in DOMAIN rest : rest[i] = s[Len(s) - Len(rest) + i]
    BY <1>5, <1>7, <1>8, <1>11, <1>13
<1> QED BY <1>1, <1>2, <1>3, <1>4, <1>11, <1>13, <1>14, <1>15 DEF rest, s

\* An element is taken that means v.
LEMMA TookKeeps ==
    ASSUME JsonInv, AtElement, NEW v, Update(Took(v)), Going,
           meantElement(Reading, top.field, elem).ok,
           meantElement(Reading, top.field, elem).v = v
    PROVE  JsonInv'
<1> DEFINE f == Took(v)
           j == Len(top.list) + 1
           rest == Tail(top.todo)
<1>1. /\ err = "running" /\ top.field # NoField /\ top.field.repeated
      /\ DOMAIN top = {"type", "members", "left", "msg", "field", "todo", "list"}
      /\ FrameOK(top) /\ FieldOK(top) /\ ListOK(top)
      /\ j \in DOMAIN values(top) /\ elem = values(top)[j]
      /\ IsList(rest) /\ j + Len(rest) = Len(values(top))
      /\ \A i \in DOMAIN rest : rest[i] = values(top)[Len(values(top)) - Len(rest) + i]
    BY ElementIs
<1>2. /\ DOMAIN f = DOMAIN top /\ f.type = top.type /\ f.members = top.members
      /\ f.left = top.left /\ f.msg = top.msg /\ f.field = top.field
      /\ f.todo = rest /\ f.list = Append(top.list, v)
    BY <1>1 DEF Took
<1> HIDE DEF f, rest
<1>3. FrameOK(f) /\ FieldOK(f) /\ ListOK(f) /\ TopOK(f)
    BY <1>1, <1>2, ListStep
<1> QED BY <1>1, <1>2, <1>3, UpdateKeeps DEF f

LEMMA NullElementKeeps ==
    ASSUME JsonInv, NullElement
    PROVE  JsonInv'
<1>1. AtElement /\ Going /\ Update(Took(NoMessage))
    BY DEF NullElement
<1>2. meantElement(Reading, top.field, elem) = Value(NoMessage)
    BY DEF NullElement, meantElement
<1>3. Value(NoMessage).ok /\ Value(NoMessage).v = NoMessage
    BY DEF Value
<1> QED BY <1>1, <1>2, <1>3, TookKeeps

LEMMA ScalarElementKeeps ==
    ASSUME JsonInv, ScalarElement
    PROVE  JsonInv'
<1> DEFINE r == decodeJSONScalar(top.field.type, elem)
<1>1. AtElement /\ Going /\ Update(Took(r.v)) /\ r.ok
    BY DEF ScalarElement
<1>2. meantElement(Reading, top.field, elem) = r
    BY DEF ScalarElement, meantElement, meantOne
<1> HIDE DEF r
<1> QED BY <1>1, <1>2, TookKeeps

LEMMA ElementFailKeeps ==
    ASSUME JsonInv, ElementFail
    PROVE  JsonInv'
<1> DEFINE j == Len(top.list) + 1
<1>1. AtElement /\ Fail
    BY DEF ElementFail
<1>2. /\ err = "running" /\ top.field # NoField /\ top.field.repeated
      /\ FrameOK(top) /\ FieldOK(top) /\ ListOK(top)
      /\ top.field.name \in present(top.type, top.members)
      /\ j \in DOMAIN values(top) /\ elem = values(top)[j]
    BY <1>1, ElementIs
<1>3. ~meantElement(Reading, top.field, elem).ok
    <2>1. ~Malformed.ok
        BY DEF Malformed
    <2> QED BY <2>1 DEF ElementFail, meantElement, meantOne
<1>4. ~meant(top, top.field.name).ok
    BY <1>2, <1>3, BadElement
<1> QED BY <1>1, <1>2, <1>4, BadMember, FailKeeps

LEMMA EnterElementKeeps ==
    ASSUME JsonInv, EnterElement
    PROVE  JsonInv'
<1> DEFINE j == Len(top.list) + 1
           rest == Tail(top.todo)
           u == top.field.schema
           ms == elem[2]
           f == [top EXCEPT !.todo = rest]
           g == Frame(u, ms, <<>>)
<1>1. AtElement /\ Going /\ IsA("object", elem) /\ top.field.type = "message"
      /\ stack' = Append([stack EXCEPT ![Len(stack)] = f], g)
    BY DEF EnterElement, top
<1>2. /\ err = "running" /\ top.field # NoField /\ top.field.repeated
      /\ DOMAIN top = {"type", "members", "left", "msg", "field", "todo", "list"}
      /\ FrameOK(top) /\ FieldOK(top) /\ ListOK(top)
      /\ top.field = lookupName(top.type, top.field.name)
      /\ top.field.name \in present(top.type, top.members)
      /\ j \in DOMAIN values(top) /\ elem = values(top)[j]
      /\ elem \in JsonValue[Depth]
      /\ IsList(rest) /\ j + Len(rest) = Len(values(top)) /\ Len(rest) \in Nat
      /\ \A i \in DOMAIN rest : rest[i] = values(top)[Len(values(top)) - Len(rest) + i]
    BY <1>1, ElementIs
<1>3. u \in Type
    <2> DEFINE n == top.field.name
    <2>1. n \in present(top.type, top.members) /\ FrameOK(top) /\ top.field = lookupName(top.type, n)
        BY <1>2
    <2> HIDE DEF n
    <2>2. lookupName(top.type, n).type = "message" => lookupName(top.type, n).schema \in Type
        BY <2>1, PresentIs
    <2> QED BY <1>1, <2>1, <2>2
<1>4. ms \in Members(Depth)
    <2>1. Depth \in 0..Depth
        BY JsonAssumption
    <2> QED BY <1>1, <1>2, <2>1, ValueIs
<1>5. /\ DOMAIN f = DOMAIN top /\ f.type = top.type /\ f.members = top.members
      /\ f.left = top.left /\ f.msg = top.msg /\ f.field = top.field
      /\ f.todo = rest /\ f.list = top.list
    BY <1>2
<1>6. g.type = u /\ g.members = ms
    BY DEF Frame
<1> HIDE DEF f, g, rest, u, ms
<1>7. FrameOK(f) /\ FieldOK(f) /\ values(f) = values(top)
    BY <1>2, <1>5, SameFields
<1>8. Len(top.list) \in Nat /\ Len(values(top)) \in Nat
    BY <1>2, ValuesAre
<1>9. /\ Len(f.list) + Len(f.todo) + 1 = Len(values(f))
      /\ Len(f.list) + Len(f.todo) =< Len(values(f))
    <2>1. \A a, b, c \in Nat : a + 1 + b = c => a + b + 1 = c /\ a + b =< c
        OBVIOUS
    <2>2. Len(top.list) + Len(rest) + 1 = Len(values(top))
          /\ Len(top.list) + Len(rest) =< Len(values(top))
        BY <1>2, <1>8, <2>1
    <2> QED BY <1>5, <1>7, <2>2
<1>10. ListOK(f)
    <2>1. \A i \in DOMAIN f.list :
              LET r == meantElement(Reading, f.field, values(f)[i]) IN r.ok /\ f.list[i] = r.v
        BY <1>2, <1>5, <1>7 DEF ListOK
    <2>2. IsList(f.list)
        BY <1>2, <1>5 DEF ListOK
    <2>3. \A i \in DOMAIN f.todo : f.todo[i] = values(f)[Len(values(f)) - Len(f.todo) + i]
        BY <1>2, <1>5, <1>7
    <2> QED BY <1>2, <1>5, <1>9, <2>1, <2>2, <2>3 DEF ListOK
<1>11. inside(f) = elem
    BY <1>2, <1>5, <1>7 DEF inside
<1>12. CallOK(f, g)
    BY <1>1, <1>2, <1>5, <1>6, <1>9, <1>11 DEF CallOK, u, ms
<1> QED BY <1>1, <1>2, <1>3, <1>4, <1>5, <1>7, <1>10, <1>12, CallKeeps DEF g

\* A whole list is stored.
LEMMA EndListKeeps ==
    ASSUME JsonInv, EndList
    PROVE  JsonInv'
<1> DEFINE n == top.field.name
           f == [Put(top, n, top.list) EXCEPT !.field = NoField, !.list = <<>>]
<1>1. err = "running" /\ top.field # NoField /\ top.field.repeated /\ top.todo = <<>>
      /\ Going /\ Update(f)
    BY DEF EndList, InList
<1>2. FrameOK(top) /\ FieldOK(top) /\ ListOK(top) /\ TopOK(top)
      /\ DOMAIN top = {"type", "members", "left", "msg", "field", "todo", "list"}
    BY <1>1, RunningIs DEF FrameOK
<1>3. n \in present(top.type, top.members) \ top.left
    BY <1>1, <1>2 DEF FieldOK
<1> DEFINE s == values(top)
           E(j) == meantElement(Reading, top.field, s[j])
<1>4. /\ Len(s) \in Nat /\ DOMAIN s = 1..Len(s)
      /\ Len(top.list) \in Nat /\ DOMAIN top.list = 1..Len(top.list)
      /\ meant(top, n) = meantList(Reading, top.field, s)
    BY <1>1, <1>2, ValuesAre
<1>5. Len(top.list) = Len(s)
    <2>1. Len(top.list) + Len(top.todo) = Len(s) /\ Len(top.todo) = 0
        BY <1>1, <1>2 DEF TopOK
    <2> QED BY <1>4, <2>1
<1>6. \A j \in DOMAIN s : E(j).ok /\ top.list[j] = E(j).v
    BY <1>1, <1>2, <1>4, <1>5 DEF ListOK
<1>7. top.list = [j \in DOMAIN s |-> E(j).v]
    <2>1. top.list \in Seq({top.list[j] : j \in DOMAIN top.list})
        BY <1>1, <1>2 DEF ListOK, IsList
    <2>2. top.list = [j \in DOMAIN top.list |-> top.list[j]]
        BY <2>1, LenProperties
    <2> HIDE DEF E, s
    <2> QED BY <1>4, <1>5, <1>6, <2>2
<1>8. meant(top, n).ok /\ meant(top, n).v = top.list
    <2> DEFINE c == \A j \in DOMAIN s : E(j).ok
               l == [j \in DOMAIN s |-> E(j).v]
    <2>1. meant(top, n) = When(c, l)
        BY <1>4 DEF meantList
    <2>2. c /\ l = top.list
        BY <1>6, <1>7
    <2> HIDE DEF c, l
    <2> QED BY <2>1, <2>2, WhenIs
<1>9. /\ DOMAIN f = DOMAIN top /\ f.type = top.type /\ f.members = top.members
      /\ f.left = top.left /\ f.field = NoField /\ f.todo = <<>> /\ f.list = <<>>
      /\ f.msg = With(top.msg, n, top.list)
    BY <1>1, <1>2 DEF Put
<1> HIDE DEF f
<1>10. Done(f) = Done(top) \cup {n}
    BY <1>1, <1>3, <1>9 DEF Done
<1> HIDE DEF n
<1>11. FrameOK(f) /\ FieldOK(f) /\ ListOK(f) /\ TopOK(f)
    BY <1>2, <1>3, <1>8, <1>9, <1>10, StoreStep
<1> QED BY <1>1, <1>9, <1>11, UpdateKeeps

\* A call with nothing to come has the meaning of its object.
LEMMA CompleteIs ==
    ASSUME NEW f, FrameOK(f), f.field = NoField, f.left = {}
    PROVE  Reading[f.type][f.members].ok /\ Reading[f.type][f.members].v = f.msg
<1>1. f.type \in Type /\ f.members \in Members(Depth)
    BY DEF FrameOK
<1>2. Done(f) = present(f.type, f.members)
    BY DEF Done
<1>3. \A n \in present(f.type, f.members) : meant(f, n).ok
    BY <1>2 DEF FrameOK
<1>4. f.msg = [n \in present(f.type, f.members) |-> meant(f, n).v]
    BY <1>2 DEF FrameOK
<1>5. Reading[f.type][f.members].ok
    BY <1>1, <1>3, MessageIs DEF meant
<1>6. Reading[f.type][f.members].v = [n \in present(f.type, f.members) |-> meant(f, n).v]
    BY <1>1, <1>5, MessageIs DEF meant
<1> QED BY <1>4, <1>5, <1>6

LEMMA LeaveKeeps ==
    ASSUME JsonInv, LeaveMessage
    PROVE  JsonInv'
<1> DEFINE n == Len(stack) - 1
           f == stack[n]
           k == f.field.name
           more == [f EXCEPT !.list = Append(f.list, top.msg)]
           set == [Put(f, k, top.msg) EXCEPT !.field = NoField]
           done == IF f.field.repeated THEN more ELSE set
<1>1. err = "running" /\ Len(stack) > 1 /\ top.field = NoField /\ top.left = {} /\ Going
    BY DEF LeaveMessage
<1>2. /\ Running /\ Len(stack) \in Nat /\ DOMAIN stack = 1..Len(stack)
      /\ FrameOK(top) /\ n \in 1..(Len(stack) - 1) /\ n + 1 = Len(stack) /\ n - 1 = Len(stack) - 2
      /\ n \in DOMAIN stack
    BY <1>1, RunningIs
<1>3. stack' = Append(SubSeq(stack, 1, Len(stack) - 2), done)
    BY <1>2 DEF LeaveMessage
<1>4. FrameOK(f) /\ FieldOK(f) /\ ListOK(f)
    BY <1>2 DEF Running
<1>5. CallOK(f, top)
    <2>1. CallOK(stack[n], stack[n + 1])
        BY <1>2 DEF Running
    <2> QED BY <1>2, <2>1 DEF top
<1>6. Reading[top.type][top.members].ok /\ Reading[top.type][top.members].v = top.msg
    BY <1>1, <1>2, CompleteIs
<1>7. f.type = stack[Len(stack) - 1].type /\ f.members = stack[Len(stack) - 1].members
    OBVIOUS
<1> HIDE DEF n, f
<1>8. /\ f.field # NoField /\ f.field.type = "message" /\ top.type = f.field.schema
      /\ IsA("object", inside(f)) /\ top.members = inside(f)[2]
    BY <1>5 DEF CallOK
<1>9. k \in present(f.type, f.members) \ f.left /\ f.field = lookupName(f.type, k)
      /\ DOMAIN f = {"type", "members", "left", "msg", "field", "todo", "list"}
    BY <1>4, <1>8 DEF FieldOK, FrameOK
<1>10. meantOne(Reading, f.field, inside(f)) = Reading[top.type][top.members]
    BY <1>8 DEF meantOne
<1>11. ASSUME f.field.repeated
       PROVE  FrameOK(more) /\ FieldOK(more) /\ ListOK(more) /\ TopOK(more)
              /\ more.type = f.type /\ more.members = f.members
    <2> DEFINE j == Len(f.list) + 1
               s == values(f)
    <2>1. Len(f.list) + Len(f.todo) + 1 = Len(s)
        BY <1>5, <1>11 DEF CallOK
    <2>2. /\ Len(s) \in Nat /\ DOMAIN s = 1..Len(s)
          /\ Len(f.list) \in Nat /\ Len(f.todo) \in Nat
        BY <1>4, <1>8, <1>11, ValuesAre
    <2>3. inside(f) = s[j]
        BY <1>11 DEF inside
    <2>4. inside(f) # Null
        BY <1>8 DEF IsA, Null
    <2>5. meantElement(Reading, f.field, s[j]) = Reading[top.type][top.members]
        BY <1>10, <2>3, <2>4 DEF meantElement
    <2>6. \A a, b, c \in Nat : a + b + 1 = c => a + 1 \in 1..c /\ a + 1 + b = c
        OBVIOUS
    <2>7. j \in 1..Len(s) /\ j + Len(f.todo) = Len(s)
        <3> DEFINE a == Len(f.list)
                   b == Len(f.todo)
                   c == Len(s)
        <3>1. a \in Nat /\ b \in Nat /\ c \in Nat /\ a + b + 1 = c
            BY <2>1, <2>2
        <3> HIDE DEF a, b, c
        <3>2. a + 1 \in 1..c /\ a + 1 + b = c
            BY <2>6, <3>1
        <3> QED BY <3>2 DEF a, b, c
    <2>8. IsList(f.todo) /\ \A i \in DOMAIN f.todo : f.todo[i] = s[Len(s) - Len(f.todo) + i]
        BY <1>4, <1>8, <1>11 DEF ListOK
    <2>9. /\ DOMAIN more = DOMAIN f /\ more.type = f.type /\ more.members = f.members
          /\ more.left = f.left /\ more.msg = f.msg /\ more.field = f.field
          /\ more.todo = f.todo /\ more.list = Append(f.list, top.msg)
        BY <1>9
    <2> HIDE DEF more
    <2>10. FrameOK(more) /\ FieldOK(more) /\ ListOK(more) /\ TopOK(more)
        <3>1. /\ meantElement(Reading, f.field, s[j]).ok
              /\ more.list = Append(f.list, meantElement(Reading, f.field, s[j]).v)
              /\ j \in DOMAIN s /\ IsList(more.todo) /\ j + Len(more.todo) = Len(s)
              /\ \A i \in DOMAIN more.todo : more.todo[i] = s[Len(s) - Len(more.todo) + i]
            <4> HIDE DEF s, j
            <4> QED BY <1>6, <2>2, <2>5, <2>7, <2>8, <2>9
        <3> QED BY <1>4, <1>8, <1>11, <2>9, <3>1, ListStep
    <2> QED BY <2>9, <2>10
<1>12. ASSUME ~f.field.repeated
       PROVE  FrameOK(set) /\ FieldOK(set) /\ ListOK(set) /\ TopOK(set)
              /\ set.type = f.type /\ set.members = f.members
    <2>1. inside(f) = At(f.members, k)
        BY <1>12 DEF inside
    <2>2. meant(f, k) = Reading[top.type][top.members]
        BY <1>9, <1>10, <1>12, <2>1 DEF meant, meantField
    <2>3. f.todo = <<>> /\ f.list = <<>>
        BY <1>4, <1>12 DEF ListOK
    <2>4. /\ DOMAIN set = DOMAIN f /\ set.type = f.type /\ set.members = f.members
          /\ set.left = f.left /\ set.field = NoField /\ set.todo = <<>> /\ set.list = <<>>
          /\ set.msg = With(f.msg, k, top.msg)
        BY <1>9, <2>3 DEF Put
    <2> HIDE DEF set
    <2>5. Done(set) = Done(f) \cup {k}
        BY <1>8, <1>9, <2>4 DEF Done
    <2> HIDE DEF k
    <2>6. FrameOK(set) /\ FieldOK(set) /\ ListOK(set) /\ TopOK(set)
        BY <1>4, <1>6, <1>9, <2>2, <2>4, <2>5, StoreStep
    <2> QED BY <2>4, <2>6
<1> HIDE DEF more, set
<1>13. FrameOK(done) /\ FieldOK(done) /\ ListOK(done) /\ TopOK(done)
       /\ done.type = f.type /\ done.members = f.members
    BY <1>11, <1>12
<1> HIDE DEF done
<1> QED BY <1>1, <1>3, <1>7, <1>13, ReturnKeeps

\* The call is over when the first has nothing to come.
LEMMA FinishKeeps ==
    ASSUME JsonInv, Finish
    PROVE  JsonInv'
<1> DEFINE f == stack[1]
<1>1. /\ err = "running" /\ Len(stack) = 1 /\ top.field = NoField /\ top.left = {}
      /\ err' = "nil" /\ data' = data /\ stack' = stack /\ before' = before
    BY DEF Finish
<1>2. /\ FrameOK(f) /\ FieldOK(f) /\ ListOK(f) /\ f.members = data[1][2]
      /\ readErr = "nil" /\ IsA("object", data[1]) /\ top = f /\ DOMAIN stack = {1}
    BY <1>1, RunningIs DEF Running, top
<1>3. Reading[f.type][f.members].ok /\ Reading[f.type][f.members].v = f.msg
    BY <1>1, <1>2, CompleteIs
<1>4. Typed(f)
    BY <1>2, FrameTyped
<1> HIDE DEF f
<1>5. stack'[1] = f /\ type' = f.type /\ message' = f.msg /\ readErr' = "nil"
    BY <1>1, <1>2 DEF type, message, readErr, f
<1>6. OrderIsFree'
    <2> DEFINE r == Reading[type'][data'[1][2]]
    <2>1. IsA("object", data'[1]) /\ r = Reading[f.type][f.members]
        BY <1>1, <1>2, <1>5
    <2>2. err' = (IF r.ok THEN "nil" ELSE "ErrMalformedData") /\ message' = r.v
        BY <1>1, <1>3, <1>5, <2>1
    <2>3. data'[1] # Null
        BY <2>1 DEF IsA, Null
    <2> QED BY <2>1, <2>2, <2>3, Zenon DEF OrderIsFree
<1>7. WholeFields'
    <2>1. \A n \in DOMAIN f.msg :
              /\ n \in present(f.type, data[1][2])
              /\ LET r == meantField(Reading, lookupName(f.type, n), At(data[1][2], n))
                 IN  r.ok /\ f.msg[n] = r.v
        BY <1>2, FieldsRight DEF meant
    <2> QED BY <1>1, <1>5, <2>1 DEF WholeFields
<1> QED BY <1>1, <1>2, <1>4, <1>5, <1>6, <1>7 DEF JsonInv

LEMMA ReadFailKeeps ==
    ASSUME JsonInv, ReadFail
    PROVE  JsonInv'
<1>1. /\ err = "idle" /\ readErr # "nil" /\ err' = readErr
      /\ data' = data /\ before' = before /\ stack' = stack
    BY DEF ReadFail, Idle
<1>2. /\ Len(stack) = 1 /\ DOMAIN stack = {1} /\ Typed(stack[1])
      /\ stack = <<Frame(stack[1].type, <<>>, before)>> /\ data \in Text
    BY <1>1 DEF JsonInv
<1>3. readErr' = readErr /\ readErr \in {"ErrTruncated", "ErrMalformedData"}
    BY <1>1 DEF readErr
<1>4. message = before
    BY <1>2 DEF message, Frame
<1>5. message' = before'
    BY <1>1, <1>4 DEF message
<1>6. OrderIsFree' /\ WholeFields'
    BY <1>1, <1>3, <1>5 DEF OrderIsFree, WholeFields
<1> QED BY <1>1, <1>2, <1>3, <1>6 DEF JsonInv

LEMMA NotAnObjectKeeps ==
    ASSUME JsonInv, NotAnObject
    PROVE  JsonInv'
<1> DEFINE t == stack[1].type
           f == Frame(t, <<>>, <<>>)
<1>1. /\ err = "idle" /\ readErr = "nil" /\ ~IsA("object", data[1])
      /\ stack' = <<Frame(top.type, <<>>, <<>>)>>
      /\ err' = (IF data[1] = Null THEN "nil" ELSE "ErrMalformedData")
      /\ data' = data /\ before' = before
    BY DEF NotAnObject, Idle
<1>2. Len(stack) = 1 /\ Typed(stack[1]) /\ data \in Text
    BY <1>1 DEF JsonInv
<1>3. t \in Type /\ top.type = t
    BY <1>2 DEF Typed, top
<1>4. stack' = <<f>>
    BY <1>1, <1>3
<1>5. f.type = t /\ f.left = {} /\ f.members = <<>> /\ f.msg = <<>> /\ f.field = NoField
    BY DEF Frame, Keys
<1> HIDE DEF f, t
<1>6. Len(stack') = 1 /\ DOMAIN stack' = {1} /\ stack'[1] = f
    BY <1>4
<1>7. Typed(f)
    BY <1>3, <1>5 DEF Typed
<1>8. readErr' = "nil" /\ message' = <<>>
    BY <1>1, <1>5, <1>6 DEF readErr, message
<1>9. OrderIsFree'
    BY <1>1, <1>8, Zenon DEF OrderIsFree
<1>10. WholeFields'
    <2>1. DOMAIN message' = {}
        BY <1>8
    <2>2. err' # "idle"
        BY <1>1
    <2> QED BY <1>8, <2>1, <2>2 DEF WholeFields
<1>11. err' \in {"nil", "ErrMalformedData"}
    BY <1>1
<1> QED BY <1>1, <1>2, <1>6, <1>7, <1>9, <1>10, <1>11 DEF JsonInv

LEMMA StartKeeps ==
    ASSUME JsonInv, Start
    PROVE  JsonInv'
<1> DEFINE t == stack[1].type
           ms == data[1][2]
           g == Frame(t, ms, <<>>)
<1>1. /\ err = "idle" /\ readErr = "nil" /\ IsA("object", data[1])
      /\ stack' = <<Frame(top.type, data[1][2], <<>>)>>
      /\ err' = "running" /\ data' = data /\ before' = before
    BY DEF Start, Idle
<1>2. Len(stack) = 1 /\ Typed(stack[1]) /\ data \in Text
    BY <1>1 DEF JsonInv
<1>3. t \in Type /\ top.type = t
    BY <1>2 DEF Typed, top
<1>4. ms \in Members(Depth)
    <2>1. data # <<>> /\ data[1] # Bad
        BY <1>1 DEF readErr
    <2>2. data[1] \in JsonValue[Depth] \cup {Bad}
        BY <1>2, <2>1, HeadTailProperties, EmptySeq DEF Text
    <2>3. Depth \in 0..Depth
        BY JsonAssumption
    <2> QED BY <1>1, <2>1, <2>2, <2>3, ValueIs
<1>5. stack' = <<g>>
    BY <1>1, <1>3
<1> HIDE DEF t, ms
<1>6. FrameOK(g) /\ FieldOK(g) /\ ListOK(g) /\ TopOK(g) /\ g.members = ms
    BY <1>3, <1>4, FrameBegins
<1> HIDE DEF g
<1>7. Len(stack') = 1 /\ DOMAIN stack' = {1} /\ stack'[1] = g /\ top' = g /\ stack' # <<>>
    BY <1>5 DEF top
<1>8. IsList(stack')
    <2>1. stack' \in Seq({g})
        BY <1>5
    <2> QED BY <2>1, ListIs
<1>9. readErr' = "nil" /\ IsA("object", data'[1]) /\ stack'[1].members = data'[1][2]
    BY <1>1, <1>6, <1>7 DEF readErr, ms
<1>10. \A k \in DOMAIN stack' : FrameOK(stack'[k]) /\ FieldOK(stack'[k]) /\ ListOK(stack'[k])
    BY <1>6, <1>7
<1>11. 1..(Len(stack') - 1) = {}
    BY <1>7
<1>12. Running'
    BY <1>6, <1>7, <1>8, <1>9, <1>10, <1>11 DEF Running
<1> QED BY <1>1, <1>2, <1>12 DEF JsonInv

LEMMA InitKeeps ==
    ASSUME Init
    PROVE  JsonInv
<1>1. PICK input \in Input : /\ data = input.text /\ before = Before[input.type]
                             /\ stack = <<Frame(input.type, <<>>, before)>>
    BY DEF Init
<1> DEFINE t == input.type
           f == Frame(t, <<>>, before)
<1>2. t \in Type /\ data \in Text /\ err = "idle"
    BY <1>1, JsonAssumption DEF Init
<1>3. f.type = t /\ f.left = {} /\ f.members = <<>> /\ f.msg = before /\ f.field = NoField
    BY DEF Frame, Keys
<1>4. Typed(f)
    BY <1>1, <1>2, <1>3, BeforeAssumption DEF Typed
<1>5. stack = <<f>>
    BY <1>1
<1> HIDE DEF f, t
<1>6. Len(stack) = 1 /\ DOMAIN stack = {1} /\ stack[1] = f
    BY <1>5
<1>7. message = before
    BY <1>3, <1>6 DEF message
<1>8. OrderIsFree /\ WholeFields
    BY <1>2, <1>7 DEF OrderIsFree, WholeFields, Ended
<1>9. stack = <<Frame(stack[1].type, <<>>, before)>>
    BY <1>3, <1>5, <1>6 DEF f
<1> QED BY <1>2, <1>4, <1>6, <1>8, <1>9 DEF JsonInv

LEMMA StutterKeeps ==
    ASSUME JsonInv, UNCHANGED jsonVars
    PROVE  JsonInv'
<1>1. data' = data /\ stack' = stack /\ err' = err /\ before' = before
    BY DEF jsonVars
<1>2. readErr' = readErr /\ top' = top /\ type' = type /\ message' = message
    BY <1>1 DEF readErr, top, type, message
<1>3. Running' = Running
    BY <1>1, <1>2 DEF Running
<1>4. OrderIsFree' = OrderIsFree /\ WholeFields' = WholeFields
    BY <1>1, <1>2, Zenon DEF OrderIsFree, WholeFields, Ended
<1> QED BY <1>1, <1>3, <1>4 DEF JsonInv

LEMMA StepKeeps ==
    ASSUME JsonInv, [Decode]_jsonVars
    PROVE  JsonInv'
<1>1. ASSUME NEW k \in top.left, Member(k)
      PROVE  JsonInv'
    BY <1>1, SkipKeeps, UnsetKeeps, ScalarKeeps, ScalarFailKeeps, EnterMessageKeeps,
       EnterListKeeps, KindFailKeeps, Zenon DEF Member
<1>2. ASSUME Decode
      PROVE  JsonInv'
    BY <1>1, <1>2, ReadFailKeeps, NotAnObjectKeeps, StartKeeps, LeaveKeeps, NullElementKeeps,
       EnterElementKeeps, ScalarElementKeeps, ElementFailKeeps, EndListKeeps, FinishKeeps,
       Zenon DEF Decode
<1> QED BY <1>2, StutterKeeps

LEMMA InvTypeOK == JsonInv => TypeOK
<1> SUFFICES ASSUME JsonInv PROVE TypeOK
    OBVIOUS
<1>1. \A k \in DOMAIN stack : Typed(stack[k])
    <2>1. CASE err = "running"
        BY <2>1, FrameTyped DEF JsonInv, Running
    <2>2. CASE err # "running"
        BY <2>2 DEF JsonInv
    <2> QED BY <2>1, <2>2
<1>2. stack # <<>>
    <2>1. CASE err = "running"
        BY <2>1 DEF JsonInv, Running
    <2>2. CASE err # "running"
        BY <2>2 DEF JsonInv
    <2> QED BY <2>1, <2>2
<1>3. err \in {"idle", "running", "nil", "ErrTruncated", "ErrMalformedData"}
    BY DEF JsonInv
<1> QED BY <1>1, <1>2, <1>3 DEF TypeOK, Typed

LEMMA InvOrderIsFree == JsonInv => OrderIsFree
BY DEF JsonInv, OrderIsFree, Ended

LEMMA InvWholeFields == JsonInv => WholeFields
<1> SUFFICES ASSUME JsonInv PROVE WholeFields
    OBVIOUS
<1>1. CASE err = "running"
    <2>1. /\ FrameOK(stack[1]) /\ stack[1].members = data[1][2] /\ readErr = "nil"
        BY <1>1, RunningIs DEF Running
    <2>2. \A n \in DOMAIN message :
              /\ n \in present(type, data[1][2])
              /\ LET r == meantField(Reading, lookupName(type, n), At(data[1][2], n))
                 IN  r.ok /\ message[n] = r.v
        BY <2>1, FieldsRight DEF meant, message, type
    <2> QED BY <1>1, <2>1, <2>2 DEF WholeFields
<1>2. CASE err # "running"
    BY <1>2 DEF JsonInv
<1> QED BY <1>1, <1>2

-----------------------------------------------------------------------------
(* What is sent: the parts of a message, and the text and the meaning of each *)

\* The parts of a message down to level d, from a function f that has the level above.
WithinLevel(s, f, d) ==
    IF d = 0 THEN {s} ELSE LET all == f[d - 1] IN all \cup UNION {nested(p) : p \in all}

\* The parts that within defines by recursion.
LEMMA WithinIs ==
    ASSUME NEW s
    PROVE  /\ Depth \in Nat
           /\ \A d \in 0 .. Depth : within(s)[d] = WithinLevel(s, within(s), d)
<1> DEFINE P(f, n) == f = [d \in 0 .. n |-> WithinLevel(s, f, d)]
<1> DEFINE S == {n \in Nat : \E f : P(f, n)}
<1>1. 0 \in S
    <2>1. \A f, g : WithinLevel(s, f, 0) = WithinLevel(s, g, 0)
        BY DEF WithinLevel
    <2>2. P([d \in 0 .. 0 |-> WithinLevel(s, <<>>, 0)], 0)
        <3> DEFINE f == [d \in 0 .. 0 |-> WithinLevel(s, <<>>, 0)]
        <3>1. \A d \in 0 .. 0 : WithinLevel(s, <<>>, 0) = WithinLevel(s, f, d)
            BY <2>1
        <3> QED BY <3>1
    <2> HIDE DEF P
    <2> QED BY <2>2
<1>2. ASSUME NEW n \in Nat, n \in S
      PROVE  n + 1 \in S
    <2>1. PICK f : P(f, n)
        BY <1>2
    <2> DEFINE g == [d \in 0 .. n + 1 |-> IF d = n + 1 THEN WithinLevel(s, f, n + 1) ELSE f[d]]
    <2>2. ASSUME NEW d \in 0 .. n + 1
          PROVE  g[d] = WithinLevel(s, g, d)
        <3>1. d # 0 => d - 1 \in 0 .. n + 1 /\ d - 1 # n + 1
            OBVIOUS
        <3>2. WithinLevel(s, g, d) = WithinLevel(s, f, d)
            BY <3>1 DEF WithinLevel
        <3>3. CASE d = n + 1
            BY <3>2, <3>3
        <3>4. CASE d # n + 1
            <4>1. d \in 0 .. n
                BY <3>4
            <4> HIDE DEF P
            <4>2. f[d] = WithinLevel(s, f, d)
                BY <2>1, <4>1 DEF P
            <4> QED BY <3>2, <3>4, <4>2
        <3> QED BY <3>3, <3>4
    <2>3. P(g, n + 1)
        BY <2>2
    <2> HIDE DEF P, g
    <2> QED BY <2>3
<1> HIDE DEF P, S
<1>3. Depth \in Nat /\ Nat \subseteq S
    BY <1>1, <1>2, NatSetInduction, JsonAssumption
<1>4. \E f : P(f, Depth)
    BY <1>3 DEF S
<1>5. within(s) = CHOOSE f : P(f, Depth)
    BY DEF P, within, WithinLevel
<1>6. P(within(s), Depth)
    BY <1>4, <1>5, Zenon
<1> DEFINE w == within(s)
<1> HIDE DEF w
<1>7. \A d \in 0 .. Depth : w[d] = WithinLevel(s, w, d)
    BY <1>6, Zenon DEF P, w
<1> QED BY <1>3, <1>7 DEF w

\* The members for the first d fields of the schema.
MembersLevel(texts, s, f, d) ==
    IF d = 0 THEN <<>>
    ELSE LET fd == Fields[s.type][d]
         IN  IF fd.name \in DOMAIN s.msg
             THEN Append(f[d - 1], <<fd.name, appendJSONValue(texts, fd, s.msg[fd.name]).v>>)
             ELSE f[d - 1]

\* The members that the encoder's loop makes.
LEMMA MembersAre ==
    ASSUME NEW texts, NEW s, s.type \in Type
    PROVE  /\ Len(Fields[s.type]) \in Nat
           /\ \A d \in 0 .. Len(Fields[s.type]) : appendJSONMembers(texts, s)[d] = MembersLevel(texts, s, appendJSONMembers(texts, s), d)
<1> DEFINE P(f, n) == f = [d \in 0 .. n |-> MembersLevel(texts, s, f, d)]
<1> DEFINE S == {n \in Nat : \E f : P(f, n)}
<1>1. 0 \in S
    <2>1. \A f, g : MembersLevel(texts, s, f, 0) = MembersLevel(texts, s, g, 0)
        BY DEF MembersLevel
    <2>2. P([d \in 0 .. 0 |-> MembersLevel(texts, s, <<>>, 0)], 0)
        <3> DEFINE f == [d \in 0 .. 0 |-> MembersLevel(texts, s, <<>>, 0)]
        <3>1. \A d \in 0 .. 0 : MembersLevel(texts, s, <<>>, 0) = MembersLevel(texts, s, f, d)
            BY <2>1
        <3> QED BY <3>1
    <2> HIDE DEF P
    <2> QED BY <2>2
<1>2. ASSUME NEW n \in Nat, n \in S
      PROVE  n + 1 \in S
    <2>1. PICK f : P(f, n)
        BY <1>2
    <2> DEFINE g == [d \in 0 .. n + 1 |-> IF d = n + 1 THEN MembersLevel(texts, s, f, n + 1) ELSE f[d]]
    <2>2. ASSUME NEW d \in 0 .. n + 1
          PROVE  g[d] = MembersLevel(texts, s, g, d)
        <3>1. d # 0 => d - 1 \in 0 .. n + 1 /\ d - 1 # n + 1
            OBVIOUS
        <3>2. MembersLevel(texts, s, g, d) = MembersLevel(texts, s, f, d)
            BY <3>1 DEF MembersLevel
        <3>3. CASE d = n + 1
            BY <3>2, <3>3
        <3>4. CASE d # n + 1
            <4>1. d \in 0 .. n
                BY <3>4
            <4> HIDE DEF P
            <4>2. f[d] = MembersLevel(texts, s, f, d)
                BY <2>1, <4>1 DEF P
            <4> QED BY <3>2, <3>4, <4>2
        <3> QED BY <3>3, <3>4
    <2>3. P(g, n + 1)
        BY <2>2
    <2> HIDE DEF P, g
    <2> QED BY <2>3
<1> HIDE DEF P, S
<1>3. Len(Fields[s.type]) \in Nat /\ Nat \subseteq S
    BY <1>1, <1>2, NatSetInduction, JsonAssumption, LenProperties
<1>4. \E f : P(f, Len(Fields[s.type]))
    BY <1>3 DEF S
<1>5. appendJSONMembers(texts, s) = CHOOSE f : P(f, Len(Fields[s.type]))
    BY DEF P, appendJSONMembers, MembersLevel
<1>6. P(appendJSONMembers(texts, s), Len(Fields[s.type]))
    BY <1>4, <1>5, Zenon
<1> DEFINE w == appendJSONMembers(texts, s)
<1> HIDE DEF w
<1>7. \A d \in 0 .. Len(Fields[s.type]) : w[d] = MembersLevel(texts, s, w, d)
    BY <1>6, Zenon DEF P, w
<1> QED BY <1>3, <1>7 DEF w

\* The texts of the parts that nest messages d deep.
TextsLevel(s, f, d) ==
    [p \in parts(s) |-> appendJSONObject(IF d = 0 THEN <<>> ELSE f[d - 1], p)]

\* The texts of the parts.
LEMMA TextsAre ==
    ASSUME NEW s
    PROVE  /\ Depth \in Nat
           /\ \A d \in 0 .. Depth : jsonTexts(s)[d] = TextsLevel(s, jsonTexts(s), d)
<1> DEFINE P(f, n) == f = [d \in 0 .. n |-> TextsLevel(s, f, d)]
<1> DEFINE S == {n \in Nat : \E f : P(f, n)}
<1>1. 0 \in S
    <2>1. \A f, g : TextsLevel(s, f, 0) = TextsLevel(s, g, 0)
        BY DEF TextsLevel
    <2>2. P([d \in 0 .. 0 |-> TextsLevel(s, <<>>, 0)], 0)
        <3> DEFINE f == [d \in 0 .. 0 |-> TextsLevel(s, <<>>, 0)]
        <3>1. \A d \in 0 .. 0 : TextsLevel(s, <<>>, 0) = TextsLevel(s, f, d)
            BY <2>1
        <3> QED BY <3>1
    <2> HIDE DEF P
    <2> QED BY <2>2
<1>2. ASSUME NEW n \in Nat, n \in S
      PROVE  n + 1 \in S
    <2>1. PICK f : P(f, n)
        BY <1>2
    <2> DEFINE g == [d \in 0 .. n + 1 |-> IF d = n + 1 THEN TextsLevel(s, f, n + 1) ELSE f[d]]
    <2>2. ASSUME NEW d \in 0 .. n + 1
          PROVE  g[d] = TextsLevel(s, g, d)
        <3>1. d # 0 => d - 1 \in 0 .. n + 1 /\ d - 1 # n + 1
            OBVIOUS
        <3>2. TextsLevel(s, g, d) = TextsLevel(s, f, d)
            BY <3>1 DEF TextsLevel
        <3>3. CASE d = n + 1
            BY <3>2, <3>3
        <3>4. CASE d # n + 1
            <4>1. d \in 0 .. n
                BY <3>4
            <4> HIDE DEF P
            <4>2. f[d] = TextsLevel(s, f, d)
                BY <2>1, <4>1 DEF P
            <4> QED BY <3>2, <3>4, <4>2
        <3> QED BY <3>3, <3>4
    <2>3. P(g, n + 1)
        BY <2>2
    <2> HIDE DEF P, g
    <2> QED BY <2>3
<1> HIDE DEF P, S
<1>3. Depth \in Nat /\ Nat \subseteq S
    BY <1>1, <1>2, NatSetInduction, JsonAssumption
<1>4. \E f : P(f, Depth)
    BY <1>3 DEF S
<1>5. jsonTexts(s) = CHOOSE f : P(f, Depth)
    BY DEF P, jsonTexts, TextsLevel
<1>6. P(jsonTexts(s), Depth)
    BY <1>4, <1>5, Zenon
<1> DEFINE w == jsonTexts(s)
<1> HIDE DEF w
<1>7. \A d \in 0 .. Depth : w[d] = TextsLevel(s, w, d)
    BY <1>6, Zenon DEF P, w
<1> QED BY <1>3, <1>7 DEF w

\* What a receiver has of the parts that nest messages d deep.
ReceivedLevel(s, f, d) ==
    [p \in parts(s) |-> [t \in Type |-> receivedMessage(IF d = 0 THEN <<>> ELSE f[d - 1], p, t)]]

\* What the receiver has of the parts.
LEMMA ReceivedAre ==
    ASSUME NEW s
    PROVE  /\ Depth \in Nat
           /\ \A d \in 0 .. Depth : receivedParts(s)[d] = ReceivedLevel(s, receivedParts(s), d)
<1> DEFINE P(f, n) == f = [d \in 0 .. n |-> ReceivedLevel(s, f, d)]
<1> DEFINE S == {n \in Nat : \E f : P(f, n)}
<1>1. 0 \in S
    <2>1. \A f, g : ReceivedLevel(s, f, 0) = ReceivedLevel(s, g, 0)
        BY DEF ReceivedLevel
    <2>2. P([d \in 0 .. 0 |-> ReceivedLevel(s, <<>>, 0)], 0)
        <3> DEFINE f == [d \in 0 .. 0 |-> ReceivedLevel(s, <<>>, 0)]
        <3>1. \A d \in 0 .. 0 : ReceivedLevel(s, <<>>, 0) = ReceivedLevel(s, f, d)
            BY <2>1
        <3> QED BY <3>1
    <2> HIDE DEF P
    <2> QED BY <2>2
<1>2. ASSUME NEW n \in Nat, n \in S
      PROVE  n + 1 \in S
    <2>1. PICK f : P(f, n)
        BY <1>2
    <2> DEFINE g == [d \in 0 .. n + 1 |-> IF d = n + 1 THEN ReceivedLevel(s, f, n + 1) ELSE f[d]]
    <2>2. ASSUME NEW d \in 0 .. n + 1
          PROVE  g[d] = ReceivedLevel(s, g, d)
        <3>1. d # 0 => d - 1 \in 0 .. n + 1 /\ d - 1 # n + 1
            OBVIOUS
        <3>2. ReceivedLevel(s, g, d) = ReceivedLevel(s, f, d)
            BY <3>1 DEF ReceivedLevel
        <3>3. CASE d = n + 1
            BY <3>2, <3>3
        <3>4. CASE d # n + 1
            <4>1. d \in 0 .. n
                BY <3>4
            <4> HIDE DEF P
            <4>2. f[d] = ReceivedLevel(s, f, d)
                BY <2>1, <4>1 DEF P
            <4> QED BY <3>2, <3>4, <4>2
        <3> QED BY <3>3, <3>4
    <2>3. P(g, n + 1)
        BY <2>2
    <2> HIDE DEF P, g
    <2> QED BY <2>3
<1> HIDE DEF P, S
<1>3. Depth \in Nat /\ Nat \subseteq S
    BY <1>1, <1>2, NatSetInduction, JsonAssumption
<1>4. \E f : P(f, Depth)
    BY <1>3 DEF S
<1>5. receivedParts(s) = CHOOSE f : P(f, Depth)
    BY DEF P, receivedParts, ReceivedLevel
<1>6. P(receivedParts(s), Depth)
    BY <1>4, <1>5, Zenon
<1> DEFINE w == receivedParts(s)
<1> HIDE DEF w
<1>7. \A d \in 0 .. Depth : w[d] = ReceivedLevel(s, w, d)
    BY <1>6, Zenon DEF P, w
<1> QED BY <1>3, <1>7 DEF w

-----------------------------------------------------------------------------
(* The parts of a message *)

\* How deep a schema nests others.
Nesting == CHOOSE depth \in [Type -> 0 .. Depth \div 2 - 1] : \A t \in Type : \A j \in DOMAIN Fields[t] :
    Fields[t][j].type = "message" => depth[Fields[t][j].schema] < depth[t]

LEMMA NestingIs ==
    /\ \A t \in Type : Nesting[t] \in Nat /\ 2 * Nesting[t] + 2 =< Depth
    /\ \A t \in Type : \A n \in Names(t) : lookupName(t, n).type = "message" =>
           lookupName(t, n).schema \in Type /\ Nesting[lookupName(t, n).schema] < Nesting[t]
<1> DEFINE IsNesting(depth) == \A t \in Type : \A j \in DOMAIN Fields[t] :
               Fields[t][j].type = "message" => depth[Fields[t][j].schema] < depth[t]
<1>1. Nesting \in [Type -> 0 .. Depth \div 2 - 1] /\ IsNesting(Nesting)
    <2>1. \E depth \in [Type -> 0 .. Depth \div 2 - 1] : IsNesting(depth)
        BY NestingAssumption
    <2>2. Nesting = CHOOSE depth \in [Type -> 0 .. Depth \div 2 - 1] : IsNesting(depth)
        BY DEF Nesting
    <2> HIDE DEF IsNesting
    <2> QED BY <2>1, <2>2
<1>2. ASSUME NEW t \in Type
      PROVE  Nesting[t] \in Nat /\ 2 * Nesting[t] + 2 =< Depth
    <2>1. Nesting[t] \in 0 .. Depth \div 2 - 1
        BY <1>1
    <2>2. Depth \in Nat
        BY JsonAssumption
    <2> QED BY <2>1, <2>2
<1>3. ASSUME NEW t \in Type, NEW n \in Names(t), lookupName(t, n).type = "message"
      PROVE  lookupName(t, n).schema \in Type /\ Nesting[lookupName(t, n).schema] < Nesting[t]
    <2>1. PICK j \in DOMAIN Fields[t] : lookupName(t, n) = Fields[t][j]
        BY DEF Names, lookupName
    <2> QED BY <1>1, <1>3, <2>1, LookupIs
<1> QED BY <1>2, <1>3

\* A message that another holds is of a schema that is nested in its schema.
LEMMA NestedIs ==
    ASSUME NEW p, IsMessage(p), NEW q \in nested(p)
    PROVE  /\ q.type \in Type /\ Nesting[q.type] < Nesting[p.type]
           /\ q = Msg(q.type, q.msg) /\ q.msg # NoMessage
<1>1. PICK n \in DOMAIN p.msg : \E v \in held(lookupName(p.type, n), p.msg[n]) :
          /\ lookupName(p.type, n).type = "message" /\ v # NoMessage
          /\ q = Msg(lookupName(p.type, n).schema, v)
    BY DEF nested
<1>2. PICK v \in held(lookupName(p.type, n), p.msg[n]) :
          /\ lookupName(p.type, n).type = "message" /\ v # NoMessage
          /\ q = Msg(lookupName(p.type, n).schema, v)
    BY <1>1
<1>3. p.type \in Type /\ n \in Names(p.type)
    BY DEF IsMessage
<1>4. q.type = lookupName(p.type, n).schema /\ q.msg = v
    BY <1>2 DEF Msg
<1> QED BY <1>2, <1>3, <1>4, NestingIs

\* The messages that a field holds are nested in the message.
LEMMA HeldIsNested ==
    ASSUME NEW p, NEW n \in DOMAIN p.msg, lookupName(p.type, n).type = "message",
           NEW v \in held(lookupName(p.type, n), p.msg[n]), v # NoMessage
    PROVE  Msg(lookupName(p.type, n).schema, v) \in nested(p)
BY DEF nested

LEMMA WithinGrows ==
    ASSUME NEW s
    PROVE  /\ within(s)[0] = {s}
           /\ \A d \in Nat : d + 1 =< Depth =>
                  within(s)[d + 1] = within(s)[d] \cup UNION {nested(p) : p \in within(s)[d]}
           /\ \A i, j \in 0 .. Depth : i =< j => within(s)[i] \subseteq within(s)[j]
<1> DEFINE w == within(s)
<1>0. Depth \in Nat
    BY JsonAssumption
<1>1. \A d \in 0 .. Depth : w[d] = WithinLevel(s, w, d)
    BY WithinIs
<1> HIDE DEF w
<1>2. w[0] = {s}
    <2>1. 0 \in 0 .. Depth
        BY <1>0
    <2>2. WithinLevel(s, w, 0) = {s}
        BY DEF WithinLevel
    <2> QED BY <1>1, <2>1, <2>2
<1>3. ASSUME NEW d \in Nat, d + 1 =< Depth
      PROVE  w[d + 1] = w[d] \cup UNION {nested(p) : p \in w[d]}
    <2>1. d + 1 \in 0 .. Depth /\ d + 1 # 0 /\ (d + 1) - 1 = d
        BY <1>0, <1>3
    <2> QED BY <1>1, <2>1 DEF WithinLevel
<1> DEFINE S == {j \in Nat : j =< Depth => \A i \in 0 .. j : w[i] \subseteq w[j]}
<1>4. 0 \in S
    OBVIOUS
<1>5. ASSUME NEW j \in Nat, j \in S
      PROVE  j + 1 \in S
    <2> SUFFICES ASSUME j + 1 =< Depth, NEW i \in 0 .. j + 1
                 PROVE  w[i] \subseteq w[j + 1]
        OBVIOUS
    <2>1. w[j] \subseteq w[j + 1]
        BY <1>3
    <2>2. i = j + 1 \/ i \in 0 .. j
        OBVIOUS
    <2>3. j =< Depth
        BY <1>0
    <2> QED BY <1>5, <2>1, <2>2, <2>3
<1> HIDE DEF S
<1>6. Nat \subseteq S
    BY <1>4, <1>5, NatSetInduction
<1>7. ASSUME NEW i \in 0 .. Depth, NEW j \in 0 .. Depth, i =< j
      PROVE  w[i] \subseteq w[j]
    BY <1>0, <1>6, <1>7 DEF S
<1> QED BY <1>2, <1>3, <1>7 DEF w

\* What has the message, and with a message those in it, has all its parts.
LEMMA PartsIn ==
    ASSUME NEW s, NEW G, s \in G, \A p \in G : nested(p) \subseteq G
    PROVE  parts(s) \subseteq G
<1> DEFINE S == {d \in Nat : d =< Depth => within(s)[d] \subseteq G}
<1>0. Depth \in Nat
    BY JsonAssumption
<1>1. 0 \in S
    BY WithinGrows
<1>2. ASSUME NEW d \in Nat, d \in S
      PROVE  d + 1 \in S
    <2> SUFFICES ASSUME d + 1 =< Depth
                 PROVE  within(s)[d + 1] \subseteq G
        OBVIOUS
    <2>1. within(s)[d + 1] = within(s)[d] \cup UNION {nested(p) : p \in within(s)[d]}
        BY WithinGrows
    <2>2. d =< Depth
        BY <1>0
    <2> QED BY <1>2, <2>1, <2>2
<1> HIDE DEF S
<1>3. Depth \in S
    BY <1>0, <1>1, <1>2, NatSetInduction
<1> QED BY <1>0, <1>3 DEF S, parts

\* The parts of a message have with a message those in it.
LEMMA PartsClose ==
    ASSUME NEW s, \A p \in parts(s) : IsMessage(p)
    PROVE  /\ s \in parts(s)
           /\ \A p \in parts(s) : nested(p) \subseteq parts(s)
<1> DEFINE w == within(s)
<1> DEFINE S == {i \in Nat : i =< Depth => \A p \in w[i] : p \in w[Depth - Nesting[p.type]]}
<1>0. Depth \in Nat /\ parts(s) = w[Depth]
    BY JsonAssumption DEF parts
<1>1. /\ w[0] = {s}
      /\ \A d \in Nat : d + 1 =< Depth => w[d + 1] = w[d] \cup UNION {nested(p) : p \in w[d]}
      /\ \A i, j \in 0 .. Depth : i =< j => w[i] \subseteq w[j]
    BY WithinGrows
<1>2. \A i \in 0 .. Depth : \A p \in w[i] :
          /\ IsMessage(p) /\ p.type \in Type
          /\ Depth - Nesting[p.type] \in 0 .. Depth
    <2> TAKE i \in 0 .. Depth
    <2> TAKE p \in w[i]
    <2>1. p \in w[Depth]
        BY <1>0, <1>1
    <2>2. IsMessage(p) /\ p.type \in Type
        BY <1>0, <2>1 DEF IsMessage
    <2>3. Nesting[p.type] \in Nat /\ 2 * Nesting[p.type] + 2 =< Depth
        BY <2>2, NestingIs
    <2> QED BY <1>0, <2>2, <2>3
<1>3. ASSUME NEW i \in 0 .. Depth, NEW p \in w[i], p \in w[Depth - Nesting[p.type]], NEW q \in nested(p)
      PROVE  q \in w[Depth] /\ q \in w[Depth - Nesting[q.type]]
    <2>1. IsMessage(p) /\ p.type \in Type /\ Depth - Nesting[p.type] \in 0 .. Depth
        BY <1>2
    <2>2. q.type \in Type /\ Nesting[q.type] < Nesting[p.type]
        BY <2>1, NestedIs
    <2>3. Nesting[q.type] \in Nat /\ Nesting[p.type] \in Nat
        BY <2>1, <2>2, NestingIs
    <2> DEFINE d == Depth - Nesting[p.type]
    <2>4. d \in Nat /\ d + 1 =< Depth /\ d + 1 \in 0 .. Depth /\ Depth - Nesting[q.type] \in 0 .. Depth
          /\ d + 1 =< Depth - Nesting[q.type]
        BY <1>0, <2>1, <2>2, <2>3
    <2>5. q \in w[d + 1]
        <3> HIDE DEF w
        <3>1. p \in w[d]
            BY <1>3
        <3> HIDE DEF d
        <3>2. w[d + 1] = w[d] \cup UNION {nested(x) : x \in w[d]}
            BY <1>1, <2>4
        <3> QED BY <3>1, <3>2
    <2> HIDE DEF w, d
    <2> QED BY <1>0, <1>1, <2>4, <2>5
<1> HIDE DEF w
<1>4. 0 \in S
    <2>1. \A p \in w[0] : p \in w[Depth - Nesting[p.type]]
        BY <1>0, <1>1, <1>2
    <2> QED BY <2>1
<1>5. ASSUME NEW i \in Nat, i \in S
      PROVE  i + 1 \in S
    <2> SUFFICES ASSUME i + 1 =< Depth, NEW q \in w[i + 1]
                 PROVE  q \in w[Depth - Nesting[q.type]]
        OBVIOUS
    <2>1. i \in 0 .. Depth /\ i =< Depth
        BY <1>0
    <2>2. q \in w[i] \/ \E p \in w[i] : q \in nested(p)
        BY <1>1
    <2> QED BY <1>3, <1>5, <2>1, <2>2
<1> HIDE DEF S
<1>6. \A p \in w[Depth] : p \in w[Depth - Nesting[p.type]]
    <2>1. Depth \in S
        BY <1>0, <1>4, <1>5, NatSetInduction
    <2> QED BY <1>0, <2>1 DEF S
<1>7. s \in w[Depth]
    BY <1>0, <1>1
<1> QED BY <1>0, <1>3, <1>6, <1>7

-----------------------------------------------------------------------------
(* The text of a scalar *)

\* What a receiver has of a scalar.
receivedScalar(ft, v) == IF ft = "string" THEN Utf8[v] ELSE v

\* A number that is written from halves is read as these.
LEMMA LeafIs ==
    /\ \A v \in Leaf : v \in {Null} \/ v[1] # "null"
    /\ \A b \in BOOLEAN : Bool(b) \in Leaf /\ Bool(b) # Null /\ IsA("bool", Bool(b)) /\ Bool(b)[2] = b
    /\ \A s \in Str : String(s) \in Leaf /\ String(s) # Null /\ IsA("string", String(s)) /\ String(s)[2] = s
    /\ \A h \in Int, m, d \in BOOLEAN :
           LET n == Number(h, m, d)
           IN  /\ n \in Leaf /\ n # Null /\ IsA("number", n)
               /\ n[2].h = h /\ n[2].minus = m /\ n[2].digits = d
BY DEF Leaf, Null, Bool, String, Number, IsA

LEMMA IntText ==
    ASSUME NEW w \in Width, NEW v \in Int
    PROVE  LET n == Number(2 * v, v < 0, TRUE)
           IN  /\ n \in Leaf /\ n # Null /\ IsA("number", n)
               /\ v \in IntOf(w) => ParseInt(n[2], w) = Value(v)
               /\ v \in UintOf(w) => ParseUint(n[2], w) = Value(v)
<1> DEFINE n == Number(2 * v, v < 0, TRUE)
<1>1. 2 * v \in Int /\ (v < 0) \in BOOLEAN /\ (2 * v) \div 2 = v
    OBVIOUS
<1>2. /\ n \in Leaf /\ n # Null /\ IsA("number", n)
      /\ n[2].h = 2 * v /\ n[2].minus = (v < 0) /\ n[2].digits = TRUE
    BY <1>1, LeafIs
<1> HIDE DEF n
<1>3. v \in IntOf(w) => ParseInt(n[2], w) = Value(v)
    BY <1>1, <1>2 DEF ParseInt, When
<1>4. v \in UintOf(w) => ~(v < 0)
    BY NumbersAssumption, TwoToGrows DEF UintOf, MaxUint
<1>5. v \in UintOf(w) => ParseUint(n[2], w) = Value(v)
    BY <1>1, <1>2, <1>4 DEF ParseUint, When
<1> QED BY <1>2, <1>3, <1>5 DEF n

LEMMA FloatText ==
    ASSUME NEW w \in Width, NEW v \in FloatOf[w]
    PROVE  /\ appendJSONFloat(v).ok <=> IsFinite(v)
           /\ IsFinite(v) => LET n == appendJSONFloat(v).v
                             IN  /\ n \in Leaf /\ n # Null /\ IsA("number", n)
                                 /\ ParseFloat(n[2], w) = Value(v)
<1>1. appendJSONFloat(v).ok <=> IsFinite(v)
    BY DEF appendJSONFloat, Value, Malformed
<1>2. ASSUME IsFinite(v)
      PROVE  LET n == appendJSONFloat(v).v
             IN  /\ n \in Leaf /\ n # Null /\ IsA("number", n)
                 /\ ParseFloat(n[2], w) = Value(v)
    <2>1. \A x \in {Inf(1), Inf(-1), NaN} : ~IsFinite(x)
        BY DEF IsFinite, Inf, NaN
    <2>2. PICK h \in -Largest[w]..Largest[w] : v = Finite(h) /\ Rounded(h, w) = Finite(h)
        BY <1>2, <2>1 DEF FloatOf
    <2>3. h \in Int
        OBVIOUS
    <2>4. v[2] = h
        BY <2>2 DEF Finite
    <2> DEFINE n == Number(h, h < 0, h % 2 = 0)
    <2>5. appendJSONFloat(v).v = n
        BY <1>2, <2>4 DEF appendJSONFloat, Value
    <2>6. n \in Leaf /\ n # Null /\ IsA("number", n) /\ n[2].h = h
        <3> DEFINE minus == h < 0
                   digits == h % 2 = 0
        <3>1. minus \in BOOLEAN /\ digits \in BOOLEAN
            OBVIOUS
        <3> HIDE DEF minus, digits
        <3>2. LET x == Number(h, minus, digits)
              IN  x \in Leaf /\ x # Null /\ IsA("number", x) /\ x[2].h = h
            BY <2>3, <3>1, LeafIs
        <3> QED BY <3>2 DEF minus, digits
    <2> HIDE DEF n
    <2>7. ParseFloat(n[2], w) = Value(v)
        BY <1>2, <2>2, <2>6 DEF ParseFloat, When
    <2> QED BY <2>5, <2>6, <2>7
<1> QED BY <1>1, <1>2

\* A scalar that is encoded is decoded, and a finite one can be encoded.
LEMMA ScalarText ==
    ASSUME NEW f \in FieldSchema, f.type # "message", NEW v, HoldsOne(f, v)
    PROVE  LET x == appendJSONScalar(f.type, v)
           IN  /\ FitsOne(f, v) => x.ok
               /\ x.ok => /\ x.v \in Leaf /\ x.v # Null
                          /\ decodeJSONScalar(f.type, x.v) = Value(receivedScalar(f.type, v))
<1> DEFINE ft == f.type
           x == appendJSONScalar(ft, v)
           r == decodeJSONScalar(ft, x.v)
<1>1. ft \in FieldType /\ 32 \in Width /\ 64 \in Width
    BY DEF FieldSchema, Width
<1>2. \A y : Value(y).ok /\ Value(y).v = y
    BY DEF Value
<1>3. CASE ft \in {"int32", "int64", "uint32", "uint64"}
    <2> DEFINE n == Number(2 * v, v < 0, TRUE)
    <2>1. x = Value(n)
        BY <1>3 DEF appendJSONScalar
    <2>2. FitsOne(f, v)
        BY <1>3 DEF HoldsOne
    <2>3. /\ ft = "int32" => v \in IntOf(32)
          /\ ft = "int64" => v \in IntOf(64)
          /\ ft = "uint32" => v \in UintOf(32)
          /\ ft = "uint64" => v \in UintOf(64)
        BY <2>2 DEF FitsOne
    <2>4. \A w \in Width : IntOf(w) \subseteq Int /\ UintOf(w) \subseteq Int
        BY DEF IntOf, UintOf
    <2>5. v \in Int
        BY <1>1, <1>3, <2>3, <2>4
    <2>6. /\ n \in Leaf /\ n # Null /\ IsA("number", n)
          /\ ft = "int32" => ParseInt(n[2], 32) = Value(v)
          /\ ft = "int64" => ParseInt(n[2], 64) = Value(v)
          /\ ft = "uint32" => ParseUint(n[2], 32) = Value(v)
          /\ ft = "uint64" => ParseUint(n[2], 64) = Value(v)
        BY <1>1, <2>3, <2>5, IntText
    <2> HIDE DEF n, x
    <2>7. x.ok /\ x.v = n
        BY <1>2, <2>1
    <2>8. decodeJSONScalar(ft, n) = Value(v)
        <3> HIDE DEF ft
        <3>1. CASE ft = "int32"
            BY <2>6, <3>1 DEF decodeJSONScalar
        <3>2. CASE ft = "int64"
            BY <2>6, <3>2 DEF decodeJSONScalar
        <3>3. CASE ft = "uint32"
            BY <2>6, <3>3 DEF decodeJSONScalar
        <3>4. CASE ft = "uint64"
            BY <2>6, <3>4 DEF decodeJSONScalar
        <3> QED BY <1>3, <3>1, <3>2, <3>3, <3>4
    <2> QED BY <1>3, <2>6, <2>7, <2>8 DEF x, receivedScalar
<1>4. CASE ft \in {"float", "double"}
    <2> DEFINE w == IF ft = "float" THEN 32 ELSE 64
    <2>1. v \in FloatOf[w]
        BY <1>4 DEF HoldsOne
    <2>2. FitsOne(f, v) => IsFinite(v)
        BY <1>4 DEF FitsOne
    <2>3. x = appendJSONFloat(v)
        BY <1>4 DEF appendJSONScalar
    <2>4. w \in Width
        BY <1>1
    <2>5. /\ x.ok <=> IsFinite(v)
          /\ x.ok => x.v \in Leaf /\ x.v # Null /\ IsA("number", x.v) /\ ParseFloat(x.v[2], w) = Value(v)
        BY <2>1, <2>3, <2>4, FloatText
    <2> HIDE DEF x
    <2>6. IsA("number", x.v) => decodeJSONScalar(ft, x.v) = ParseFloat(x.v[2], w)
        BY <1>4 DEF decodeJSONScalar
    <2> QED BY <1>4, <2>2, <2>5, <2>6 DEF x, receivedScalar
<1>5. CASE ft = "bool"
    <2>1. v \in BOOLEAN
        BY <1>5 DEF HoldsOne, FitsOne
    <2>2. x = Value(Bool(v))
        BY <1>5 DEF appendJSONScalar
    <2>3. Bool(v) \in Leaf /\ Bool(v) # Null /\ IsA("bool", Bool(v)) /\ Bool(v)[2] = v
        BY <2>1, LeafIs
    <2> HIDE DEF x
    <2>4. x.ok /\ x.v = Bool(v)
        BY <1>2, <2>2
    <2>5. decodeJSONScalar(ft, Bool(v)) = Value(v)
        BY <1>5, <2>3 DEF decodeJSONScalar
    <2> QED BY <1>5, <2>3, <2>4, <2>5 DEF x, receivedScalar
<1>6. CASE ft = "string"
    <2>1. v \in DOMAIN Utf8
        BY <1>6 DEF HoldsOne
    <2>2. x = Value(String(Utf8[v]))
        BY <1>6 DEF appendJSONScalar
    <2> DEFINE s == Utf8[v]
    <2>3. s \in Str
        BY <2>1, JsonWireAssumption
    <2> HIDE DEF s
    <2>4. String(s) \in Leaf /\ String(s) # Null /\ IsA("string", String(s)) /\ String(s)[2] = s
        BY <2>3, LeafIs
    <2>5. x.ok /\ x.v = String(s)
        BY <1>2, <2>2 DEF s
    <2> HIDE DEF x
    <2>6. decodeJSONScalar(ft, String(s)) = Value(s)
        BY <1>6, <2>4 DEF decodeJSONScalar
    <2> QED BY <1>6, <2>4, <2>5, <2>6 DEF x, receivedScalar, s
<1>7. CASE ft = "bytes"
    <2>1. v \in DOMAIN ToBase64
        BY <1>7 DEF HoldsOne
    <2>2. x = Value(String(ToBase64[v]))
        BY <1>7 DEF appendJSONScalar
    <2> DEFINE s == ToBase64[v]
    <2>3. s \in Str /\ s \in DOMAIN FromBase64 /\ FromBase64[s] = v
        BY <2>1, JsonWireAssumption
    <2> HIDE DEF s
    <2>4. String(s) \in Leaf /\ String(s) # Null /\ IsA("string", String(s)) /\ String(s)[2] = s
        BY <2>3, LeafIs
    <2>5. x.ok /\ x.v = String(s)
        BY <1>2, <2>2 DEF s
    <2> HIDE DEF x
    <2>6. decodeJSONScalar(ft, String(s)) = Value(v)
        BY <1>7, <2>3, <2>4 DEF decodeJSONScalar
    <2> QED BY <1>7, <2>4, <2>5, <2>6 DEF x, receivedScalar
<1> QED BY <1>1, <1>3, <1>4, <1>5, <1>6, <1>7 DEF FieldType

\* What the decoder makes of a scalar, a message can hold.
LEMMA ScalarHolds ==
    ASSUME NEW f \in FieldSchema, f.type # "message", NEW v \in JsonValue[Depth],
           decodeJSONScalar(f.type, v).ok
    PROVE  HoldsOne(f, decodeJSONScalar(f.type, v).v)
<1> DEFINE r == decodeJSONScalar(f.type, v)
<1>1. FitsOne(f, r.v)
    BY ScalarFits
<1>2. f.type \in FieldType
    BY DEF FieldSchema
<1>3. CASE f.type = "string"
    <2>1. IsA("string", v) /\ r.v = v[2]
        BY <1>3 DEF decodeJSONScalar, Value, Malformed
    <2>2. v[2] \in Str
        BY <2>1, TextLeaf
    <2> QED BY <1>3, <2>1, <2>2, JsonWireAssumption DEF HoldsOne
<1>4. CASE f.type = "bytes"
    <2>1. PICK s \in DOMAIN FromBase64 : r.v = FromBase64[s]
        BY <1>1, <1>4 DEF FitsOne
    <2>2. r.v \in DOMAIN ToBase64
        BY <2>1, JsonWireAssumption
    <2> HIDE DEF r
    <2> QED BY <1>4, <2>2 DEF HoldsOne, r
<1>5. CASE f.type \in {"float", "double"}
    <2> HIDE DEF r
    <2> QED BY <1>1, <1>5 DEF FitsOne, HoldsOne, r
<1>6. CASE f.type \in {"int32", "int64", "uint32", "uint64", "bool"}
    <2> HIDE DEF r
    <2> QED BY <1>1, <1>6 DEF HoldsOne, r
<1> QED BY <1>2, <1>3, <1>4, <1>5, <1>6 DEF FieldType

-----------------------------------------------------------------------------
(* The text of a field *)

\* One value of a field: V are the values its text can be of.
LEMMA OneText ==
    ASSUME NEW f \in FieldSchema, NEW v, HoldsOne(f, v), NEW V, Leaf \subseteq V, NEW texts,
           LET q == Msg(f.schema, v)
           IN  f.type = "message" /\ texts[q].ok => texts[q].v \in V /\ IsA("object", texts[q].v),
           appendJSONOne(texts, f, v).ok
    PROVE  LET x == appendJSONOne(texts, f, v)
               q == Msg(f.schema, v)
           IN  /\ x.v \in V /\ x.v # Null
               /\ \A g, inner :
                      /\ g.type = f.type
                      /\ f.type = "message" => Reading[g.schema][texts[q].v[2]] = Value(inner[q][g.schema])
                      => meantOne(Reading, g, x.v) = Value(receivedOne(inner, f, g, v))
<1> DEFINE x == appendJSONOne(texts, f, v)
           q == Msg(f.schema, v)
<1>1. CASE f.type # "message"
    <2>1. x = appendJSONScalar(f.type, v)
        BY <1>1 DEF appendJSONOne
    <2>2. /\ x.v \in Leaf /\ x.v # Null
          /\ decodeJSONScalar(f.type, x.v) = Value(receivedScalar(f.type, v))
        BY <1>1, <2>1, ScalarText
    <2> HIDE DEF x
    <2>3. ASSUME NEW g, NEW inner, g.type = f.type
          PROVE  meantOne(Reading, g, x.v) = Value(receivedOne(inner, f, g, v))
        <3>1. meantOne(Reading, g, x.v) = decodeJSONScalar(f.type, x.v)
            BY <1>1, <2>3 DEF meantOne
        <3>2. receivedOne(inner, f, g, v) = receivedScalar(f.type, v)
            BY <1>1 DEF receivedOne, receivedScalar
        <3> QED BY <2>2, <3>1, <3>2
    <2> QED BY <2>2, <2>3 DEF x
<1>2. CASE f.type = "message"
    <2>1. v # NoMessage
        BY <1>2 DEF HoldsOne
    <2>2. x = texts[q]
        BY <1>2, <2>1 DEF appendJSONOne
    <2>3. x.v \in V /\ IsA("object", x.v)
        BY <1>2, <2>2
    <2>4. x.v # Null
        BY <2>3 DEF IsA, Null
    <2> HIDE DEF x
    <2>5. ASSUME NEW g, NEW inner, g.type = f.type,
                 Reading[g.schema][texts[q].v[2]] = Value(inner[q][g.schema])
          PROVE  meantOne(Reading, g, x.v) = Value(receivedOne(inner, f, g, v))
        <3>1. meantOne(Reading, g, x.v) = Reading[g.schema][x.v[2]]
            BY <1>2, <2>3, <2>5 DEF meantOne
        <3>2. receivedOne(inner, f, g, v) = inner[q][g.schema]
            BY <1>2, <2>1 DEF receivedOne
        <3> QED BY <2>2, <2>5, <3>1, <3>2
    <2> QED BY <1>2, <2>3, <2>4, <2>5 DEF x
<1> QED BY <1>1, <1>2

\* The texts of the messages in a field are objects, and can be in V.
TextsIn(texts, f, v, V) ==
    \A e \in held(f, v) : LET q == Msg(f.schema, e) IN
        f.type = "message" /\ e # NoMessage /\ texts[q].ok => texts[q].v \in V /\ IsA("object", texts[q].v)

\* The receiver g has for the field f, and inner for these messages, what they mean.
Serves(texts, inner, f, g, v) ==
    /\ g.type = f.type /\ g.repeated = f.repeated
    /\ \A e \in held(f, v) : LET q == Msg(f.schema, e) IN
           f.type = "message" /\ e # NoMessage /\ texts[q].ok =>
               Reading[g.schema][texts[q].v[2]] = Value(inner[q][g.schema])

LEMMA OneOk ==
    ASSUME NEW f, NEW v, NEW texts, f.type = "message", v # NoMessage, appendJSONOne(texts, f, v).ok
    PROVE  texts[Msg(f.schema, v)].ok
BY DEF appendJSONOne

LEMMA FieldText ==
    ASSUME NEW f \in FieldSchema, NEW v, Holds(f, v), NEW texts,
           NEW d \in Nat, d + 1 =< Depth, TextsIn(texts, f, v, JsonValue[d]),
           appendJSONValue(texts, f, v).ok
    PROVE  LET x == appendJSONValue(texts, f, v).v
           IN  /\ x \in JsonValue[d + 1] /\ x # Null
               /\ \A g, inner : Serves(texts, inner, f, g, v) =>
                      meantField(Reading, g, x) = Value(receivedField(inner, f, g, v))
<1> DEFINE y == appendJSONValue(texts, f, v)
           V == JsonValue[d]
<1>1. Leaf \subseteq V /\ V \subseteq JsonValue[d + 1]
    <2>1. JsonValue[d + 1] = Nest(V) /\ V \subseteq JsonValue[d + 1]
        BY JsonValueIs, ValuesGrow
    <2>2. CASE d = 0
        BY <2>1, <2>2, JsonValueIs
    <2>3. CASE d # 0
        <3>1. d - 1 \in Nat /\ (d - 1) + 1 = d /\ (d - 1) + 1 =< Depth
            BY <2>3, JsonAssumption
        <3>2. V = Nest(JsonValue[d - 1])
            BY <3>1, JsonValueIs
        <3> QED BY <2>1, <3>2 DEF Nest
    <2> QED BY <2>1, <2>2, <2>3
<1>2. CASE ~f.repeated
    <2>1. y = appendJSONOne(texts, f, v) /\ HoldsOne(f, v) /\ held(f, v) = {v}
        BY <1>2 DEF appendJSONValue, Holds, held
    <2> DEFINE q == Msg(f.schema, v)
    <2>2. f.type = "message" => v # NoMessage
        BY <2>1 DEF HoldsOne
    <2>3. f.type = "message" /\ texts[q].ok => texts[q].v \in V /\ IsA("object", texts[q].v)
        BY <2>1, <2>2 DEF TextsIn
    <2>4. f.type = "message" => texts[q].ok
        BY <2>1, <2>2, OneOk
    <2>5. /\ y.v \in V /\ y.v # Null
          /\ \A g, inner :
                 /\ g.type = f.type
                 /\ f.type = "message" => Reading[g.schema][texts[q].v[2]] = Value(inner[q][g.schema])
                 => meantOne(Reading, g, y.v) = Value(receivedOne(inner, f, g, v))
        <3>1. appendJSONOne(texts, f, v).ok /\ HoldsOne(f, v) /\ Leaf \subseteq V
            BY <1>1, <2>1
        <3> DEFINE o == appendJSONOne(texts, f, v)
        <3> HIDE DEF V, y
        <3>2. /\ o.v \in V /\ o.v # Null
              /\ \A g, inner :
                     /\ g.type = f.type
                     /\ f.type = "message" => Reading[g.schema][texts[q].v[2]] = Value(inner[q][g.schema])
                     => meantOne(Reading, g, o.v) = Value(receivedOne(inner, f, g, v))
            BY <2>3, <3>1, OneText
        <3> HIDE DEF o, q
        <3>3. y = o
            BY <2>1 DEF o
        <3> QED BY <3>2, <3>3, Zenon
    <2> HIDE DEF y, q, V
    <2>6. ASSUME NEW g, NEW inner, Serves(texts, inner, f, g, v)
          PROVE  meantField(Reading, g, y.v) = Value(receivedField(inner, f, g, v))
        <3>1. /\ g.type = f.type /\ ~g.repeated
              /\ f.type = "message" => Reading[g.schema][texts[q].v[2]] = Value(inner[q][g.schema])
            BY <1>2, <2>1, <2>2, <2>4, <2>6 DEF Serves, q
        <3>2. meantOne(Reading, g, y.v) = Value(receivedOne(inner, f, g, v))
            BY <2>5, <3>1
        <3>3. meantField(Reading, g, y.v) = meantOne(Reading, g, y.v)
            BY <3>1 DEF meantField
        <3>4. receivedField(inner, f, g, v) = receivedOne(inner, f, g, v)
            BY <1>2 DEF receivedField
        <3> QED BY <3>2, <3>3, <3>4
    <2> QED BY <1>1, <2>5, <2>6 DEF y
<1>3. CASE f.repeated
    <2> DEFINE T(j) == appendJSONOne(texts, f, v[j])
               l == [j \in DOMAIN v |-> T(j).v]
               c == \A j \in DOMAIN v : T(j).ok
    <2>1. y = When(\A j \in DOMAIN v : [i \in DOMAIN v |-> T(i)][j].ok,
                   Array([j \in DOMAIN v |-> [i \in DOMAIN v |-> T(i)][j].v]))
        BY <1>3 DEF appendJSONValue
    <2>2. y = When(c, Array(l))
        <3> HIDE DEF T
        <3>1. [j \in DOMAIN v |-> [i \in DOMAIN v |-> T(i)][j].v] = l
            OBVIOUS
        <3>2. (\A j \in DOMAIN v : [i \in DOMAIN v |-> T(i)][j].ok) <=> c
            OBVIOUS
        <3> HIDE DEF c, l, y
        <3> QED BY <2>1, <3>1, <3>2, Zenon DEF When
    <2> HIDE DEF y, c, l
    <2>3. c /\ y.v = Array(l)
        BY <2>2, WhenIs DEF y
    <2>4. /\ IsList(v) /\ Len(v) \in Nat /\ DOMAIN v = 1..Len(v)
          /\ \A j \in DOMAIN v : (f.type = "message" /\ v[j] = NoMessage) \/ HoldsOne(f, v[j])
        BY <1>3, ListLen DEF Holds
    <2>5. ASSUME NEW j \in DOMAIN v
          PROVE  /\ T(j).v \in V
                 /\ \A g, inner : Serves(texts, inner, f, g, v) =>
                        meantElement(Reading, g, T(j).v) = Value(receivedOne(inner, f, g, v[j]))
        <3> DEFINE e == v[j]
                   q == Msg(f.schema, e)
        <3>1. e \in held(f, v)
            BY <1>3 DEF held
        <3>2. T(j).ok
            BY <2>3 DEF c
        <3> HIDE DEF e
        <3>3. CASE f.type = "message" /\ e = NoMessage
            <4>1. T(j) = Value(Null)
                BY <3>3 DEF appendJSONOne, e
            <4> HIDE DEF T
            <4>2. T(j).v = Null /\ Null \in Leaf
                BY <4>1 DEF Value, Leaf
            <4>3. \A g, inner : Serves(texts, inner, f, g, v) =>
                      /\ meantElement(Reading, g, T(j).v) = Value(NoMessage)
                      /\ receivedOne(inner, f, g, e) = NoMessage
                BY <3>3, <4>2 DEF Serves, meantElement, receivedOne
            <4> QED BY <1>1, <4>2, <4>3 DEF e
        <3>4. CASE ~(f.type = "message" /\ e = NoMessage)
            <4>1. HoldsOne(f, e)
                BY <2>4, <3>4 DEF e
            <4>2. f.type = "message" /\ texts[q].ok => texts[q].v \in V /\ IsA("object", texts[q].v)
                BY <3>1, <3>4 DEF TextsIn
            <4>3. f.type = "message" => texts[q].ok
                BY <3>2, <3>4, OneOk DEF e
            <4>4. T(j) = appendJSONOne(texts, f, e)
                BY DEF e
            <4> HIDE DEF T
            <4>5. /\ T(j).v \in V /\ T(j).v # Null
                  /\ \A g, inner :
                         /\ g.type = f.type
                         /\ f.type = "message" => Reading[g.schema][texts[q].v[2]] = Value(inner[q][g.schema])
                         => meantOne(Reading, g, T(j).v) = Value(receivedOne(inner, f, g, e))
                <5> HIDE DEF V
                <5> QED BY <1>1, <3>2, <4>1, <4>2, <4>4, OneText
            <4>6. ASSUME NEW g, NEW inner, Serves(texts, inner, f, g, v)
                  PROVE  meantElement(Reading, g, T(j).v) = Value(receivedOne(inner, f, g, e))
                <5>1. /\ g.type = f.type
                      /\ f.type = "message" => Reading[g.schema][texts[q].v[2]] = Value(inner[q][g.schema])
                    BY <3>1, <3>4, <4>3, <4>6 DEF Serves
                <5>2. meantElement(Reading, g, T(j).v) = meantOne(Reading, g, T(j).v)
                    BY <4>5 DEF meantElement
                <5> HIDE DEF q
                <5> QED BY <4>5, <5>1, <5>2
            <4> QED BY <4>5, <4>6 DEF e
        <3> QED BY <3>3, <3>4
    <2> HIDE DEF V, T
    <2>6. l \in Seq(V)
        <3>1. l \in [1..Len(v) -> V]
            BY <2>4, <2>5 DEF l
        <3> QED BY <2>4, <3>1, SeqDef
    <2>7. y.v \in JsonValue[d + 1] /\ y.v # Null /\ IsA("array", y.v) /\ y.v[2] = l
        <3>1. JsonValue[d + 1] = Nest(V)
            BY JsonValueIs DEF V
        <3>2. Array(l) \in Nest(V)
            BY <2>6 DEF Nest, Array
        <3> QED BY <2>3, <3>1, <3>2 DEF Array, IsA, Null
    <2>8. ASSUME NEW g, NEW inner, Serves(texts, inner, f, g, v)
          PROVE  meantField(Reading, g, y.v) = Value(receivedField(inner, f, g, v))
        <3> DEFINE R(j) == receivedOne(inner, f, g, v[j])
                   E(j) == meantElement(Reading, g, l[j])
        <3>1. g.repeated
            BY <1>3, <2>8 DEF Serves
        <3>2. DOMAIN l = DOMAIN v /\ \A j \in DOMAIN v : l[j] = T(j).v
            BY DEF l
        <3>3. \A j \in DOMAIN v : E(j) = Value(R(j))
            BY <2>5, <2>8, <3>2
        <3>4. meantField(Reading, g, y.v) = When(\A j \in DOMAIN l : E(j).ok, [j \in DOMAIN l |-> E(j).v])
            BY <2>7, <3>1 DEF meantField, meantList
        <3>5. receivedField(inner, f, g, v) = [j \in DOMAIN v |-> R(j)]
            BY <1>3 DEF receivedField
        <3> HIDE DEF R, E
        <3>6. \A j \in DOMAIN v : E(j).ok /\ E(j).v = R(j)
            BY <3>3 DEF Value
        <3>7. [j \in DOMAIN l |-> E(j).v] = [j \in DOMAIN v |-> R(j)]
            BY <3>2, <3>6
        <3>8. \A j \in DOMAIN l : E(j).ok
            BY <3>2, <3>6
        <3> QED BY <3>4, <3>5, <3>7, <3>8, Zenon DEF When
    <2> QED BY <2>7, <2>8 DEF y
<1> QED BY <1>2, <1>3

-----------------------------------------------------------------------------
(* The text of a message *)

\* A name of a type is that of one field.
LEMMA NamesAre ==
    ASSUME NEW t \in Type
    PROVE  /\ Len(Fields[t]) \in Nat /\ DOMAIN Fields[t] = 1..Len(Fields[t])
           /\ \A j \in 1..Len(Fields[t]) :
                 /\ Fields[t][j].name \in Names(t) /\ Fields[t][j].name \in STRING
                 /\ lookupName(t, Fields[t][j].name) = Fields[t][j]
           /\ \A n \in Names(t) : \E j \in 1..Len(Fields[t]) : Fields[t][j].name = n
<1>1. Fields[t] \in Seq(FieldSchema)
    BY JsonAssumption
<1>2. Len(Fields[t]) \in Nat /\ DOMAIN Fields[t] = 1..Len(Fields[t])
    BY <1>1, LenProperties
<1>3. ASSUME NEW j \in 1..Len(Fields[t])
      PROVE  /\ Fields[t][j].name \in Names(t) /\ Fields[t][j].name \in STRING
             /\ lookupName(t, Fields[t][j].name) = Fields[t][j]
    <2>1. j \in DOMAIN Fields[t] /\ Fields[t][j] \in FieldSchema
        BY <1>1, <1>2
    <2> DEFINE i == CHOOSE i \in DOMAIN Fields[t] : Fields[t][i].name = Fields[t][j].name
    <2>2. i \in DOMAIN Fields[t] /\ Fields[t][i].name = Fields[t][j].name
        BY <2>1
    <2>3. lookupName(t, Fields[t][j].name) = Fields[t][i]
        BY DEF lookupName
    <2> HIDE DEF i
    <2>4. i = j
        BY <2>1, <2>2, JsonAssumption
    <2> QED BY <2>1, <2>3, <2>4 DEF Names, FieldSchema
<1>4. \A n \in Names(t) : \E j \in 1..Len(Fields[t]) : Fields[t][j].name = n
    BY <1>2 DEF Names
<1> QED BY <1>2, <1>3, <1>4

\* The members of the text of a message are its fields, with the texts of their values.
LEMMA MembersText ==
    ASSUME NEW s, s.type \in Type, NEW texts, NEW V,
           \A n \in DOMAIN s.msg \cap Names(s.type) :
               appendJSONValue(texts, lookupName(s.type, n), s.msg[n]).v \in V
    PROVE  LET ms == appendJSONMembers(texts, s)[Len(Fields[s.type])]
           IN  /\ ms \in Seq(STRING \X V)
               /\ Keys(ms) = DOMAIN s.msg \cap Names(s.type)
               /\ \A n \in Keys(ms) :
                      At(ms, n) = appendJSONValue(texts, lookupName(s.type, n), s.msg[n]).v
<1> DEFINE t == s.type
           L == Len(Fields[t])
           M == appendJSONMembers(texts, s)
           X(n) == appendJSONValue(texts, lookupName(t, n), s.msg[n]).v
           name(j) == Fields[t][j].name
           P(j) == /\ M[j] \in Seq(STRING \X V)
                   /\ \A i \in DOMAIN M[j] : \E n \in DOMAIN s.msg \cap Names(t) : M[j][i] = <<n, X(n)>>
                   /\ \A i \in 1..j : name(i) \in DOMAIN s.msg => name(i) \in Keys(M[j])
           S == {j \in Nat : j =< L => P(j)}
<1>1. /\ L \in Nat
      /\ \A j \in 1..L : /\ name(j) \in Names(t) /\ name(j) \in STRING
                         /\ lookupName(t, name(j)) = Fields[t][j]
      /\ \A n \in Names(t) : \E j \in 1..L : name(j) = n
    BY NamesAre
<1>2. \A j \in 0..L : M[j] = MembersLevel(texts, s, M, j)
    BY MembersAre
<1>3. \A n \in DOMAIN s.msg \cap Names(t) : X(n) \in V
    OBVIOUS
<1>4. M[0] = <<>>
    <2> HIDE DEF M, L
    <2>1. MembersLevel(texts, s, M, 0) = <<>>
        BY DEF MembersLevel
    <2> QED BY <1>1, <1>2, <2>1
<1>5. ASSUME NEW j \in Nat, j + 1 =< L
      PROVE  M[j + 1] = IF name(j + 1) \in DOMAIN s.msg
                        THEN Append(M[j], <<name(j + 1), X(name(j + 1))>>) ELSE M[j]
    <2>1. j + 1 \in 0..L /\ j + 1 # 0 /\ (j + 1) - 1 = j /\ j + 1 \in 1..L
        BY <1>1, <1>5
    <2>2. M[j + 1] = MembersLevel(texts, s, M, j + 1)
        BY <1>2, <2>1
    <2>3. lookupName(t, name(j + 1)) = Fields[t][j + 1]
        BY <1>1, <2>1
    <2> HIDE DEF M
    <2>4. MembersLevel(texts, s, M, j + 1) =
              IF name(j + 1) \in DOMAIN s.msg
              THEN Append(M[j], <<name(j + 1), appendJSONValue(texts, Fields[t][j + 1], s.msg[name(j + 1)]).v>>)
              ELSE M[j]
        BY <2>1 DEF MembersLevel
    <2> QED BY <2>2, <2>3, <2>4
<1> HIDE DEF L, M, X, name
<1>6. 0 \in S
    <2> DEFINE z == M[0]
    <2>1. z \in Seq(STRING \X V) /\ DOMAIN z = {}
        BY <1>4, EmptySeq
    <2> HIDE DEF z
    <2>2. \A i \in DOMAIN z : \E n \in DOMAIN s.msg \cap Names(t) : z[i] = <<n, X(n)>>
        BY <2>1
    <2>3. \A i \in 1..0 : name(i) \in DOMAIN s.msg => name(i) \in Keys(z)
        OBVIOUS
    <2>4. P(0)
        BY <2>1, <2>2, <2>3 DEF z
    <2> HIDE DEF P
    <2> QED BY <2>4
<1>7. ASSUME NEW j \in Nat, j \in S
      PROVE  j + 1 \in S
    <2> SUFFICES ASSUME j + 1 =< L
                 PROVE  P(j + 1)
        OBVIOUS
    <2>1. P(j)
        BY <1>1, <1>7
    <2>2. j + 1 \in 1..L /\ \A i \in 1..(j + 1) : i \in 1..j \/ i = j + 1
        BY <1>1
    <2>3. CASE name(j + 1) \notin DOMAIN s.msg
        <3>1. M[j + 1] = M[j]
            BY <1>5, <2>3
        <3> QED BY <2>1, <2>2, <2>3, <3>1
    <2>4. CASE name(j + 1) \in DOMAIN s.msg
        <3> DEFINE n == name(j + 1)
                   e == <<n, X(n)>>
                   z == M[j + 1]
        <3>1. z = Append(M[j], e)
            BY <1>5, <2>4
        <3>2. n \in DOMAIN s.msg \cap Names(t) /\ n \in STRING
            BY <1>1, <2>2, <2>4
        <3>3. e \in STRING \X V
            BY <1>3, <3>2
        <3>4. IsList(M[j])
            BY <2>1, ListIs
        <3> HIDE DEF n, z
        <3>5. z \in Seq(STRING \X V)
            BY <2>1, <3>1, <3>3, AppendProperties
        <3>6. /\ Len(M[j]) \in Nat /\ DOMAIN M[j] = 1..Len(M[j])
              /\ DOMAIN z = 1..(Len(M[j]) + 1) /\ z[Len(M[j]) + 1] = e
              /\ \A k \in 1..Len(M[j]) : z[k] = M[j][k]
            BY <3>1, <3>4, ListLen, AppendToList
        <3>7. \A i \in DOMAIN z : \E k \in DOMAIN s.msg \cap Names(t) : z[i] = <<k, X(k)>>
            <4>1. ASSUME NEW i \in DOMAIN z
                  PROVE  \E k \in DOMAIN s.msg \cap Names(t) : z[i] = <<k, X(k)>>
                <5>1. CASE i = Len(M[j]) + 1
                    BY <3>2, <3>6, <5>1
                <5>2. CASE i # Len(M[j]) + 1
                    <6>1. i \in DOMAIN M[j] /\ z[i] = M[j][i]
                        BY <3>6, <5>2
                    <6> QED BY <2>1, <6>1
                <5> QED BY <5>1, <5>2
            <4> QED BY <4>1
        <3>8. Keys(M[j]) \subseteq Keys(z) /\ n \in Keys(z)
            <4>1. e[1] = n
                OBVIOUS
            <4> HIDE DEF e
            <4> QED BY <3>6, <4>1 DEF Keys
        <3>9. \A i \in 1..(j + 1) : name(i) \in DOMAIN s.msg => name(i) \in Keys(z)
            BY <2>1, <2>2, <3>8 DEF n
        <3> QED BY <3>5, <3>7, <3>9 DEF z
    <2> QED BY <2>3, <2>4
<1> HIDE DEF S, P
<1>8. P(L)
    <2>1. L \in S
        BY <1>1, <1>6, <1>7, NatSetInduction
    <2> QED BY <1>1, <2>1 DEF S
<1> DEFINE ms == M[L]
<1>9. /\ ms \in Seq(STRING \X V)
      /\ \A i \in DOMAIN ms : \E n \in DOMAIN s.msg \cap Names(t) : ms[i] = <<n, X(n)>>
      /\ \A i \in 1..L : name(i) \in DOMAIN s.msg => name(i) \in Keys(ms)
    BY <1>8 DEF P
<1> HIDE DEF ms, t
<1>10. Keys(ms) = DOMAIN s.msg \cap Names(t)
    <2>1. ASSUME NEW k \in Keys(ms)
          PROVE  k \in DOMAIN s.msg \cap Names(t)
        <3>1. PICK i \in DOMAIN ms : k = ms[i][1]
            BY DEF Keys
        <3>2. PICK n \in DOMAIN s.msg \cap Names(t) : ms[i] = <<n, X(n)>>
            BY <1>9, <3>1
        <3> QED BY <3>1, <3>2
    <2>2. ASSUME NEW k \in DOMAIN s.msg \cap Names(t)
          PROVE  k \in Keys(ms)
        BY <1>1, <1>9, <2>2
    <2> QED BY <2>1, <2>2
<1>11. ASSUME NEW k \in Keys(ms)
       PROVE  At(ms, k) = X(k)
    <2> DEFINE W == V
    <2>1. ms \in Seq(STRING \X W)
        BY <1>9
    <2> HIDE DEF W
    <2>2. Held(ms, k)
        BY <2>1, AtFrom
    <2>3. PICK i \in DOMAIN ms : ms[i] = <<k, At(ms, k)>>
        BY <2>2 DEF Held
    <2>4. PICK n \in DOMAIN s.msg \cap Names(t) : ms[i] = <<n, X(n)>>
        BY <1>9, <2>3
    <2> QED BY <2>3, <2>4
<1> QED BY <1>9, <1>10, <1>11 DEF ms, M, X, L, t

LEMMA LevelsGrow ==
    \A i, j \in 0..Depth : i =< j => JsonValue[i] \subseteq JsonValue[j] /\ Members(i) \subseteq Members(j)
<1> DEFINE S == {j \in Nat : j =< Depth => \A i \in 0..j : JsonValue[i] \subseteq JsonValue[j] /\ Members(i) \subseteq Members(j)}
<1>0. Depth \in Nat
    BY JsonAssumption
<1>1. 0 \in S
    OBVIOUS
<1>2. ASSUME NEW j \in Nat, j \in S
      PROVE  j + 1 \in S
    <2> SUFFICES ASSUME j + 1 =< Depth, NEW i \in 0..(j + 1)
                 PROVE  JsonValue[i] \subseteq JsonValue[j + 1] /\ Members(i) \subseteq Members(j + 1)
        OBVIOUS
    <2>1. JsonValue[j] \subseteq JsonValue[j + 1] /\ Members(j) \subseteq Members(j + 1)
        BY ValuesGrow
    <2>2. i = j + 1 \/ i \in 0..j
        OBVIOUS
    <2>3. j =< Depth
        BY <1>0
    <2> QED BY <1>2, <2>1, <2>2, <2>3
<1> HIDE DEF S
<1>3. Nat \subseteq S
    BY <1>1, <1>2, NatSetInduction
<1> QED BY <1>0, <1>3 DEF S

\* The text of a message, in terms of the texts of those in it.
LEMMA ObjectText ==
    ASSUME NEW p, IsMessage(p), NEW texts, NEW d \in Nat, d + 2 =< Depth,
           \A q \in nested(p) : texts[q].ok => texts[q].v \in JsonValue[d] /\ IsA("object", texts[q].v),
           appendJSONObject(texts, p).ok
    PROVE  LET x == appendJSONObject(texts, p).v
           IN  /\ IsA("object", x) /\ x \in JsonValue[d + 2] /\ x[2] \in Members(Depth)
               /\ Keys(x[2]) = DOMAIN p.msg
               /\ \A n \in DOMAIN p.msg :
                      /\ At(x[2], n) = appendJSONValue(texts, lookupName(p.type, n), p.msg[n]).v
                      /\ At(x[2], n) # Null
                      /\ \A g, inner : Serves(texts, inner, lookupName(p.type, n), g, p.msg[n]) =>
                             meantField(Reading, g, At(x[2], n))
                                 = Value(receivedField(inner, lookupName(p.type, n), g, p.msg[n]))
<1> DEFINE f(n) == lookupName(p.type, n)
           Y(n) == appendJSONValue(texts, f(n), p.msg[n])
           ms == appendJSONMembers(texts, p)[Len(Fields[p.type])]
           x == appendJSONObject(texts, p)
<1>1. p.type \in Type /\ DOMAIN p.msg \subseteq Names(p.type)
      /\ \A n \in DOMAIN p.msg : Holds(f(n), p.msg[n])
    BY DEF IsMessage
<1>2. (\A n \in DOMAIN p.msg : Y(n).ok) /\ x.v = Object(ms)
    <2> DEFINE c == \A n \in DOMAIN p.msg : Y(n).ok
    <2>1. x = When(c, Object(ms))
        BY DEF appendJSONObject
    <2> HIDE DEF c, x, ms
    <2> QED BY <2>1, WhenIs DEF c, x
<1>3. Depth \in Nat /\ d + 1 \in Nat /\ d + 1 =< Depth /\ (d + 1) + 1 = d + 2
    BY JsonAssumption
<1>4. ASSUME NEW n \in DOMAIN p.msg
      PROVE  /\ Y(n).v \in JsonValue[d + 1] /\ Y(n).v # Null
             /\ \A g, inner : Serves(texts, inner, f(n), g, p.msg[n]) =>
                    meantField(Reading, g, Y(n).v) = Value(receivedField(inner, f(n), g, p.msg[n]))
    <2> DEFINE fn == f(n)
               v == p.msg[n]
    <2>1. fn \in FieldSchema
        BY <1>1, LookupIs
    <2>2. TextsIn(texts, fn, v, JsonValue[d])
        <3>1. ASSUME NEW e \in held(fn, v), fn.type = "message", e # NoMessage
              PROVE  Msg(fn.schema, e) \in nested(p)
            BY <3>1, HeldIsNested
        <3> HIDE DEF fn, v
        <3> QED BY <3>1 DEF TextsIn
    <2>3. Holds(fn, v) /\ appendJSONValue(texts, fn, v).ok
        BY <1>1, <1>2
    <2>4. appendJSONValue(texts, fn, v) = Y(n)
        OBVIOUS
    <2> HIDE DEF fn, v, Y
    <2>5. LET z == appendJSONValue(texts, fn, v).v
          IN  /\ z \in JsonValue[d + 1] /\ z # Null
              /\ \A g, inner : Serves(texts, inner, fn, g, v) =>
                     meantField(Reading, g, z) = Value(receivedField(inner, fn, g, v))
        BY <1>3, <2>1, <2>2, <2>3, FieldText
    <2> QED BY <2>4, <2>5 DEF fn, v
<1> HIDE DEF ms, x
<1>5. /\ ms \in Seq(STRING \X JsonValue[d + 1])
      /\ Keys(ms) = DOMAIN p.msg
      /\ \A n \in Keys(ms) : At(ms, n) = Y(n).v
    <2>1. \A n \in DOMAIN p.msg \cap Names(p.type) :
              appendJSONValue(texts, lookupName(p.type, n), p.msg[n]).v \in JsonValue[d + 1]
        BY <1>4
    <2>2. DOMAIN p.msg \cap Names(p.type) = DOMAIN p.msg
        BY <1>1
    <2> QED BY <1>1, <2>1, <2>2, MembersText DEF ms
<1> HIDE DEF Y, f
<1>6. x.v = Object(ms) /\ IsA("object", x.v) /\ x.v[2] = ms
    BY <1>2 DEF Object, IsA
<1>7. x.v \in JsonValue[d + 2]
    <2>1. JsonValue[d + 2] = Nest(JsonValue[d + 1])
        BY <1>3, JsonValueIs
    <2> QED BY <1>5, <1>6, <2>1 DEF Nest, Object
<1>8. ms \in Members(Depth)
    <2>1. Members(d + 1) \subseteq Members(Depth)
        BY <1>3, LevelsGrow
    <2> QED BY <1>5, <2>1 DEF Members
<1> QED BY <1>4, <1>5, <1>6, <1>7, <1>8 DEF x, Y, f

-----------------------------------------------------------------------------
(* What a receiver reads *)

\* A receiver of a message of type u has the type t for it.
Reads(t, u) == t = u \/ t = Receiver[u]

LEMMA ReadsIs ==
    ASSUME NEW u \in Type, NEW t, Reads(t, u)
    PROVE  /\ t \in Type
           /\ \A n \in Names(u) \cap Names(t) :
                 LET f == lookupName(u, n)
                     g == lookupName(t, n)
                 IN  /\ g.type = f.type /\ g.repeated = f.repeated
                     /\ f.type = "message" => Reads(g.schema, f.schema)
BY ReceiverAssumption DEF Reads

\* The text t of the part p: it is an object, as deep as the schema nests others, and a
\* receiver finds in it what got has.
Readable(p, x, got) ==
    /\ IsA("object", x) /\ x \in JsonValue[2 * Nesting[p.type] + 2] /\ x[2] \in Members(Depth)
    /\ \A t \in Type : Reads(t, p.type) => Reading[t][x[2]] = Value(got[t])

LEMMA PartText ==
    ASSUME NEW p, IsMessage(p), NEW texts, NEW inner,
           \A q \in nested(p) : texts[q].ok => Readable(q, texts[q].v, inner[q]),
           appendJSONObject(texts, p).ok
    PROVE  Readable(p, appendJSONObject(texts, p).v, [t \in Type |-> receivedMessage(inner, p, t)])
<1> DEFINE u == p.type
           d == 2 * Nesting[u]
           x == appendJSONObject(texts, p).v
           f(n) == lookupName(u, n)
<1>1. u \in Type /\ DOMAIN p.msg \subseteq Names(u)
    BY DEF IsMessage
<1>2. Depth \in Nat /\ Nesting[u] \in Nat /\ d \in Nat /\ d + 2 =< Depth
    BY <1>1, NestingIs, JsonAssumption
<1>3. ASSUME NEW q \in nested(p), texts[q].ok
      PROVE  texts[q].v \in JsonValue[d] /\ IsA("object", texts[q].v)
    <2>1. q.type \in Type /\ Nesting[q.type] < Nesting[u]
        BY NestedIs
    <2>2. Nesting[q.type] \in Nat
        BY <2>1, NestingIs
    <2> DEFINE e == 2 * Nesting[q.type] + 2
    <2>3. e \in 0..Depth /\ d \in 0..Depth /\ e =< d
        BY <1>2, <2>1, <2>2
    <2>4. Readable(q, texts[q].v, inner[q])
        BY <1>3
    <2>5. texts[q].v \in JsonValue[e]
        BY <2>4 DEF Readable
    <2> HIDE DEF e, d
    <2>6. JsonValue[e] \subseteq JsonValue[d]
        BY <2>3, LevelsGrow
    <2> QED BY <2>4, <2>5, <2>6 DEF Readable
<1>4. /\ IsA("object", x) /\ x \in JsonValue[d + 2] /\ x[2] \in Members(Depth)
      /\ Keys(x[2]) = DOMAIN p.msg
      /\ \A n \in DOMAIN p.msg :
             /\ At(x[2], n) # Null
             /\ \A g, got : Serves(texts, got, f(n), g, p.msg[n]) =>
                    meantField(Reading, g, At(x[2], n)) = Value(receivedField(got, f(n), g, p.msg[n]))
    <2> HIDE DEF d
    <2> QED BY <1>2, <1>3, ObjectText
<1>5. ASSUME NEW t \in Type, Reads(t, u)
      PROVE  Reading[t][x[2]] = Value(receivedMessage(inner, p, t))
    <2> DEFINE ms == x[2]
               g(n) == lookupName(t, n)
               F(n) == meantField(Reading, g(n), At(ms, n))
               R(n) == receivedField(inner, f(n), g(n), p.msg[n])
               D == DOMAIN p.msg \cap Names(t)
    <2>1. present(t, ms) = D
        BY <1>4 DEF present
    <2>2. ASSUME NEW n \in D
          PROVE  F(n) = Value(R(n))
        <3> DEFINE fn == f(n)
                   gn == g(n)
                   v == p.msg[n]
        <3>1. /\ gn.type = fn.type /\ gn.repeated = fn.repeated
              /\ fn.type = "message" => Reads(gn.schema, fn.schema)
            BY <1>1, <1>5, ReadsIs
        <3>2. ASSUME NEW e \in held(fn, v), fn.type = "message", e # NoMessage, texts[Msg(fn.schema, e)].ok
              PROVE  LET q == Msg(fn.schema, e)
                     IN  Reading[gn.schema][texts[q].v[2]] = Value(inner[q][gn.schema])
            <4> DEFINE q == Msg(fn.schema, e)
            <4>1. q \in nested(p)
                BY <3>2, HeldIsNested
            <4>2. Readable(q, texts[q].v, inner[q])
                BY <3>2, <4>1
            <4>3. q.type = fn.schema
                BY DEF Msg
            <4>4. fn.schema \in Type
                BY <1>1, <3>2, LookupIs
            <4>5. Reads(gn.schema, q.type) /\ gn.schema \in Type
                BY <3>1, <3>2, <4>3, <4>4, ReadsIs
            <4> HIDE DEF q, gn, fn
            <4>6. Reading[gn.schema][texts[q].v[2]] = Value(inner[q][gn.schema])
                BY <4>2, <4>5 DEF Readable
            <4> QED BY <4>6 DEF q
        <3> HIDE DEF fn, gn, v
        <3>3. Serves(texts, inner, fn, gn, v)
            BY <3>1, <3>2 DEF Serves
        <3> HIDE DEF x
        <3> QED BY <1>4, <3>3 DEF fn, gn, v
    <2>3. Reading[t][ms] = When(\A n \in D : F(n).ok, [n \in D |-> F(n).v])
        <3>1. Reading[t][ms] = meantMessage(Reading, t, ms)
            BY <1>4, ReadingIs
        <3> HIDE DEF x, D
        <3>2. meantMessage(Reading, t, ms) =
                  When(\A n \in present(t, ms) : F(n).ok, [n \in present(t, ms) |-> F(n).v])
            BY DEF meantMessage
        <3> HIDE DEF F
        <3> QED BY <2>1, <3>1, <3>2
    <2>4. receivedMessage(inner, p, t) = [n \in D |-> R(n)]
        BY DEF receivedMessage
    <2> HIDE DEF F, R, D, x
    <2>5. \A n \in D : F(n).ok /\ F(n).v = R(n)
        BY <2>2 DEF Value
    <2>6. [n \in D |-> F(n).v] = [n \in D |-> R(n)]
        BY <2>5
    <2> QED BY <2>3, <2>4, <2>5, <2>6, Zenon DEF When, x
<1> DEFINE got == [t \in Type |-> receivedMessage(inner, p, t)]
<1>6. \A t \in Type : got[t] = receivedMessage(inner, p, t)
    OBVIOUS
<1> HIDE DEF got, x
<1> QED BY <1>4, <1>5, <1>6 DEF Readable, got, x

\* The texts of all parts, at the level at which each of them has its own.
LEMMA PartsText ==
    ASSUME NEW s, \A p \in parts(s) : IsMessage(p)
    PROVE  \A p \in parts(s) :
               jsonTexts(s)[Depth][p].ok =>
                   Readable(p, jsonTexts(s)[Depth][p].v, receivedParts(s)[Depth][p])
<1> DEFINE T == jsonTexts(s)
           R == receivedParts(s)
           S == {d \in Nat : d =< Depth => \A p \in parts(s) :
                    Nesting[p.type] =< d /\ T[d][p].ok => Readable(p, T[d][p].v, R[d][p])}
<1>1. /\ Depth \in Nat
      /\ \A d \in 0..Depth : T[d] = TextsLevel(s, T, d) /\ R[d] = ReceivedLevel(s, R, d)
    BY TextsAre, ReceivedAre
<1> HIDE DEF T, R
<1>2. \A p \in parts(s) : /\ IsMessage(p) /\ nested(p) \subseteq parts(s)
                          /\ p.type \in Type /\ Nesting[p.type] \in Nat /\ Nesting[p.type] =< Depth
    <2> SUFFICES ASSUME NEW p \in parts(s)
                 PROVE  /\ IsMessage(p) /\ nested(p) \subseteq parts(s)
                        /\ p.type \in Type /\ Nesting[p.type] \in Nat /\ Nesting[p.type] =< Depth
        OBVIOUS
    <2>1. IsMessage(p) /\ nested(p) \subseteq parts(s)
        BY PartsClose
    <2>2. p.type \in Type
        BY <2>1 DEF IsMessage
    <2>3. Nesting[p.type] \in Nat /\ 2 * Nesting[p.type] + 2 =< Depth
        BY <2>2, NestingIs
    <2> QED BY <1>1, <2>1, <2>2, <2>3
<1>3. ASSUME NEW d \in 0..Depth, NEW texts, NEW inner, NEW p \in parts(s),
             T[d][p] = appendJSONObject(texts, p),
             R[d][p] = [t \in Type |-> receivedMessage(inner, p, t)],
             \A q \in nested(p) : texts[q].ok => Readable(q, texts[q].v, inner[q]),
             T[d][p].ok
      PROVE  Readable(p, T[d][p].v, R[d][p])
    BY <1>2, <1>3, PartText
<1>4. \A d \in 0..Depth : \A p \in parts(s) :
          /\ T[d][p] = appendJSONObject(IF d = 0 THEN <<>> ELSE T[d - 1], p)
          /\ R[d][p] = [t \in Type |-> receivedMessage(IF d = 0 THEN <<>> ELSE R[d - 1], p, t)]
    BY <1>1 DEF TextsLevel, ReceivedLevel
<1>5. 0 \in S
    <2> SUFFICES ASSUME NEW p \in parts(s), Nesting[p.type] =< 0, T[0][p].ok
                 PROVE  Readable(p, T[0][p].v, R[0][p])
        OBVIOUS
    <2>1. \A q \in nested(p) : FALSE
        <3> SUFFICES ASSUME NEW q \in nested(p) PROVE FALSE
            OBVIOUS
        <3>1. q.type \in Type /\ Nesting[q.type] < Nesting[p.type]
            BY <1>2, NestedIs
        <3>2. Nesting[q.type] \in Nat /\ Nesting[p.type] \in Nat
            BY <1>2, <3>1, NestingIs
        <3> QED BY <3>1, <3>2
    <2>2. 0 \in 0..Depth
        BY <1>1
    <2>3. /\ T[0][p] = appendJSONObject(<<>>, p)
          /\ R[0][p] = [t \in Type |-> receivedMessage(<<>>, p, t)]
        BY <1>4, <2>2
    <2> QED BY <1>3, <2>1, <2>2, <2>3
<1>6. ASSUME NEW d \in Nat, d \in S
      PROVE  d + 1 \in S
    <2> SUFFICES ASSUME d + 1 =< Depth, NEW p \in parts(s), Nesting[p.type] =< d + 1, T[d + 1][p].ok
                 PROVE  Readable(p, T[d + 1][p].v, R[d + 1][p])
        OBVIOUS
    <2>1. d + 1 \in 0..Depth /\ d + 1 # 0 /\ (d + 1) - 1 = d /\ d =< Depth
        BY <1>1
    <2>2. /\ T[d + 1][p] = appendJSONObject(T[d], p)
          /\ R[d + 1][p] = [t \in Type |-> receivedMessage(R[d], p, t)]
        BY <1>4, <2>1
    <2>3. ASSUME NEW q \in nested(p), T[d][q].ok
          PROVE  Readable(q, T[d][q].v, R[d][q])
        <3>1. q \in parts(s)
            BY <1>2
        <3>2. Nesting[q.type] < Nesting[p.type]
            BY <1>2, NestedIs
        <3>3. Nesting[q.type] =< d
            BY <1>2, <3>1, <3>2
        <3> QED BY <1>6, <2>1, <2>3, <3>1, <3>3
    <2> QED BY <1>3, <2>1, <2>2, <2>3
<1> HIDE DEF S
<1>7. Depth \in S
    BY <1>1, <1>5, <1>6, NatSetInduction
<1> QED BY <1>1, <1>2, <1>7 DEF S, T, R

-----------------------------------------------------------------------------
(* What can be encoded *)

\* All of a message that was read.
IsRead(p) == IsMessage(p) /\ \A n \in DOMAIN p.msg : Fits(lookupName(p.type, n), p.msg[n])

LEMMA ObjectOk ==
    ASSUME NEW p, IsRead(p), NEW texts, \A q \in nested(p) : texts[q].ok
    PROVE  appendJSONObject(texts, p).ok
<1>1. ASSUME NEW n \in DOMAIN p.msg
      PROVE  appendJSONValue(texts, lookupName(p.type, n), p.msg[n]).ok
    <2> DEFINE f == lookupName(p.type, n)
               v == p.msg[n]
    <2>1. p.type \in Type /\ n \in Names(p.type) /\ Holds(f, v) /\ Fits(f, v)
        BY DEF IsRead, IsMessage
    <2>2. f \in FieldSchema
        BY <2>1, LookupIs
    <2>3. \A e \in held(f, v) : f.type = "message" /\ e # NoMessage => texts[Msg(f.schema, e)].ok
        BY HeldIsNested
    <2> HIDE DEF f, v
    <2>4. ASSUME NEW e \in held(f, v),
                 (f.type = "message" /\ e = NoMessage) \/ (HoldsOne(f, e) /\ FitsOne(f, e))
          PROVE  appendJSONOne(texts, f, e).ok
        <3>1. CASE f.type = "message"
            BY <2>3, <3>1 DEF appendJSONOne, Value
        <3>2. CASE f.type # "message"
            BY <2>2, <2>4, <3>2, ScalarText DEF appendJSONOne
        <3> QED BY <3>1, <3>2
    <2>5. CASE ~f.repeated
        <3>1. held(f, v) = {v} /\ HoldsOne(f, v) /\ FitsOne(f, v)
            BY <2>1, <2>5 DEF held, Holds, Fits
        <3> QED BY <2>4, <2>5, <3>1 DEF appendJSONValue, f, v
    <2>6. CASE f.repeated
        <3> DEFINE T(j) == appendJSONOne(texts, f, v[j])
                   elems == [j \in DOMAIN v |-> T(j)]
                   y == appendJSONValue(texts, f, v)
        <3>1. \A j \in DOMAIN v : T(j).ok
            <4>1. \A j \in DOMAIN v : v[j] \in held(f, v)
                BY <2>6 DEF held
            <4>2. \A j \in DOMAIN v : (f.type = "message" /\ v[j] = NoMessage)
                                      \/ (HoldsOne(f, v[j]) /\ FitsOne(f, v[j]))
                BY <2>1, <2>6 DEF Holds, Fits
            <4> QED BY <2>4, <4>1, <4>2
        <3> DEFINE c == \A j \in DOMAIN v : elems[j].ok
                   a == Array([j \in DOMAIN v |-> elems[j].v])
        <3>2. y = When(c, a)
            BY <2>6 DEF appendJSONValue
        <3> HIDE DEF T
        <3>3. c
            BY <3>1
        <3> HIDE DEF c, a, y
        <3>4. y.ok
            BY <3>2, <3>3, WhenIs
        <3> QED BY <3>4 DEF y, f, v
    <2> QED BY <2>5, <2>6
<1> DEFINE c == \A n \in DOMAIN p.msg : appendJSONValue(texts, lookupName(p.type, n), p.msg[n]).ok
           o == Object(appendJSONMembers(texts, p)[Len(Fields[p.type])])
           x == appendJSONObject(texts, p)
<1>2. c
    BY <1>1
<1>3. x = When(c, o)
    BY DEF appendJSONObject
<1> HIDE DEF c, o, x
<1>4. x.ok
    BY <1>2, <1>3, WhenIs
<1> QED BY <1>4 DEF x

LEMMA PartsOk ==
    ASSUME NEW s, \A p \in parts(s) : IsRead(p)
    PROVE  \A p \in parts(s) : jsonTexts(s)[Depth][p].ok
<1> DEFINE T == jsonTexts(s)
           S == {d \in Nat : d =< Depth => \A p \in parts(s) : Nesting[p.type] =< d => T[d][p].ok}
<1>1. /\ Depth \in Nat
      /\ \A d \in 0..Depth : T[d] = TextsLevel(s, T, d)
    BY TextsAre
<1> HIDE DEF T
<1>2. \A p \in parts(s) : /\ IsRead(p) /\ IsMessage(p) /\ nested(p) \subseteq parts(s)
                          /\ p.type \in Type /\ Nesting[p.type] \in Nat /\ Nesting[p.type] =< Depth
    <2> SUFFICES ASSUME NEW p \in parts(s)
                 PROVE  /\ IsRead(p) /\ IsMessage(p) /\ nested(p) \subseteq parts(s)
                        /\ p.type \in Type /\ Nesting[p.type] \in Nat /\ Nesting[p.type] =< Depth
        OBVIOUS
    <2>0. \A q \in parts(s) : IsMessage(q)
        BY DEF IsRead
    <2>1. IsRead(p) /\ IsMessage(p) /\ nested(p) \subseteq parts(s)
        BY <2>0, PartsClose
    <2>2. p.type \in Type
        BY <2>1 DEF IsMessage
    <2>3. Nesting[p.type] \in Nat /\ 2 * Nesting[p.type] + 2 =< Depth
        BY <2>2, NestingIs
    <2> QED BY <1>1, <2>1, <2>2, <2>3
<1>3. \A d \in 0..Depth : \A p \in parts(s) : T[d][p] = appendJSONObject(IF d = 0 THEN <<>> ELSE T[d - 1], p)
    BY <1>1 DEF TextsLevel
<1>4. 0 \in S
    <2> SUFFICES ASSUME NEW p \in parts(s), Nesting[p.type] =< 0
                 PROVE  T[0][p].ok
        OBVIOUS
    <2>1. \A q \in nested(p) : FALSE
        <3> SUFFICES ASSUME NEW q \in nested(p) PROVE FALSE
            OBVIOUS
        <3>1. q.type \in Type /\ Nesting[q.type] < Nesting[p.type]
            BY <1>2, NestedIs
        <3>2. Nesting[q.type] \in Nat /\ Nesting[p.type] \in Nat
            BY <1>2, <3>1, NestingIs
        <3> QED BY <3>1, <3>2
    <2>2. 0 \in 0..Depth
        BY <1>1
    <2>3. T[0][p] = appendJSONObject(<<>>, p)
        BY <1>3, <2>2
    <2> QED BY <1>2, <2>1, <2>3, ObjectOk
<1>5. ASSUME NEW d \in Nat, d \in S
      PROVE  d + 1 \in S
    <2> SUFFICES ASSUME d + 1 =< Depth, NEW p \in parts(s), Nesting[p.type] =< d + 1
                 PROVE  T[d + 1][p].ok
        OBVIOUS
    <2>1. d + 1 \in 0..Depth /\ d + 1 # 0 /\ (d + 1) - 1 = d /\ d =< Depth
        BY <1>1
    <2>2. T[d + 1][p] = appendJSONObject(T[d], p)
        BY <1>3, <2>1
    <2>3. ASSUME NEW q \in nested(p)
          PROVE  T[d][q].ok
        <3>1. q \in parts(s)
            BY <1>2
        <3>2. Nesting[q.type] < Nesting[p.type]
            BY <1>2, NestedIs
        <3>3. Nesting[q.type] =< d
            BY <1>2, <3>1, <3>2
        <3> QED BY <1>5, <2>1, <3>1, <3>3
    <2> QED BY <1>2, <2>2, <2>3, ObjectOk
<1> HIDE DEF S
<1>6. Depth \in S
    BY <1>1, <1>4, <1>5, NatSetInduction
<1> QED BY <1>1, <1>2, <1>6 DEF S, T

-----------------------------------------------------------------------------
(* The messages that are read *)
ReadFrom(t) == {ms \in Members(Depth) : Reading[t][ms].ok}
ReadMessages == UNION {{Msg(t, Reading[t][ms].v) : ms \in ReadFrom(t)} : t \in Type}

\* Each element of a field is nil or is read from a value of the text.
LEMMA FieldElements ==
    ASSUME NEW t \in Type, NEW n \in Names(t), NEW v \in JsonValue[Depth],
           meantField(Reading, lookupName(t, n), v).ok
    PROVE  LET f == lookupName(t, n)
           IN  \A e \in held(f, meantField(Reading, f, v).v) :
                   \/ f.type = "message" /\ e = NoMessage
                   \/ \E x \in JsonValue[Depth] : meantOne(Reading, f, x).ok /\ e = meantOne(Reading, f, x).v
<1> DEFINE f == lookupName(t, n)
           r == meantField(Reading, f, v)
<1>1. r.ok
    OBVIOUS
<1>2. CASE ~f.repeated
    <2>1. r = meantOne(Reading, f, v) /\ held(f, r.v) = {r.v}
        BY <1>2 DEF meantField, held
    <2> HIDE DEF f, r
    <2> QED BY <1>1, <2>1 DEF f, r
<1>3. CASE f.repeated
    <2>1. IsA("array", v) /\ r = meantList(Reading, f, v[2])
        BY <1>1, <1>3 DEF meantField, Malformed
    <2>2. v[2] \in Seq(JsonValue[Depth])
        <3>1. Depth \in 0..Depth
            BY JsonAssumption
        <3> QED BY <2>1, <3>1, ValueIs
    <2> DEFINE s == v[2]
    <2> DEFINE E(j) == meantElement(Reading, f, s[j])
    <2> DEFINE l == [j \in DOMAIN s |-> E(j).v]
    <2>3. r = When(\A j \in DOMAIN s : E(j).ok, l)
        BY <2>1 DEF meantList
    <2>4. (\A j \in DOMAIN s : E(j).ok) /\ r.v = l
        BY <1>1, <2>3, WhenIs, Zenon
    <2> HIDE DEF s, f, r
    <2>5. \A j \in DOMAIN s : s[j] \in JsonValue[Depth]
        BY <2>2, LenProperties DEF s
    <2>6. \A j \in DOMAIN s : \/ f.type = "message" /\ E(j).v = NoMessage
                              \/ E(j) = meantOne(Reading, f, s[j])
        BY DEF meantElement, Value
    <2>7. held(f, l) = {E(j).v : j \in DOMAIN s}
        BY <1>3 DEF held
    <2> HIDE DEF E, l
    <2>8. ASSUME NEW e \in held(f, r.v)
          PROVE  \/ f.type = "message" /\ e = NoMessage
                 \/ \E x \in JsonValue[Depth] : meantOne(Reading, f, x).ok /\ e = meantOne(Reading, f, x).v
        <3>1. PICK j \in DOMAIN s : e = E(j).v
            BY <2>4, <2>7
        <3>2. E(j).ok /\ s[j] \in JsonValue[Depth]
            BY <2>4, <2>5
        <3> QED BY <2>6, <3>1, <3>2
    <2> QED BY <2>8 DEF f, r
<1> QED BY <1>2, <1>3

LEMMA OneRead ==
    ASSUME NEW t \in Type, NEW n \in Names(t), NEW x \in JsonValue[Depth],
           meantOne(Reading, lookupName(t, n), x).ok
    PROVE  LET f == lookupName(t, n)
               e == meantOne(Reading, f, x).v
           IN  HoldsOne(f, e) /\ (f.type = "message" => Msg(f.schema, e) \in ReadMessages)
<1> DEFINE f == lookupName(t, n)
           r == meantOne(Reading, f, x)
<1>1. f \in FieldSchema /\ (f.type = "message" => f.schema \in Type) /\ r.ok
    BY LookupIs
<1>2. FitsOne(f, r.v)
    BY ElementFits
<1> HIDE DEF f
<1>3. ASSUME f.type # "message"
      PROVE  HoldsOne(f, r.v)
    <2>1. r = decodeJSONScalar(f.type, x)
        BY <1>3 DEF meantOne
    <2> HIDE DEF r
    <2> QED BY <1>1, <1>3, <2>1, ScalarHolds
<1>4. ASSUME f.type = "message"
      PROVE  HoldsOne(f, r.v) /\ Msg(f.schema, r.v) \in ReadMessages
    <2>1. IsA("object", x) /\ r = Reading[f.schema][x[2]]
        BY <1>1, <1>4 DEF meantOne, Malformed
    <2>2. x[2] \in Members(Depth)
        <3>1. Depth \in 0..Depth
            BY JsonAssumption
        <3> QED BY <2>1, <3>1, ValueIs
    <2> HIDE DEF r
    <2>3. r.v # NoMessage
        BY <1>1, <1>2, <1>4, NilAssumption DEF FitsOne
    <2>4. x[2] \in ReadFrom(f.schema)
        BY <1>1, <2>1, <2>2 DEF ReadFrom
    <2>5. Msg(f.schema, r.v) \in ReadMessages
        BY <1>1, <1>4, <2>1, <2>4 DEF ReadMessages
    <2>6. HoldsOne(f, r.v)
        BY <1>4, <2>3 DEF HoldsOne
    <2> QED BY <2>5, <2>6 DEF r
<1> HIDE DEF r
<1> QED BY <1>3, <1>4 DEF f, r

LEMMA ReadMessageIs ==
    ASSUME NEW p \in ReadMessages
    PROVE  IsRead(p) /\ nested(p) \subseteq ReadMessages
<1>1. PICK t \in Type : p \in {Msg(t, Reading[t][ms].v) : ms \in ReadFrom(t)}
    BY DEF ReadMessages
<1>2. PICK ms \in ReadFrom(t) : p = Msg(t, Reading[t][ms].v)
    BY <1>1
<1> DEFINE m == Reading[t][ms].v
           F(n) == meantField(Reading, lookupName(t, n), At(ms, n))
           D == present(t, ms)
<1>3. ms \in Members(Depth) /\ Reading[t][ms].ok
    BY DEF ReadFrom
<1>4. (\A n \in D : F(n).ok) /\ m = [n \in D |-> F(n).v]
    BY <1>3, MessageIs
<1>5. p.type = t /\ p.msg = m
    BY <1>2 DEF Msg
<1>6. \A n \in D : n \in Names(t) /\ At(ms, n) \in JsonValue[Depth]
    <2> SUFFICES ASSUME NEW n \in D
                 PROVE  n \in Names(t) /\ At(ms, n) \in JsonValue[Depth]
        OBVIOUS
    <2>1. n \in Names(t) /\ n \in Keys(ms)
        BY DEF present
    <2> QED BY <1>3, <2>1, AtIs DEF Members
<1>7. ASSUME NEW n \in D
      PROVE  LET f == lookupName(t, n)
             IN  /\ Fits(f, F(n).v) /\ Holds(f, F(n).v)
                 /\ \A e \in held(f, F(n).v) : f.type = "message" /\ e # NoMessage => Msg(f.schema, e) \in ReadMessages
    <2> DEFINE f == lookupName(t, n)
               w == F(n).v
    <2>1. n \in Names(t) /\ At(ms, n) \in JsonValue[Depth] /\ F(n).ok
        BY <1>4, <1>6
    <2>2. Fits(f, w)
        BY <2>1, FieldFits
    <2>3. \A e \in held(f, w) :
              \/ f.type = "message" /\ e = NoMessage
              \/ \E x \in JsonValue[Depth] : meantOne(Reading, f, x).ok /\ e = meantOne(Reading, f, x).v
        BY <2>1, FieldElements
    <2>4. ASSUME NEW e \in held(f, w)
          PROVE  \/ f.type = "message" /\ e = NoMessage
                 \/ HoldsOne(f, e) /\ (f.type = "message" => Msg(f.schema, e) \in ReadMessages)
        <3>1. CASE \E x \in JsonValue[Depth] : meantOne(Reading, f, x).ok /\ e = meantOne(Reading, f, x).v
            <4>1. PICK x \in JsonValue[Depth] : meantOne(Reading, f, x).ok /\ e = meantOne(Reading, f, x).v
                BY <3>1
            <4>2. LET y == meantOne(Reading, f, x).v
                  IN  HoldsOne(f, y) /\ (f.type = "message" => Msg(f.schema, y) \in ReadMessages)
                BY <2>1, <4>1, OneRead
            <4> HIDE DEF f, w
            <4> QED BY <4>1, <4>2
        <3> HIDE DEF f, w
        <3> QED BY <2>3, <3>1
    <2> HIDE DEF f, F, w
    <2>5. Holds(f, w)
        <3>1. CASE f.repeated
            <4>1. IsList(w) /\ \A j \in DOMAIN w : w[j] \in held(f, w)
                BY <2>2, <3>1 DEF Fits, held
            <4> QED BY <2>4, <3>1, <4>1 DEF Holds
        <3>2. CASE ~f.repeated
            <4>1. w \in held(f, w) /\ FitsOne(f, w)
                BY <2>2, <3>2 DEF held, Fits
            <4>2. ASSUME f.type = "message" PROVE w # NoMessage
                <5>1. f.schema \in Type
                    BY <2>1, <4>2, LookupIs DEF f
                <5> QED BY <4>1, <4>2, <5>1, NilAssumption DEF FitsOne
            <4> QED BY <2>4, <3>2, <4>1, <4>2 DEF Holds
        <3> QED BY <3>1, <3>2
    <2> QED BY <2>2, <2>4, <2>5 DEF f, w
<1> HIDE DEF F, m, D
<1>8. DOMAIN m = D /\ \A n \in D : m[n] = F(n).v
    BY <1>4
<1>9. D \subseteq Names(t)
    BY <1>6
<1>10. IsRead(p)
    BY <1>5, <1>7, <1>8, <1>9 DEF IsRead, IsMessage
<1>11. ASSUME NEW q \in nested(p)
       PROVE  q \in ReadMessages
    <2>1. PICK n \in D : \E v \in held(lookupName(t, n), m[n]) :
              /\ lookupName(t, n).type = "message" /\ v # NoMessage
              /\ q = Msg(lookupName(t, n).schema, v)
        BY <1>5, <1>8 DEF nested
    <2> QED BY <1>7, <1>8, <2>1
<1> QED BY <1>10, <1>11

LEMMA ReadParts ==
    ASSUME NEW s \in ReadMessages
    PROVE  \A p \in parts(s) : IsRead(p)
<1>1. parts(s) \subseteq ReadMessages
    BY ReadMessageIs, PartsIn
<1> QED BY <1>1, ReadMessageIs

-----------------------------------------------------------------------------
(* The type of the message *)

LEMMA ChangeStays ==
    ASSUME JsonInv, err = "running", NEW f, f.type = top.type, NEW g
    PROVE  LET z == [stack EXCEPT ![Len(stack)] = f]
           IN  z[1].type = type /\ Append(z, g)[1].type = type
<1> DEFINE n == Len(stack)
           z == [stack EXCEPT ![n] = f]
<1>1. n \in Nat /\ n >= 1 /\ n \in DOMAIN stack /\ IsList(stack) /\ top = stack[n] /\ 1 \in 1..n
    BY RunningIs DEF top
<1>2. IsList(z) /\ Len(z) = n /\ \A k \in DOMAIN z : z[k] = IF k = n THEN f ELSE stack[k]
    BY <1>1, ChangeInList
<1> HIDE DEF n, z
<1>3. DOMAIN z = 1..n /\ 1 \in DOMAIN z
    BY <1>1, <1>2, ListLen
<1>4. z[1].type = stack[1].type
    BY <1>1, <1>2, <1>3
<1>5. Append(z, g)[1] = z[1]
    BY <1>1, <1>2, <1>3, AppendToList
<1> QED BY <1>4, <1>5 DEF type, z, n

LEMMA UpdateStays ==
    ASSUME JsonInv, err = "running", NEW f, f.type = top.type, Update(f)
    PROVE  type' = type
<1>1. stack' = [stack EXCEPT ![Len(stack)] = f]
    BY DEF Update
<1> QED BY <1>1, ChangeStays DEF type

LEMMA MemberStays ==
    ASSUME JsonInv, NEW k, Member(k)
    PROVE  type' = type
<1> DEFINE f == top
           p == Past(k)
<1>1. err = "running"
    BY DEF Member, SkipKey, UnsetField, DecodeScalar, ScalarFail, EnterMessage, EnterList, KindFail,
           IsScalarField, AtField, AtKey
<1>2. FrameOK(f)
    BY <1>1, RunningIs
<1>3. DOMAIN p = {"type", "members", "left", "msg", "field", "todo", "list"} /\ p.type = f.type
    <2> HIDE DEF f
    <2>1. p = [f EXCEPT !.left = f.left \ {k}]
        BY DEF Past, f
    <2> QED BY <1>2, <2>1 DEF FrameOK
<1> HIDE DEF p
<1>4. CASE SkipKey(k)
    BY <1>1, <1>3, <1>4, UpdateStays DEF SkipKey, p
<1>5. CASE UnsetField(k)
    <2> DEFINE g == [p EXCEPT !.msg = [n \in DOMAIN top.msg \ {k} |-> top.msg[n]]]
    <2>1. Update(g)
        BY <1>5 DEF UnsetField, p
    <2>2. g.type = top.type
        BY <1>3
    <2> HIDE DEF g
    <2> QED BY <1>1, <2>1, <2>2, UpdateStays
<1>6. CASE DecodeScalar(k)
    <2> DEFINE v == decodeJSONScalar(fs(k).type, raw(k))
               g == Put(p, k, v.v)
    <2>1. Update(g)
        BY <1>6 DEF DecodeScalar, p
    <2>2. g.type = top.type
        <3> HIDE DEF v
        <3> QED BY <1>3 DEF Put
    <2> HIDE DEF g
    <2> QED BY <1>1, <2>1, <2>2, UpdateStays
<1>7. CASE EnterList(k)
    <2> DEFINE g == [p EXCEPT !.field = fs(k), !.todo = raw(k)[2]]
    <2>1. Update(g)
        BY <1>7 DEF EnterList, p
    <2>2. g.type = top.type
        BY <1>3
    <2> HIDE DEF g
    <2> QED BY <1>1, <2>1, <2>2, UpdateStays
<1>8. CASE EnterMessage(k)
    <2> DEFINE g == [p EXCEPT !.field = fs(k)]
               h == Frame(fs(k).schema, raw(k)[2], <<>>)
    <2>1. stack' = Append([stack EXCEPT ![Len(stack)] = g], h)
        BY <1>8 DEF EnterMessage, p
    <2>2. g.type = top.type
        BY <1>3
    <2> HIDE DEF g, h
    <2>3. Append([stack EXCEPT ![Len(stack)] = g], h)[1].type = type
        BY <1>1, <2>2, ChangeStays
    <2> QED BY <2>1, <2>3 DEF type
<1>9. CASE Fail
    BY <1>9 DEF Fail, type
<1> QED BY <1>4, <1>5, <1>6, <1>7, <1>8, <1>9 DEF Member, ScalarFail, KindFail

LEMMA TypeStays ==
    ASSUME JsonInv, Decode
    PROVE  type' = type
<1>1. ASSUME err = "running"
      PROVE  DOMAIN top = {"type", "members", "left", "msg", "field", "todo", "list"}
    BY <1>1, RunningIs DEF FrameOK
<1>2. CASE ReadFail \/ Finish
    BY <1>2 DEF ReadFail, Finish, type
<1>3. CASE NotAnObject \/ Start
    <2>1. err = "idle"
        BY <1>3 DEF NotAnObject, Start, Idle
    <2>2. Len(stack) = 1
        BY <2>1 DEF JsonInv
    <2>3. top = stack[1]
        BY <2>2 DEF top
    <2>4. \A ms, m : <<Frame(top.type, ms, m)>>[1].type = top.type
        BY DEF Frame
    <2>5. PICK ms, m : stack' = <<Frame(top.type, ms, m)>>
        BY <1>3 DEF NotAnObject, Start
    <2> QED BY <2>3, <2>4, <2>5 DEF type
<1>4. CASE \E k \in top.left : Member(k)
    BY <1>4, MemberStays
<1>5. CASE LeaveMessage
    <2> DEFINE n == Len(stack) - 1
               f == stack[n]
               done == IF f.field.repeated
                       THEN [f EXCEPT !.list = Append(f.list, top.msg)]
                       ELSE [Put(f, f.field.name, top.msg) EXCEPT !.field = NoField]
               front == SubSeq(stack, 1, n - 1)
    <2>1. err = "running" /\ Len(stack) > 1 /\ stack' = Append(front, done)
        BY <1>5 DEF LeaveMessage
    <2>2. IsList(stack) /\ Len(stack) \in Nat /\ DOMAIN stack = 1..Len(stack) /\ Running
        BY <2>1, RunningIs
    <2>3. n \in DOMAIN stack /\ n - 1 \in 0..Len(stack) /\ n - 1 \in Nat
        BY <2>1, <2>2
    <2>4. DOMAIN f = {"type", "members", "left", "msg", "field", "todo", "list"}
        BY <2>2, <2>3 DEF Running, FrameOK
    <2>5. IsList(front) /\ Len(front) = n - 1 /\ \A k \in 1..(n - 1) : front[k] = stack[k]
        BY <2>2, <2>3, FrontOfList
    <2> HIDE DEF f
    <2>6. done.type = f.type
        BY <2>4 DEF Put
    <2> HIDE DEF done, front
    <2>7. /\ \A k \in 1..(n - 1) : Append(front, done)[k] = front[k]
          /\ Append(front, done)[(n - 1) + 1] = done
        BY <2>5, AppendToList
    <2>8. CASE n = 1
        <3>1. (n - 1) + 1 = 1
            BY <2>8
        <3> HIDE DEF n
        <3> QED BY <2>1, <2>6, <2>7, <2>8, <3>1 DEF type, f
    <2>9. CASE n # 1
        <3>1. 1 \in 1..(n - 1)
            BY <2>3, <2>9
        <3> HIDE DEF n
        <3> QED BY <2>1, <2>5, <2>7, <3>1 DEF type
    <2> QED BY <2>8, <2>9
<1>6. CASE NullElement \/ ScalarElement
    <2>1. err = "running" /\ \E v : Update(Took(v))
        BY <1>6 DEF NullElement, ScalarElement, AtElement, InList
    <2>2. PICK v : Update(Took(v))
        BY <2>1
    <2>3. Took(v).type = top.type
        <3> DEFINE f == top
        <3>1. DOMAIN f = {"type", "members", "left", "msg", "field", "todo", "list"}
            BY <1>1, <2>1
        <3>2. Took(v) = [f EXCEPT !.todo = Tail(f.todo), !.list = Append(f.list, v)]
            BY DEF Took
        <3> HIDE DEF f
        <3>3. Took(v).type = f.type
            BY <3>1, <3>2
        <3> QED BY <3>3 DEF f
    <2> QED BY <2>1, <2>2, <2>3, UpdateStays
<1>7. CASE EnterElement
    <2> DEFINE f == top
               g == [f EXCEPT !.todo = Tail(f.todo)]
               h == Frame(f.field.schema, elem[2], <<>>)
    <2>1. err = "running" /\ stack' = Append([stack EXCEPT ![Len(stack)].todo = Tail(f.todo)], h)
        BY <1>7 DEF EnterElement, AtElement, InList
    <2>2. [stack EXCEPT ![Len(stack)].todo = Tail(f.todo)] = [stack EXCEPT ![Len(stack)] = g]
        BY DEF top
    <2>3. DOMAIN f = {"type", "members", "left", "msg", "field", "todo", "list"}
        BY <1>1, <2>1
    <2> HIDE DEF f, h
    <2>4. g.type = f.type
        BY <2>3
    <2> HIDE DEF g
    <2>5. Append([stack EXCEPT ![Len(stack)] = g], h)[1].type = type
        BY <2>1, <2>4, ChangeStays DEF f
    <2> QED BY <2>1, <2>2, <2>5 DEF type
<1>8. CASE ElementFail
    BY <1>8 DEF ElementFail, Fail, type
<1>9. CASE EndList
    <2> DEFINE f == top
               g == [Put(f, f.field.name, f.list) EXCEPT !.field = NoField, !.list = <<>>]
    <2>1. err = "running" /\ Update(g)
        BY <1>9 DEF EndList, InList
    <2>2. DOMAIN f = {"type", "members", "left", "msg", "field", "todo", "list"}
        BY <1>1, <2>1
    <2> HIDE DEF f
    <2>3. g.type = f.type
        BY <2>2 DEF Put
    <2> HIDE DEF g
    <2> QED BY <2>1, <2>3, UpdateStays DEF f
<1> QED BY <1>2, <1>3, <1>4, <1>5, <1>6, <1>7, <1>8, <1>9 DEF Decode

-----------------------------------------------------------------------------
(* The invariant of sender and receiver *)

\* The input is the text of a message that was sent, and the receiver has a type for it.
SentInv ==
    sent # NoMessage =>
        LET x == appendJSONMessage(sent)
        IN  /\ \A p \in parts(sent) : IsMessage(p)
            /\ Reads(type, sent.type)
            /\ x.ok /\ data = <<x.v>>

WireInv == JsonInv /\ SentInv

LEMMA SentText ==
    ASSUME NEW s, \A p \in parts(s) : IsMessage(p), appendJSONMessage(s).ok
    PROVE  LET x == appendJSONMessage(s).v
           IN  /\ s.type \in Type /\ IsA("object", x) /\ x \in JsonValue[Depth]
               /\ \A t \in Type : Reads(t, s.type) => Reading[t][x[2]] = Value(Received(s, t))
<1> DEFINE x == appendJSONMessage(s).v
<1>1. s \in parts(s) /\ s.type \in Type
    BY PartsClose DEF IsMessage
<1>2. Readable(s, x, receivedParts(s)[Depth][s])
    BY <1>1, PartsText DEF appendJSONMessage
<1> HIDE DEF x
<1>3. Nesting[s.type] \in Nat /\ 2 * Nesting[s.type] + 2 =< Depth /\ Depth \in Nat
    BY <1>1, NestingIs, JsonAssumption
<1>4. x \in JsonValue[Depth]
    <2> DEFINE e == 2 * Nesting[s.type] + 2
    <2>1. e \in 0..Depth /\ Depth \in 0..Depth /\ e =< Depth
        BY <1>3
    <2>2. x \in JsonValue[e]
        BY <1>2 DEF Readable
    <2> HIDE DEF e
    <2> QED BY <2>1, <2>2, LevelsGrow
<1> QED BY <1>1, <1>2, <1>4 DEF Readable, Received, x

\* What a text is read as can be encoded.
LEMMA ReadOk ==
    ASSUME NEW s \in ReadMessages
    PROVE  /\ \A p \in parts(s) : IsMessage(p)
           /\ appendJSONMessage(s).ok
<1>1. \A p \in parts(s) : IsRead(p)
    BY ReadParts
<1>2. \A p \in parts(s) : IsMessage(p)
    BY <1>1 DEF IsRead
<1>3. s \in parts(s)
    BY <1>2, PartsClose
<1>4. jsonTexts(s)[Depth][s].ok
    BY <1>1, <1>3, PartsOk
<1> QED BY <1>2, <1>4 DEF appendJSONMessage

LEMMA ObjectRead ==
    ASSUME OrderIsFree, Ended, readErr = "nil", IsA("object", data[1])
    PROVE  LET r == Reading[type][data[1][2]]
           IN  err = (IF r.ok THEN "nil" ELSE "ErrMalformedData") /\ (err = "nil" => message = r.v)
<1> DEFINE r == Reading[type][data[1][2]]
<1>1. data[1] # Null
    BY DEF IsA, Null
<1> HIDE DEF r
<1>2. err = (IF r.ok THEN "nil" ELSE "ErrMalformedData") /\ (err = "nil" => message = r.v)
    BY <1>1 DEF OrderIsFree, r
<1> QED BY <1>2 DEF r

LEMMA DecodedIs ==
    ASSUME JsonInv, err = "nil"
    PROVE  Msg(type, message) \in ReadMessages
<1>1. OrderIsFree /\ WholeFields /\ data \in Text /\ type \in Type
    BY DEF JsonInv, Typed, type
<1>2. readErr = "nil"
    BY <1>1 DEF WholeFields
<1>3. data # <<>> /\ data[1] # Bad
    BY <1>2 DEF readErr
<1>4. data[1] \in JsonValue[Depth]
    BY <1>1, <1>3, HeadTailProperties, EmptySeq DEF Text
<1>5. CASE IsA("object", data[1])
    <2> DEFINE ms == data[1][2]
    <2>1. ms \in Members(Depth)
        <3>1. Depth \in 0..Depth
            BY JsonAssumption
        <3> QED BY <1>4, <1>5, <3>1, ValueIs
    <2>2. Reading[type][ms].ok /\ message = Reading[type][ms].v
        BY <1>1, <1>2, <1>5, ObjectRead DEF Ended
    <2> HIDE DEF ms
    <2> QED BY <1>1, <2>1, <2>2 DEF ReadMessages, ReadFrom
<1>6. CASE ~IsA("object", data[1])
    <2>1. message = <<>>
        BY <1>1, <1>2, <1>6 DEF OrderIsFree, Ended
    <2> DEFINE ms == <<>>
               F(n) == meantField(Reading, lookupName(type, n), At(ms, n))
    <2>2. ms \in Members(Depth) /\ present(type, ms) = {}
        BY EmptySeq DEF Members, present, Keys
    <2> HIDE DEF ms
    <2>3. /\ Reading[type][ms].ok <=> \A n \in present(type, ms) : F(n).ok
          /\ Reading[type][ms].ok => Reading[type][ms].v = [n \in present(type, ms) |-> F(n).v]
        BY <1>1, <2>2, MessageIs
    <2> HIDE DEF F
    <2>4. Reading[type][ms].ok /\ Reading[type][ms].v = <<>>
        BY <2>2, <2>3
    <2> QED BY <1>1, <2>1, <2>2, <2>4 DEF ReadMessages, ReadFrom
<1> QED BY <1>5, <1>6

LEMMA WireInitKeeps ==
    ASSUME WireInit
    PROVE  WireInv
<1>1. CASE Init /\ sent = NoMessage
    BY <1>1, InitKeeps DEF WireInv, SentInv
<1>2. CASE sent # NoMessage \/ ~Init
    <2>1. PICK s \in Sent :
              LET text == appendJSONMessage(s)
                  t == Receiver[s.type]
              IN  /\ text.ok /\ data = <<text.v>>
                  /\ before = Before[t]
                  /\ stack = <<Frame(t, <<>>, before)>>
                  /\ sent = s
        BY <1>2 DEF WireInit
    <2> DEFINE x == appendJSONMessage(s)
               t == Receiver[s.type]
               f == Frame(t, <<>>, before)
    <2>2. err = "idle"
        BY <1>2 DEF WireInit
    <2>3. \A p \in parts(s) : IsMessage(p)
        BY SentAssumption
    <2>4. x.ok /\ data = <<x.v>> /\ before = Before[t] /\ stack = <<f>> /\ sent = s
        BY <2>1
    <2>5. s.type \in Type /\ x.v \in JsonValue[Depth]
        BY <2>3, <2>4, SentText
    <2> HIDE DEF x
    <2>6. data \in Text
        BY <2>4, <2>5 DEF Text
    <2>7. t \in Type /\ Reads(t, s.type)
        BY <2>5, ReceiverAssumption DEF Reads
    <2> HIDE DEF t
    <2>8. f.type = t /\ f.left = {} /\ f.members = <<>> /\ f.msg = before /\ f.field = NoField
        BY DEF Frame, Keys
    <2>9. Typed(f)
        BY <2>4, <2>7, <2>8, BeforeAssumption DEF Typed
    <2> HIDE DEF f
    <2>10. Len(stack) = 1 /\ DOMAIN stack = {1} /\ stack[1] = f
        BY <2>4
    <2>11. message = before /\ type = t
        BY <2>8, <2>10 DEF message, type
    <2>12. OrderIsFree /\ WholeFields
        BY <2>2, <2>11 DEF OrderIsFree, WholeFields, Ended
    <2>13. stack = <<Frame(stack[1].type, <<>>, before)>>
        BY <2>4, <2>8, <2>10 DEF f
    <2>14. JsonInv
        BY <2>2, <2>6, <2>9, <2>10, <2>12, <2>13 DEF JsonInv
    <2>15. SentInv
        BY <2>3, <2>4, <2>7, <2>11 DEF SentInv, x
    <2> QED BY <2>14, <2>15 DEF WireInv
<1> QED BY <1>1, <1>2

LEMMA RelayKeeps ==
    ASSUME WireInv, Relay
    PROVE  WireInv'
<1> DEFINE s == Msg(type, message)
           x == appendJSONMessage(s)
           f == Frame(type, <<>>, message)
<1>1. err = "nil" /\ JsonInv
    BY DEF Relay, WireInv
<1>2. Len(stack) = 1 /\ Typed(stack[1])
    BY <1>1 DEF JsonInv
<1>3. top.type = type /\ top.msg = message
    BY <1>2 DEF top, type, message
<1>4. /\ x.ok /\ data' = <<x.v>> /\ before' = message /\ stack' = <<f>>
      /\ err' = "idle" /\ sent' = s
    BY <1>3 DEF Relay
<1>5. s \in ReadMessages
    BY <1>1, DecodedIs
<1>6. \A p \in parts(s) : IsMessage(p)
    BY <1>5, ReadOk
<1>7. x.v \in JsonValue[Depth]
    BY <1>4, <1>6, SentText
<1>8. s.type = type
    BY DEF Msg
<1> HIDE DEF s, x
<1>9. data' \in Text
    BY <1>4, <1>7 DEF Text
<1>10. f.type = type /\ f.left = {} /\ f.members = <<>> /\ f.msg = message /\ f.field = NoField
    BY DEF Frame, Keys
<1>11. Typed(f)
    BY <1>2, <1>10 DEF Typed, type, message
<1> HIDE DEF f
<1>12. Len(stack') = 1 /\ DOMAIN stack' = {1} /\ stack'[1] = f
    BY <1>4
<1>13. message' = before' /\ type' = type
    BY <1>4, <1>10, <1>12 DEF message, type
<1>14. OrderIsFree' /\ WholeFields'
    BY <1>4, <1>13 DEF OrderIsFree, WholeFields, Ended
<1>15. stack' = <<Frame(stack'[1].type, <<>>, before')>>
    BY <1>4, <1>10, <1>12 DEF f
<1>16. JsonInv'
    BY <1>4, <1>9, <1>11, <1>12, <1>14, <1>15 DEF JsonInv
<1>17. SentInv'
    <2>1. Reads(type', sent'.type)
        BY <1>4, <1>8, <1>13 DEF Reads
    <2> QED BY <1>4, <1>6, <2>1 DEF SentInv, x
<1> QED BY <1>16, <1>17 DEF WireInv

LEMMA DecodeKeepsSent ==
    ASSUME WireInv, Decode, UNCHANGED sent
    PROVE  WireInv'
<1>1. JsonInv /\ SentInv
    BY DEF WireInv
<1>2. JsonInv'
    BY <1>1, StepKeeps
<1>3. type' = type
    BY <1>1, TypeStays
<1>4. data' = data
    BY DEF Decode, Member, ReadFail, NotAnObject, Start, SkipKey, UnsetField, DecodeScalar, ScalarFail,
           EnterMessage, EnterList, KindFail, LeaveMessage, NullElement, EnterElement, ScalarElement,
           ElementFail, EndList, Finish, Fail, Going, Idle
<1>5. SentInv'
    BY <1>1, <1>3, <1>4 DEF SentInv
<1> QED BY <1>2, <1>5 DEF WireInv

LEMMA WireStepKeeps ==
    ASSUME WireInv, [WireNext]_wireVars
    PROVE  WireInv'
<1>1. CASE UNCHANGED wireVars
    <2>1. UNCHANGED jsonVars /\ sent' = sent /\ data' = data /\ stack' = stack
        BY <1>1 DEF wireVars, jsonVars
    <2>2. JsonInv'
        BY <2>1, StutterKeeps DEF WireInv
    <2>3. SentInv'
        BY <2>1 DEF WireInv, SentInv, type
    <2> QED BY <2>2, <2>3 DEF WireInv
<1> QED BY <1>1, DecodeKeepsSent, RelayKeeps DEF WireNext

LEMMA InvRoundTrip == WireInv => RoundTrip
<1> SUFFICES ASSUME WireInv, Ended, sent # NoMessage
             PROVE  err = "nil" /\ message = Received(sent, type)
    BY DEF RoundTrip
<1> DEFINE x == appendJSONMessage(sent)
<1>1. /\ \A p \in parts(sent) : IsMessage(p)
      /\ Reads(type, sent.type) /\ x.ok /\ data = <<x.v>>
    BY DEF WireInv, SentInv
<1>2. /\ sent.type \in Type /\ IsA("object", x.v)
      /\ \A t \in Type : Reads(t, sent.type) => Reading[t][x.v[2]] = Value(Received(sent, t))
    BY <1>1, SentText
<1> HIDE DEF x
<1>3. OrderIsFree /\ type \in Type
    BY DEF WireInv, JsonInv, Ended, Typed, type
<1>4. data[1] = x.v /\ Len(data) = 1 /\ data # <<>> /\ data[1] # Bad
    BY <1>1, <1>2 DEF IsA, Bad
<1>5. readErr = "nil"
    BY <1>4 DEF readErr
<1>6. Reading[type][data[1][2]] = Value(Received(sent, type))
    BY <1>1, <1>2, <1>3, <1>4
<1> DEFINE r == Reading[type][data[1][2]]
<1>7. err = (IF r.ok THEN "nil" ELSE "ErrMalformedData") /\ (err = "nil" => message = r.v)
    BY <1>2, <1>3, <1>4, <1>5, ObjectRead
<1>8. r.ok /\ r.v = Received(sent, type)
    BY <1>6 DEF Value
<1> QED BY <1>7, <1>8

LEMMA InvDecoder == WireInv => TypeOK /\ OrderIsFree /\ WholeFields
BY InvTypeOK, InvOrderIsFree, InvWholeFields DEF WireInv

LEMMA InvCanBeSentOn == WireInv => CanBeSentOn
BY DecodedIs, ReadOk DEF WireInv, CanBeSentOn

-----------------------------------------------------------------------------
(* The theorems, about every text, every schema and every order of the map. *)

\* The calls of decodeJSONObject in json.go hold, each of the fields it has done, what the
\* text means for them.
THEOREM DecodeInvariance == DecodeSpec => []JsonInv
<1>1. Init => JsonInv
    BY InitKeeps
<1>2. JsonInv /\ [Decode]_jsonVars => JsonInv'
    BY StepKeeps
<1> QED BY <1>1, <1>2, PTL DEF DecodeSpec

\* Every value that DecodeJSON stores has the width and type of its field: a float, for
\* one, is a float of its width, so that rounding it again changes nothing.
THEOREM TypeCorrect == DecodeSpec => []TypeOK
BY DecodeInvariance, InvTypeOK, PTL

\* Go's order of the members of a map decides nothing: DecodeJSON accepts a text or not,
\* and an accepted text gives a message, as the schema says and whatever the order.
THEOREM OrderFree == DecodeSpec => []OrderIsFree
BY DecodeInvariance, InvOrderIsFree, PTL

\* Whenever DecodeJSON fails, the fields that are set are whole and right, and none is left
\* of what the message held; a text that cannot be read leaves all of it.
THEOREM FieldsWhole == DecodeSpec => []WholeFields
BY DecodeInvariance, InvWholeFields, PTL

-----------------------------------------------------------------------------
(* The theorems, about every message that is sent and every text that is sent on. *)

\* The receiver of a message decodes the text that the encoder made of it, whatever its
\* message held before: the two ends of json.go agree on what a text is.
THEOREM WireInvariance == WireSpec => []WireInv
<1>1. WireInit => WireInv
    BY WireInitKeeps
<1>2. WireInv /\ [WireNext]_wireVars => WireInv'
    BY WireStepKeeps
<1> QED BY <1>1, <1>2, PTL DEF WireSpec

\* DecodeJSON is right, whatever the order of members and wherever it fails, about what the
\* encoder made too, and when the message that it fills was decoded before.
THEOREM WireDecodes == WireSpec => [](TypeOK /\ OrderIsFree /\ WholeFields)
BY WireInvariance, InvDecoder, PTL

\* What appendJSONMessage encodes, DecodeJSON decodes: the receiver, with fewer fields or
\* with all, gets the values of those that it knows, nil elements and empty lists too.
THEOREM MessagesArrive == WireSpec => []RoundTrip
BY WireInvariance, InvRoundTrip, PTL

\* Every message that DecodeJSON accepted can be encoded: none has a float that JSON has no
\* number for.
THEOREM MessagesGoOn == WireSpec => []CanBeSentOn
BY WireInvariance, InvCanBeSentOn, PTL
=============================================================================
