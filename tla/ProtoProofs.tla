----------------------------- MODULE ProtoProofs -----------------------------
(***************************************************************************)
(* Proofs about Proto and ProtoWire, for any sizes of the encoding, any    *)
(* message types, any messages and any bytes.                              *)
(*                                                                         *)
(* Of the decoder on any bytes: every position stays inside the bytes of   *)
(* its call and every decoded value fits its field (TypeOK), and the       *)
(* decoder stays in step with the fields of its input, the ones it knows   *)
(* and the ones it skips (OnBoundary).  The rest of the invariant is about *)
(* the calls that have not returned: each is in a field that holds         *)
(* messages of the type of the next, and a packed loop is in a field that  *)
(* can be packed.                                                          *)
(*                                                                         *)
(* Of an encoding that was cut anywhere: what arrived as a whole is what   *)
(* the receiver has (RoundTrip), and a cut is noticed (CutIsFound).  The   *)
(* invariant says of every call that has not returned which part of the    *)
(* sent message it decodes (SentFrames): its bytes are a beginning of that *)
(* part's encoding, its position is after some of the part's pieces, and   *)
(* its message has what those pieces carry.                                *)
(***************************************************************************)
EXTENDS ProtoWire, DataLemmas

-----------------------------------------------------------------------------
(* Varints *)
LEMMA GroupWeightIs ==
    /\ groupWeight[0] = 1
    /\ \A j \in 1..Groups : groupWeight[j] = groupWeight[j - 1] * GroupSize
<1> DEFINE P(f, n) == f = [j \in 0..n |-> IF j = 0 THEN 1 ELSE f[j - 1] * GroupSize]
<1> DEFINE S == {n \in Nat : \E f : P(f, n)}
<1>1. 0 \in S
    <2>1. P([j \in 0..0 |-> 1], 0)
        OBVIOUS
    <2> QED BY <2>1
<1>2. ASSUME NEW n \in Nat, n \in S
      PROVE  n + 1 \in S
    <2>1. PICK f : P(f, n)
        BY <1>2
    <2> DEFINE g == [j \in 0..(n + 1) |-> IF j = n + 1 THEN f[n] * GroupSize ELSE f[j]]
    <2>2. ASSUME NEW j \in 0..(n + 1)
          PROVE  g[j] = IF j = 0 THEN 1 ELSE g[j - 1] * GroupSize
        <3>1. CASE j = n + 1
            BY <3>1
        <3>2. CASE j # n + 1
            <4>1. j \in 0..n /\ (j # 0 => j - 1 \in 0..n)
                BY <3>2
            <4> HIDE DEF P
            <4>2. f[j] = IF j = 0 THEN 1 ELSE f[j - 1] * GroupSize
                BY <2>1, <4>1 DEF P
            <4> QED BY <3>2, <4>1, <4>2
        <3> QED BY <3>1, <3>2
    <2>3. P(g, n + 1)
        BY <2>2
    <2> HIDE DEF P, g
    <2> QED BY <2>3
<1> HIDE DEF P, S
<1>3. Groups \in Nat /\ Nat \subseteq S
    BY <1>1, <1>2, NatSetInduction, ProtoAssumption
<1>4. \E f : P(f, Groups)
    BY <1>3 DEF S
<1>5. P(groupWeight, Groups)
    BY <1>4 DEF P, groupWeight
<1>6. \A j \in 0..Groups : groupWeight[j] = IF j = 0 THEN 1 ELSE groupWeight[j - 1] * GroupSize
    BY <1>5, Zenon DEF P
<1> QED BY <1>3, <1>6

LEMMA GroupWeightPositive ==
    \A j \in 0..Groups : groupWeight[j] \in Nat /\ groupWeight[j] >= 1
<1> DEFINE S == {n \in Nat : n =< Groups => groupWeight[n] \in Nat /\ groupWeight[n] >= 1}
<1>1. 0 \in S
    BY GroupWeightIs
<1>2. ASSUME NEW n \in Nat, n \in S
      PROVE  n + 1 \in S
    <2> SUFFICES ASSUME n + 1 =< Groups
                 PROVE  groupWeight[n + 1] \in Nat /\ groupWeight[n + 1] >= 1
        OBVIOUS
    <2>1. Groups \in Nat /\ GroupSize \in Nat /\ GroupSize >= 1
        BY ProtoAssumption
    <2>2. n + 1 \in 1..Groups /\ (n + 1) - 1 = n
        BY <2>1
    <2>3. groupWeight[n + 1] = groupWeight[n] * GroupSize
        BY <2>2, GroupWeightIs
    <2>4. groupWeight[n] \in Nat /\ groupWeight[n] >= 1
        BY <1>2, <2>1, <2>2
    <2>5. \A a, b \in Nat : a >= 1 /\ b >= 1 => a * b \in Nat /\ a * b >= 1
        OBVIOUS
    <2> QED BY <2>1, <2>3, <2>4, <2>5
<1> HIDE DEF S
<1>3. Groups \in Nat /\ Nat \subseteq S
    BY <1>1, <1>2, NatSetInduction, ProtoAssumption
<1> QED BY <1>3 DEF S

\* A varint shorter than the longest is below what the longest can hold.
LEMMA GroupWeightBelow ==
    /\ Size64 \in Nat \ {0}
    /\ \A j \in 0..(Groups - 1) : groupWeight[j] =< Size64
<1>1. Groups \in Nat /\ Groups >= 1 /\ LastSize \in Nat /\ LastSize >= 1
      /\ GroupSize \in Nat /\ GroupSize >= 1
    BY ProtoAssumption
<1>2. \A a, b \in Nat : a >= 1 /\ b >= 1 => a * b \in Nat /\ a * b >= a
    OBVIOUS
<1> DEFINE w == groupWeight[Groups - 1]
<1>3. w \in Nat /\ w >= 1
    BY <1>1, GroupWeightPositive
<1>4. Size64 \in Nat \ {0} /\ w =< Size64
    BY <1>1, <1>2, <1>3 DEF Size64
<1> DEFINE S == {n \in Nat : n =< Groups - 1 => groupWeight[Groups - 1 - n] =< w}
<1>5. 0 \in S
    BY <1>1, <1>3
<1>6. ASSUME NEW n \in Nat, n \in S
      PROVE  n + 1 \in S
    <2> SUFFICES ASSUME n + 1 =< Groups - 1
                 PROVE  groupWeight[Groups - 1 - (n + 1)] =< w
        OBVIOUS
    <2> DEFINE j == Groups - 1 - n
    <2>1. j \in 1..Groups /\ j - 1 \in 0..Groups /\ Groups - 1 - (n + 1) = j - 1
        BY <1>1
    <2>2. groupWeight[j] =< w
        BY <1>1, <1>6
    <2> HIDE DEF j
    <2>3. groupWeight[j] = groupWeight[j - 1] * GroupSize
        BY <2>1, GroupWeightIs
    <2>4. groupWeight[j - 1] \in Nat /\ groupWeight[j - 1] >= 1 /\ groupWeight[j] \in Nat
        BY <2>1, GroupWeightPositive
    <2> QED BY <1>1, <1>2, <1>3, <2>1, <2>2, <2>3, <2>4
<1> HIDE DEF S, w
<1>7. Nat \subseteq S
    BY <1>5, <1>6, NatSetInduction
<1>8. ASSUME NEW j \in 0..(Groups - 1)
      PROVE  groupWeight[j] =< w
    <2>1. Groups - 1 - j \in Nat /\ Groups - 1 - j =< Groups - 1 /\ Groups - 1 - (Groups - 1 - j) = j
        BY <1>1
    <2> QED BY <1>7, <2>1 DEF S
<1> QED BY <1>3, <1>4, <1>8, GroupWeightPositive, <1>1

\* The sum that groupsSum recurs on exists, whatever the bytes.
GroupBits(data, i, j) == data[i + j] % (IF j = Groups THEN LastSize ELSE GroupSize)

LEMMA GroupsSumIs ==
    ASSUME NEW data, NEW i
    PROVE  /\ groupsSum(data, i)[0] = 0
           /\ \A j \in 1..Groups :
                  groupsSum(data, i)[j]
                      = groupsSum(data, i)[j - 1] + GroupBits(data, i, j) * groupWeight[j - 1]
<1> DEFINE D(j) == GroupBits(data, i, j) * groupWeight[j - 1]
<1> DEFINE P(f, n) == f = [j \in 0..n |-> IF j = 0 THEN 0 ELSE f[j - 1] + D(j)]
<1> DEFINE S == {n \in Nat : \E f : P(f, n)}
<1>1. 0 \in S
    <2>1. P([j \in 0..0 |-> 0], 0)
        OBVIOUS
    <2> QED BY <2>1
<1>2. ASSUME NEW n \in Nat, n \in S
      PROVE  n + 1 \in S
    <2>1. PICK f : P(f, n)
        BY <1>2
    <2> DEFINE g == [j \in 0..(n + 1) |-> IF j = n + 1 THEN f[n] + D(n + 1) ELSE f[j]]
    <2> HIDE DEF D
    <2>2. ASSUME NEW j \in 0..(n + 1)
          PROVE  g[j] = IF j = 0 THEN 0 ELSE g[j - 1] + D(j)
        <3>1. CASE j = n + 1
            BY <3>1
        <3>2. CASE j # n + 1
            <4>1. j \in 0..n /\ (j # 0 => j - 1 \in 0..n)
                BY <3>2
            <4> HIDE DEF P
            <4>2. f[j] = IF j = 0 THEN 0 ELSE f[j - 1] + D(j)
                BY <2>1, <4>1 DEF P
            <4> QED BY <3>2, <4>1, <4>2
        <3> QED BY <3>1, <3>2
    <2>3. P(g, n + 1)
        BY <2>2
    <2> HIDE DEF P, g
    <2> QED BY <2>3
<1> HIDE DEF P, S
<1>3. Groups \in Nat /\ Nat \subseteq S
    BY <1>1, <1>2, NatSetInduction, ProtoAssumption
<1>4. \E f : P(f, Groups)
    BY <1>3 DEF S
<1>5. groupsSum(data, i) = CHOOSE f : P(f, Groups)
    BY DEF P, D, groupsSum, GroupBits
<1>6. P(groupsSum(data, i), Groups)
    BY <1>4, <1>5, Zenon
<1> DEFINE f == groupsSum(data, i)
<1> HIDE DEF f
<1>7. \A j \in 0..Groups : f[j] = IF j = 0 THEN 0 ELSE f[j - 1] + D(j)
    BY <1>6, Zenon DEF P, f
<1> HIDE DEF D
<1>8. f[0] = 0 /\ \A j \in 1..Groups : f[j] = f[j - 1] + D(j)
    BY <1>3, <1>7
<1> QED BY <1>8 DEF f, D

\* The value of the first n bytes is below what as many can hold.
LEMMA GroupsSumBelow ==
    ASSUME NEW data \in Seq(Byte), NEW i \in 0..Len(data), NEW n \in 0..Groups, i + n =< Len(data)
    PROVE  groupsSum(data, i)[n] \in 0..(Size64 - 1)
<1> DEFINE f == groupsSum(data, i)
<1> DEFINE bound(j) == IF j = Groups THEN Size64 ELSE groupWeight[j]
<1> DEFINE S == {k \in Nat : k =< n => f[k] \in Nat /\ f[k] < bound(k)}
<1> HIDE DEF f
<1>1. Groups \in Nat /\ Groups >= 1 /\ LastSize \in Nat \ {0} /\ GroupSize \in Nat \ {0}
    BY ProtoAssumption
<1>2. Len(data) \in Nat /\ i \in Nat /\ n \in Nat
    BY <1>1, LenProperties
<1>3. 0 \in S
    BY <1>1, GroupsSumIs, GroupWeightIs DEF f
<1>4. ASSUME NEW k \in Nat, k \in S
      PROVE  k + 1 \in S
    <2> SUFFICES ASSUME k + 1 =< n
                 PROVE  f[k + 1] \in Nat /\ f[k + 1] < bound(k + 1)
        OBVIOUS
    <2> DEFINE size == IF k + 1 = Groups THEN LastSize ELSE GroupSize
    <2> DEFINE d == GroupBits(data, i, k + 1)
    <2>1. k + 1 \in 1..Groups /\ (k + 1) - 1 = k /\ k \in 0..(Groups - 1) /\ k # Groups
        BY <1>1, <1>2
    <2>2. f[k + 1] = f[k] + d * groupWeight[k]
        BY <2>1, GroupsSumIs DEF f
    <2>3. f[k] \in Nat /\ f[k] < groupWeight[k]
        BY <1>2, <1>4, <2>1
    <2>4. d \in Nat /\ d < size /\ size \in Nat
        <3>1. i + (k + 1) \in 1..Len(data)
            BY <1>2
        <3>2. data[i + (k + 1)] \in Nat
            BY <3>1, <1>1, ElementOfSeq DEF Byte
        <3>3. \A x \in Nat, g \in Nat \ {0} : x % g \in Nat /\ x % g < g
            OBVIOUS
        <3> QED BY <1>1, <3>2, <3>3 DEF GroupBits
    <2>5. groupWeight[k] \in Nat
        BY <1>1, <2>1, GroupWeightPositive
    <2>6. bound(k + 1) = groupWeight[k] * size
        <3>1. CASE k + 1 = Groups
            <4>1. k = Groups - 1
                BY <1>1, <3>1
            <4> QED BY <3>1, <4>1 DEF Size64
        <3>2. CASE k + 1 # Groups
            BY <2>1, <3>2, GroupWeightIs
        <3> QED BY <3>1, <3>2
    <2> HIDE DEF d, size, bound
    <2>7. \A s, w, x, g \in Nat : s < w /\ x < g => s + x * w \in Nat /\ s + x * w < w * g
        OBVIOUS
    <2>8. f[k] + d * groupWeight[k] \in Nat /\ f[k] + d * groupWeight[k] < groupWeight[k] * size
        BY <2>3, <2>4, <2>5, <2>7, Zenon
    <2> QED BY <2>2, <2>6, <2>8, Zenon
<1> HIDE DEF S, bound
<1>5. Nat \subseteq S
    BY <1>3, <1>4, NatSetInduction
<1>6. f[n] \in Nat /\ f[n] < bound(n)
    BY <1>2, <1>5 DEF S
<1>7. Size64 \in Nat /\ bound(n) \in Nat /\ bound(n) =< Size64
    BY <1>1, GroupWeightBelow, GroupWeightPositive DEF bound
<1> QED BY <1>6, <1>7 DEF f

LEMMA VarintIs ==
    ASSUME NEW data \in Seq(Byte), NEW i \in 0..Len(data)
    PROVE  LET c == consumeVarint(data, i)
           IN  c.n \in 0..Groups /\ i + c.n =< Len(data) /\ c.v \in 0..(Size64 - 1)
<1> DEFINE n == IF Stops(data, i) = {} THEN 0
                ELSE CHOOSE n \in Stops(data, i) : \A k \in Stops(data, i) : n =< k
<1>1. Len(data) \in Nat /\ i \in Nat /\ Groups \in Nat
    BY LenProperties, ProtoAssumption
<1>2. Stops(data, i) \subseteq 1..Groups /\ \A k \in Stops(data, i) : i + k =< Len(data)
    BY DEF Stops
<1>3. CASE Stops(data, i) = {}
    BY <1>1, <1>3, GroupsSumBelow DEF consumeVarint
<1>4. CASE Stops(data, i) # {}
    <2>1. \E m \in Stops(data, i) : \A k \in Stops(data, i) : m =< k
        <3>1. Stops(data, i) \in SUBSET Nat
            BY <1>2
        <3> QED BY <1>4, <3>1, LeastNat
    <2>2. n \in Stops(data, i)
        BY <1>4, <2>1
    <2>3. consumeVarint(data, i) = [v |-> groupsSum(data, i)[n], n |-> n]
        BY DEF consumeVarint
    <2> HIDE DEF n
    <2>4. n \in 0..Groups /\ i + n =< Len(data)
        BY <1>1, <1>2, <2>2
    <2> QED BY <2>3, <2>4, GroupsSumBelow
<1> QED BY <1>3, <1>4

-----------------------------------------------------------------------------
(* Readers: they end behind where they begin and within the bytes. *)
Ends(r, data, i) ==
    /\ r.err \in Errors
    /\ r.err = "nil" => r.i \in (i + 1)..Len(data)

LEMMA BytesAt ==
    ASSUME NEW data \in Seq(Byte), NEW i \in Nat, NEW n \in Nat, i + n =< Len(data)
    PROVE  /\ SubSeq(data, i + 1, i + n) \in Seq(Byte)
           /\ SubSeq(data, i + 1, i + n) \in [1..n -> Byte]
           /\ Len(SubSeq(data, i + 1, i + n)) = n
<1>1. Len(data) \in Nat
    BY LenProperties
<1>2. \A k \in (i + 1)..(i + n) : data[k] \in Byte
    <2> SUFFICES ASSUME NEW k \in (i + 1)..(i + n) PROVE data[k] \in Byte
        OBVIOUS
    <2>1. k \in 1..Len(data)
        BY <1>1
    <2> QED BY <2>1, ElementOfSeq
<1> DEFINE s == SubSeq(data, i + 1, i + n)
<1>3. s \in Seq(Byte) /\ Len(s) = IF i + 1 =< i + n THEN (i + n) - (i + 1) + 1 ELSE 0
    BY <1>2, SubSeqProperties
<1> HIDE DEF s
<1>4. Len(s) = n
    BY <1>3
<1>5. s \in [1..n -> Byte]
    BY <1>3, <1>4, LenProperties
<1> QED BY <1>3, <1>4, <1>5 DEF s

LEMMA readVarintIs ==
    ASSUME NEW data \in Seq(Byte), NEW i \in 0..Len(data)
    PROVE  /\ Ends(readVarint(data, i), data, i)
           /\ readVarint(data, i).err = "nil" => readVarint(data, i).v \in 0..(Size64 - 1)
<1>1. Len(data) \in Nat /\ Groups \in Nat
    BY LenProperties, ProtoAssumption
<1> DEFINE c == consumeVarint(data, i)
<1>2. c.n \in 0..Groups /\ i + c.n =< Len(data) /\ c.v \in 0..(Size64 - 1)
    BY VarintIs
<1>3. readVarint(data, i) = IF c.n = 0 THEN Truncated ELSE Read(c.v, i + c.n)
    BY DEF readVarint
<1> HIDE DEF c
<1> QED BY <1>1, <1>2, <1>3 DEF Ends, Truncated, Read, Errors

LEMMA readFixedIs ==
    ASSUME NEW data \in Seq(Byte), NEW i \in 0..Len(data), NEW n \in Nat \ {0}
    PROVE  /\ Ends(readFixed(data, i, n), data, i)
           /\ readFixed(data, i, n).err = "nil" => readFixed(data, i, n).v \in [1..n -> Byte]
<1>1. Len(data) \in Nat /\ i \in Nat
    BY LenProperties
<1>2. CASE i + n > Len(data)
    BY <1>2 DEF readFixed, Ends, Truncated, Errors
<1>3. CASE i + n =< Len(data)
    <2>1. SubSeq(data, i + 1, i + n) \in [1..n -> Byte]
        BY <1>1, <1>3, BytesAt
    <2>2. readFixed(data, i, n) = Read(SubSeq(data, i + 1, i + n), i + n)
        BY <1>1, <1>3 DEF readFixed
    <2> QED BY <1>1, <1>3, <2>1, <2>2 DEF Ends, Read, Errors
<1> QED BY <1>1, <1>2, <1>3

LEMMA readBytesIs ==
    ASSUME NEW data \in Seq(Byte), NEW i \in 0..Len(data)
    PROVE  LET r == readBytes(data, i)
           IN  /\ Ends(r, data, i)
               /\ r.err = "nil" => r.v \in Seq(Byte) /\ Len(r.v) \in 0..(r.i - i - 1)
<1>1. Len(data) \in Nat /\ i \in Nat /\ Groups \in Nat
    BY LenProperties, ProtoAssumption
<1> DEFINE c == consumeVarint(data, i)
<1> DEFINE from == i + c.n
<1>2. c.n \in 0..Groups /\ i + c.n =< Len(data) /\ c.v \in 0..(Size64 - 1)
    BY VarintIs
<1>3. readBytes(data, i) = IF c.n = 0 \/ Len(data) - from < c.v THEN Truncated
                           ELSE Read(SubSeq(data, from + 1, from + c.v), from + c.v)
    BY DEF readBytes
<1>4. c.v \in Nat /\ c.n \in Nat /\ from \in Nat
    BY <1>1, <1>2, GroupWeightBelow
<1> HIDE DEF c
<1>5. CASE c.n = 0 \/ Len(data) - from < c.v
    BY <1>3, <1>5 DEF Ends, Truncated, Errors
<1>6. CASE ~(c.n = 0 \/ Len(data) - from < c.v)
    <2>1. from + c.v =< Len(data)
        BY <1>1, <1>4, <1>6
    <2> HIDE DEF from
    <2> DEFINE s == SubSeq(data, from + 1, from + c.v)
    <2>2. s \in Seq(Byte) /\ Len(s) = c.v
        BY <1>4, <2>1, BytesAt
    <2> HIDE DEF s
    <2>3. readBytes(data, i) = Read(s, from + c.v)
        BY <1>3, <1>6 DEF s
    <2>4. \A L, x, m, v \in Nat : m # 0 /\ ~(L - (x + m) < v) =>
              (x + m) + v \in (x + 1)..L /\ v \in 0..((x + m) + v - x - 1)
        OBVIOUS
    <2>5. from + c.v \in (i + 1)..Len(data) /\ c.v \in 0..(from + c.v - i - 1)
        BY <1>1, <1>4, <1>6, <2>4 DEF from
    <2> DEFINE r == readBytes(data, i)
    <2>6. r.err = "nil" /\ r.v = s /\ r.i = from + c.v
        BY <2>3 DEF Read
    <2> HIDE DEF r
    <2>7. Ends(r, data, i)
        BY <2>5, <2>6 DEF Ends, Errors
    <2>8. r.v \in Seq(Byte) /\ Len(r.v) = c.v
        BY <2>2, <2>6
    <2>9. c.v \in 0..(r.i - i - 1)
        BY <1>1, <1>4, <2>5, <2>6
    <2> QED BY <2>7, <2>8, <2>9 DEF r
<1> QED BY <1>5, <1>6

\* A conversion gives what its type can hold.
LEMMA fromVarintFits ==
    ASSUME NEW f \in FieldSchema, f.type \in {"int32", "uint32", "uint64", "bool"},
           NEW v \in 0..(Size64 - 1)
    PROVE  FitsOne(f, fromVarint(f.type, v))
<1> DEFINE low == v % Size32
<1>1. Size32 \in Nat \ {0} /\ Size32 % 2 = 0 /\ Size64 \in Nat /\ v \in Nat
    BY ProtoAssumption, GroupWeightBelow
<1>2. low \in 0..(Size32 - 1)
    <2>1. \A x \in Nat, g \in Nat \ {0} : x % g \in 0..(g - 1)
        OBVIOUS
    <2> QED BY <1>1, <2>1
<1> HIDE DEF low
<1>3. \A g \in Nat \ {0} : \A y \in 0..(g - 1) : g % 2 = 0 =>
          (IF y >= g \div 2 THEN y - g ELSE y) \in -(g \div 2)..(g \div 2 - 1)
    OBVIOUS
<1>4. CASE f.type = "int32"
    <2>1. fromVarint(f.type, v) = IF low >= Size32 \div 2 THEN low - Size32 ELSE low
        BY <1>4 DEF fromVarint, low
    <2>2. fromVarint(f.type, v) \in -(Size32 \div 2)..(Size32 \div 2 - 1)
        BY <1>1, <1>2, <1>3, <2>1
    <2> QED BY <1>4, <2>2 DEF FitsOne
<1>5. CASE f.type = "uint32"
    BY <1>2, <1>5 DEF FitsOne, fromVarint, low
<1>6. CASE f.type = "uint64"
    BY <1>6 DEF FitsOne, fromVarint
<1>7. CASE f.type = "bool"
    BY <1>7 DEF FitsOne, fromVarint
<1> QED BY <1>4, <1>5, <1>6, <1>7

LEMMA decodeProtoScalarIs ==
    ASSUME NEW data \in Seq(Byte), NEW i \in 0..Len(data), NEW f \in FieldSchema,
           f.type # "message"
    PROVE  LET r == decodeProtoScalar(data, i, f.type)
           IN  Ends(r, data, i) /\ (r.err = "nil" => FitsOne(f, r.v))
<1> DEFINE r == decodeProtoScalar(data, i, f.type)
<1>1. f.type \in FieldType
    BY DEF FieldSchema
<1>2. CASE f.type = "float"
    <2>1. r = readFixed(data, i, Fixed32) /\ Fixed32 \in Nat \ {0}
        BY <1>2, ProtoAssumption DEF decodeProtoScalar
    <2>2. Ends(r, data, i) /\ (r.err = "nil" => r.v \in [1..Fixed32 -> Byte])
        BY <2>1, readFixedIs
    <2> QED BY <1>2, <2>2 DEF FitsOne
<1>3. CASE f.type = "double"
    <2>1. r = readFixed(data, i, Fixed64) /\ Fixed64 \in Nat \ {0}
        BY <1>3, ProtoAssumption DEF decodeProtoScalar
    <2>2. Ends(r, data, i) /\ (r.err = "nil" => r.v \in [1..Fixed64 -> Byte])
        BY <2>1, readFixedIs
    <2> QED BY <1>3, <2>2 DEF FitsOne
<1>4. CASE f.type = "bytes"
    <2>1. r = readBytes(data, i)
        BY <1>4 DEF decodeProtoScalar
    <2>2. Ends(r, data, i) /\ (r.err = "nil" => r.v \in Seq(Byte))
        BY <2>1, readBytesIs
    <2> QED BY <1>4, <2>2 DEF FitsOne
<1>5. CASE f.type \in {"int32", "uint32", "uint64", "bool"}
    <2> DEFINE c == readVarint(data, i)
    <2>1. Ends(c, data, i) /\ (c.err = "nil" => c.v \in 0..(Size64 - 1))
        BY readVarintIs
    <2>2. r = IF c.err = "nil" THEN Read(fromVarint(f.type, c.v), c.i) ELSE c
        BY <1>5 DEF decodeProtoScalar
    <2> HIDE DEF c, r
    <2>3. CASE c.err = "nil"
        <3>1. FitsOne(f, fromVarint(f.type, c.v))
            BY <1>5, <2>1, <2>3, fromVarintFits
        <3>2. r.err = "nil" /\ r.i = c.i /\ r.v = fromVarint(f.type, c.v)
            BY <2>2, <2>3 DEF Read
        <3>3. Ends(r, data, i)
            BY <2>1, <2>3, <3>2 DEF Ends
        <3> QED BY <3>1, <3>2, <3>3 DEF r
    <2>4. CASE c.err # "nil"
        BY <2>1, <2>2, <2>4 DEF r
    <2> QED BY <2>3, <2>4
<1> QED BY <1>1, <1>2, <1>3, <1>4, <1>5 DEF FieldType

LEMMA skipFieldIs ==
    ASSUME NEW data \in Seq(Byte), NEW i \in 0..Len(data), NEW w \in 0..7
    PROVE  Ends(skipField(data, i, w), data, i)
<1>1. Fixed32 \in Nat \ {0} /\ Fixed64 \in Nat \ {0}
    BY ProtoAssumption
<1>2. CASE w \in {0, 1, 2, 5}
    BY <1>1, <1>2, readVarintIs, readFixedIs, readBytesIs DEF skipField
<1>3. CASE w \notin {0, 1, 2, 5}
    BY <1>3 DEF skipField, Ends, Truncated, Errors
<1> QED BY <1>2, <1>3

\* A decoder that reads a field ends where one that skips it does.
LEMMA SameEnd ==
    ASSUME NEW data, NEW i, NEW f \in FieldSchema, f.type # "message"
    PROVE  LET r == decodeProtoScalar(data, i, f.type)
               s == skipField(data, i, wireTypeFor(f.type))
           IN  r.err = s.err /\ (r.err = "nil" => r.i = s.i)
<1>1. f.type \in FieldType
    BY DEF FieldSchema
<1>2. CASE f.type = "float"
    BY <1>2 DEF decodeProtoScalar, skipField, wireTypeFor
<1>3. CASE f.type = "double"
    BY <1>3 DEF decodeProtoScalar, skipField, wireTypeFor
<1>4. CASE f.type = "bytes"
    BY <1>4 DEF decodeProtoScalar, skipField, wireTypeFor
<1>5. CASE f.type \in {"int32", "uint32", "uint64", "bool"}
    <2> DEFINE c == readVarint(data, i)
    <2>1. wireTypeFor(f.type) = 0
        BY <1>5 DEF wireTypeFor
    <2>2. skipField(data, i, 0) = c
        BY DEF skipField
    <2>3. decodeProtoScalar(data, i, f.type)
              = IF c.err = "nil" THEN Read(fromVarint(f.type, c.v), c.i) ELSE c
        BY <1>5 DEF decodeProtoScalar
    <2> HIDE DEF c
    <2> QED BY <2>1, <2>2, <2>3 DEF Read
<1> QED BY <1>1, <1>2, <1>3, <1>4, <1>5 DEF FieldType

-----------------------------------------------------------------------------
(* Field boundaries *)
LEMMA NextFieldIs ==
    ASSUME NEW data \in Seq(Byte), NEW i \in 0..Len(data)
    PROVE  nextField(data, i) \in i..Len(data)
<1> DEFINE k == consumeVarint(data, i)
<1> DEFINE s == skipField(data, i + k.n, k.v % 8)
<1>1. Len(data) \in Nat /\ i \in Nat /\ Groups \in Nat /\ Size64 \in Nat
    BY LenProperties, ProtoAssumption, GroupWeightBelow
<1>2. k.n \in 0..Groups /\ i + k.n =< Len(data) /\ k.v \in 0..(Size64 - 1)
    BY VarintIs
<1>3. nextField(data, i) = IF i < Len(data) /\ k.n > 0 /\ s.err = "nil" THEN s.i ELSE i
    BY DEF nextField
<1> HIDE DEF k
<1>4. i + k.n \in 0..Len(data) /\ k.v % 8 \in 0..7 /\ k.n \in Nat
    <2>1. \A x \in Nat : x % 8 \in 0..7
        OBVIOUS
    <2>2. k.v \in Nat /\ k.n \in Nat
        BY <1>1, <1>2
    <2>3. k.v % 8 \in 0..7
        BY <2>1, <2>2
    <2>4. i + k.n \in 0..Len(data)
        BY <1>1, <1>2, <2>2
    <2> QED BY <2>2, <2>3, <2>4
<1>5. Ends(s, data, i + k.n)
    BY <1>4, skipFieldIs
<1> HIDE DEF s
<1>6. CASE i < Len(data) /\ k.n > 0 /\ s.err = "nil"
    <2>1. s.i \in (i + k.n + 1)..Len(data)
        BY <1>5, <1>6 DEF Ends
    <2> QED BY <1>1, <1>3, <1>4, <1>6, <2>1
<1> QED BY <1>1, <1>3, <1>6

\* One step towards i from k.
Step(data, i, k, f) == k = i \/ (k < nextField(data, k) /\ nextField(data, k) =< i /\ f[nextField(data, k)])

LEMMA ReachesIs ==
    ASSUME NEW data \in Seq(Byte), NEW i \in 0..Len(data)
    PROVE  \A k \in 0..Len(data) : reaches(data, i)[k] <=> Step(data, i, k, reaches(data, i))
<1> DEFINE L == Len(data)
<1>1. L \in Nat
    BY LenProperties
<1> HIDE DEF L
<1> DEFINE P(f, m) == f = [k \in m..L |-> Step(data, i, k, f)]
<1> DEFINE S == {n \in Nat : n =< L => \E f : P(f, L - n)}
<1>2. 0 \in S
    <2> DEFINE f == [k \in L..L |-> k = i]
    <2>1. ASSUME NEW k \in L..L
          PROVE  f[k] = Step(data, i, k, f)
        <3>1. k = L
            BY <1>1
        <3>2. nextField(data, k) = L
            BY <1>1, <3>1, NextFieldIs DEF L
        <3>3. ~(k < nextField(data, k))
            BY <1>1, <3>1, <3>2
        <3> QED BY <3>3 DEF Step
    <2>2. P(f, L)
        BY <2>1
    <2> HIDE DEF P, f
    <2>3. P(f, L - 0)
        BY <1>1, <2>2
    <2> QED BY <2>3
<1>3. ASSUME NEW n \in Nat, n \in S
      PROVE  n + 1 \in S
    <2>0. n + 1 \in Nat
        OBVIOUS
    <2> SUFFICES ASSUME n + 1 =< L
                 PROVE  \E f : P(f, L - (n + 1))
        BY <2>0, Zenon
    <2> DEFINE m == L - (n + 1)
    <2>1. m \in Nat /\ m < L /\ L - n = m + 1 /\ n =< L
        BY <1>1
    <2>2. PICK f : P(f, m + 1)
        BY <1>3, <2>1
    <2> HIDE DEF m
    <2> DEFINE g == [k \in m..L |-> IF k = m THEN Step(data, i, m, f) ELSE f[k]]
    <2>3. ASSUME NEW k \in m..L
          PROVE  g[k] = Step(data, i, k, g)
        <3>1. k \in 0..L /\ i \in 0..L
            BY <1>1, <2>1 DEF L
        <3>2. nextField(data, k) \in k..L
            BY <3>1, NextFieldIs DEF L
        <3>3. k < nextField(data, k) => g[nextField(data, k)] = f[nextField(data, k)]
            BY <1>1, <2>1, <3>2
        <3>4. Step(data, i, k, g) = Step(data, i, k, f)
            BY <3>3 DEF Step
        <3>5. CASE k = m
            BY <3>4, <3>5
        <3>6. CASE k # m
            <4>1. k \in (m + 1)..L
                BY <1>1, <2>1, <3>6
            <4>2. f[k] = Step(data, i, k, f)
                BY <2>2, <4>1, Zenon
            <4> QED BY <3>4, <3>6, <4>2
        <3> QED BY <3>5, <3>6
    <2>4. P(g, m)
        BY <2>3
    <2> HIDE DEF P, g
    <2> QED BY <2>4 DEF m
<1> HIDE DEF P, S
<1>4. Nat \subseteq S /\ L =< L /\ L - L = 0
    BY <1>1, <1>2, <1>3, NatSetInduction
<1>5. \E f : P(f, 0)
    BY <1>1, <1>4 DEF S
<1>6. reaches(data, i) = CHOOSE f : P(f, 0)
    BY DEF P, L, reaches, Step
<1>7. P(reaches(data, i), 0)
    BY <1>5, <1>6, Zenon
<1> QED BY <1>7, Zenon DEF P, L

LEMMA BoundaryStart ==
    ASSUME NEW data \in Seq(Byte)
    PROVE  Boundary(data, 0)
<1>1. Len(data) \in Nat /\ 0 \in 0..Len(data)
    BY LenProperties
<1> QED BY <1>1, ReachesIs DEF Boundary, Step

\* The end of a field that begins at a boundary is a boundary.
LEMMA BoundaryNext ==
    ASSUME NEW data \in Seq(Byte), NEW i \in 0..Len(data), Boundary(data, i),
           i < nextField(data, i)
    PROVE  Boundary(data, nextField(data, i))
<1> DEFINE L == Len(data)
<1> DEFINE j == nextField(data, i)
<1>1. L \in Nat /\ j \in i..L
    BY LenProperties, NextFieldIs
<1>2. j \in 0..L /\ i < j
    BY <1>1
<1> HIDE DEF j, L
<1> DEFINE S == {n \in Nat : n =< L => (reaches(data, i)[L - n] => reaches(data, j)[L - n])}
<1>3. \A n \in Nat : (\A m \in Nat : m < n => m \in S) => n \in S
    <2> SUFFICES ASSUME NEW n \in Nat, \A m \in Nat : m < n => m \in S, n =< L,
                        reaches(data, i)[L - n]
                 PROVE  reaches(data, j)[L - n]
        BY Zenon
    <2> DEFINE k == L - n
    <2>1. k \in 0..L /\ n = L - k
        BY <1>1
    <2> HIDE DEF k
    <2>2. Step(data, i, k, reaches(data, i))
        BY <2>1, ReachesIs DEF L, k
    <2>3. Step(data, j, k, reaches(data, j))
        <3>1. CASE k = i
            <4>1. reaches(data, j)[j]
                BY <1>2, ReachesIs DEF Step, L
            <4>2. nextField(data, k) = j /\ k < j /\ j =< j
                BY <1>1, <1>2, <3>1 DEF j
            <4> QED BY <4>1, <4>2 DEF Step
        <3>2. CASE k # i
            <4> DEFINE e == nextField(data, k)
            <4>1. k < e /\ e =< i /\ reaches(data, i)[e]
                BY <2>2, <3>2 DEF Step
            <4>2. e \in k..L
                BY <2>1, NextFieldIs DEF L
            <4> HIDE DEF e
            <4>3. L - e \in Nat /\ L - e < n /\ L - e =< L /\ L - (L - e) = e /\ e =< j
                BY <1>1, <1>2, <2>1, <4>1, <4>2
            <4>4. L - e \in S
                BY <4>3
            <4>5. reaches(data, j)[e]
                BY <4>1, <4>3, <4>4
            <4> QED BY <4>1, <4>3, <4>5 DEF Step, e
        <3> QED BY <3>1, <3>2
    <2> QED BY <1>2, <2>1, <2>3, ReachesIs DEF L, k
<1> HIDE DEF S
<1>4. Nat \subseteq S
    <2> SUFFICES ASSUME Nat \ S # {} PROVE FALSE
        OBVIOUS
    <2>1. PICK n \in Nat \ S : \A k \in Nat \ S : n =< k
        BY LeastNat
    <2>2. \A m \in Nat : m < n => m \in S
        BY <2>1
    <2> QED BY <1>3, <2>1, <2>2
<1>5. L \in S /\ L - L = 0 /\ L =< L
    BY <1>1, <1>4
<1> QED BY <1>5 DEF S, Boundary, j

-----------------------------------------------------------------------------
(* Fields and messages *)
LEMMA LookupIs ==
    ASSUME NEW t \in Type, NEW n \in Nums(t)
    PROVE  /\ lookupNum(t, n) \in FieldSchema /\ lookupNum(t, n).num = n /\ n \in Nat \ {0}
           /\ lookupNum(t, n).type = "message" => lookupNum(t, n).schema \in Type
<1> DEFINE j == CHOOSE j \in DOMAIN Fields[t] : Fields[t][j].num = n
<1>1. j \in DOMAIN Fields[t] /\ Fields[t][j].num = n
    BY DEF Nums
<1>2. lookupNum(t, n) = Fields[t][j]
    BY DEF lookupNum
<1> HIDE DEF j
<1>3. Fields[t] \in Seq(FieldSchema)
    BY ProtoAssumption
<1>4. Fields[t][j] \in FieldSchema
    BY <1>1, <1>3
<1> QED BY <1>1, <1>2, <1>4, ProtoAssumption DEF FieldSchema

\* The content of a message of type t.
MessageOK(t, m) == DOMAIN m \subseteq Nums(t) /\ \A n \in DOMAIN m : Fits(lookupNum(t, n), m[n])

LEMMA WithFits ==
    ASSUME NEW t, NEW m, MessageOK(t, m), NEW n \in Nums(t), NEW v, Fits(lookupNum(t, n), v)
    PROVE  MessageOK(t, With(m, n, v)) /\ n \in DOMAIN With(m, n, v)
BY DEF MessageOK, With

LEMMA MakeListFits ==
    ASSUME NEW t \in Type, NEW m, MessageOK(t, m), NEW n \in Nums(t)
    PROVE  LET made == MakeList(m, lookupNum(t, n))
           IN  MessageOK(t, made) /\ (lookupNum(t, n).repeated => n \in DOMAIN made)
<1> DEFINE f == lookupNum(t, n)
<1>1. f.num = n
    BY LookupIs
<1>2. CASE f.repeated /\ n \notin DOMAIN m
    <2>1. Fits(f, <<>>)
        BY <1>2, EmptySeq DEF Fits, IsList
    <2>2. MakeList(m, f) = With(m, n, <<>>)
        BY <1>1, <1>2 DEF MakeList
    <2> QED BY <2>1, <2>2, WithFits
<1>3. CASE ~(f.repeated /\ n \notin DOMAIN m)
    BY <1>1, <1>3 DEF MakeList
<1> QED BY <1>2, <1>3

LEMMA StoreFits ==
    ASSUME NEW t \in Type, NEW m, MessageOK(t, m), NEW n \in Nums(t), NEW v,
           FitsOne(lookupNum(t, n), v)
    PROVE  MessageOK(t, Store(m, lookupNum(t, n), v))
<1> DEFINE f == lookupNum(t, n)
<1> DEFINE made == MakeList(m, f)
<1> DEFINE w == IF f.repeated THEN Append(made[n], v) ELSE v
<1>1. f.num = n
    BY LookupIs
<1>2. MessageOK(t, made) /\ (f.repeated => n \in DOMAIN made)
    BY MakeListFits
<1>3. Store(m, f, v) = With(made, n, w)
    BY <1>1 DEF Store
<1> HIDE DEF made
<1>4. Fits(f, w)
    <2>1. CASE f.repeated
        <3>1. IsList(made[n]) /\ \A j \in DOMAIN made[n] : FitsOne(f, made[n][j])
            BY <1>2, <2>1 DEF MessageOK, Fits
        <3> DEFINE z == Append(made[n], v)
        <3>2. /\ IsList(z) /\ DOMAIN z = 1..(Len(made[n]) + 1) /\ z[Len(made[n]) + 1] = v
              /\ \A k \in 1..Len(made[n]) : z[k] = made[n][k]
            BY <3>1, AppendToList
        <3>3. Len(made[n]) \in Nat /\ DOMAIN made[n] = 1..Len(made[n])
            BY <3>1, ListLen
        <3> HIDE DEF z
        <3>4. \A k \in DOMAIN z : FitsOne(f, z[k])
            BY <3>1, <3>2, <3>3
        <3>5. w = z
            BY <2>1 DEF z
        <3> HIDE DEF w
        <3> QED BY <2>1, <3>2, <3>4, <3>5 DEF Fits
    <2>2. CASE ~f.repeated
        BY <2>2 DEF Fits
    <2> QED BY <2>1, <2>2
<1> HIDE DEF w, f
<1>5. MessageOK(t, With(made, n, w))
    BY <1>2, <1>4, WithFits DEF f
<1> QED BY <1>3, <1>5 DEF f

-----------------------------------------------------------------------------
(* The invariant *)
FrameOK(f) ==
    /\ DOMAIN f = {"type", "data", "i", "msg", "num", "end"}
    /\ f.type \in Type
    /\ f.data \in Seq(Byte)
    /\ f.i \in 0..Len(f.data)
    /\ f.end \in 0..Len(f.data)
    /\ f.num \in Nums(f.type) \cup {0}
    /\ MessageOK(f.type, f.msg)
    /\ Boundary(f.data, IF f.end = 0 THEN f.i ELSE f.end)
    /\ f.end # 0 => f.num \in Nums(f.type) /\ Packable(lookupNum(f.type, f.num))

\* A caller is in the field that its callee decodes, and in no packed loop.
Calls == \A k \in 1..(Len(stack) - 1) :
    /\ stack[k].end = 0 /\ stack[k].num \in Nums(stack[k].type)
    /\ LET f == lookupNum(stack[k].type, stack[k].num)
       IN  f.type = "message" /\ f.schema = stack[k + 1].type

DecodeInv ==
    /\ err \in Errors \cup {"idle", "running"}
    /\ IsList(stack) /\ stack # <<>>
    /\ \A k \in DOMAIN stack : FrameOK(stack[k])
    /\ Calls

LEMMA StackIs ==
    ASSUME DecodeInv
    PROVE  /\ Len(stack) \in Nat /\ Len(stack) >= 1 /\ DOMAIN stack = 1..Len(stack)
           /\ Len(stack) \in DOMAIN stack /\ FrameOK(top) /\ FrameOK(stack[1])
<1>1. IsList(stack) /\ stack # <<>>
    BY DEF DecodeInv
<1>2. Len(stack) \in Nat \ {0} /\ DOMAIN stack = 1..Len(stack)
    BY <1>1, ListLen, EmptySeq DEF IsList
<1>3. 1 \in DOMAIN stack /\ Len(stack) \in DOMAIN stack
    BY <1>2
<1> QED BY <1>2, <1>3 DEF DecodeInv, top

\* The function in progress goes on.
LEMMA UpdateKeeps ==
    ASSUME DecodeInv, NEW f, Update(f), FrameOK(f), f.type = top.type, UNCHANGED err
    PROVE  DecodeInv'
<1> DEFINE n == Len(stack)
<1>1. n \in Nat /\ n >= 1 /\ DOMAIN stack = 1..n /\ n \in DOMAIN stack
    BY StackIs
<1>2. stack' = [stack EXCEPT ![n] = f]
    BY DEF Update
<1>3. IsList(stack)
    BY DEF DecodeInv
<1>4. /\ IsList(stack') /\ Len(stack') = n /\ DOMAIN stack' = 1..n
      /\ \A k \in 1..n : stack'[k] = IF k = n THEN f ELSE stack[k]
    BY <1>1, <1>2, <1>3, ChangeInList, ZenonT(40)
<1> HIDE DEF n
<1>5. stack' # <<>>
    BY <1>1, <1>4
<1>6. \A k \in DOMAIN stack' : FrameOK(stack'[k])
    BY <1>1, <1>4 DEF DecodeInv
<1>7. Calls'
    <2> SUFFICES ASSUME NEW k \in 1..(n - 1)
                 PROVE  /\ stack'[k] = stack[k]
                        /\ stack'[k + 1].type = stack[k + 1].type
        BY <1>4, Zenon DEF DecodeInv, Calls, n
    <2>1. k \in 1..n /\ k + 1 \in 1..n /\ k # n
        BY <1>1
    <2> QED BY <1>4, <2>1, Zenon DEF top, n
<1> QED BY <1>4, <1>5, <1>6, <1>7 DEF DecodeInv

\* Only the first call is left when an error has ended all.
LEMMA ReturnKeeps ==
    ASSUME DecodeInv, NEW e \in Errors, Return(e)
    PROVE  DecodeInv'
<1>1. FrameOK(stack[1])
    BY StackIs
<1> DEFINE f == stack[1]
<1> HIDE DEF f
<1>2. stack' = <<f>>
    BY DEF Return, f
<1>3. DOMAIN stack' = {1} /\ stack'[1] = f /\ Len(stack') = 1 /\ stack' # <<>>
    BY <1>2
<1>4. IsList(stack')
    <2>1. {stack'[k] : k \in DOMAIN stack'} = {f} /\ stack' \in Seq({f})
        BY <1>2, <1>3
    <2> QED BY <2>1 DEF IsList
<1>5. Calls'
    BY <1>3 DEF Calls
<1> QED BY <1>1, <1>3, <1>4, <1>5 DEF DecodeInv, Return, f

-----------------------------------------------------------------------------
(* The steps *)

\* What the key of a field tells, and where the field ends.
LEMMA KeyIs ==
    ASSUME DecodeInv, AtKey, stepErr = "nil"
    PROVE  /\ key.n \in Nat \ {0} /\ at \in 0..Len(top.data) /\ wt \in 0..7
           /\ top.i \in Nat /\ top.i =< at
           /\ nextField(top.data, top.i) = LET s == skipField(top.data, at, wt)
                                           IN  IF s.err = "nil" THEN s.i ELSE top.i
<1>1. FrameOK(top)
    BY StackIs
<1>2. top.data \in Seq(Byte) /\ top.i \in 0..Len(top.data) /\ Len(top.data) \in Nat
    BY <1>1, LenProperties DEF FrameOK
<1>3. key.n \in 0..Groups /\ top.i + key.n =< Len(top.data) /\ key.v \in 0..(Size64 - 1)
    BY <1>2, VarintIs DEF key
<1>4. key.n # 0
    BY DEF stepErr
<1>5. Groups \in Nat /\ Size64 \in Nat
    BY ProtoAssumption, GroupWeightBelow
<1>6. key.n \in Nat \ {0} /\ key.v \in Nat
    BY <1>3, <1>4, <1>5
<1>7. \A x \in Nat : x % 8 \in 0..7
    OBVIOUS
<1>8. wt \in 0..7
    BY <1>6, <1>7 DEF wt
<1>9. at \in 0..Len(top.data) /\ top.i \in Nat /\ top.i =< at
    BY <1>2, <1>3, <1>6 DEF at
<1>10. top.i < Len(top.data) /\ key.n > 0
    BY <1>6 DEF AtKey
<1>11. nextField(top.data, top.i) = LET s == skipField(top.data, at, wt)
                                    IN  IF s.err = "nil" THEN s.i ELSE top.i
    BY <1>10 DEF nextField, key, at, wt
<1> QED BY <1>6, <1>8, <1>9, <1>11

LEMMA StepErrIs ==
    ASSUME DecodeInv, AtKey
    PROVE  stepErr \in Errors
<1>1. FrameOK(top)
    BY StackIs
<1>2. top.data \in Seq(Byte) /\ top.type \in Type /\ top.i \in 0..Len(top.data)
    BY <1>1 DEF FrameOK
<1>3. key.n \in 0..Groups /\ top.i + key.n =< Len(top.data) /\ key.v \in 0..(Size64 - 1)
    BY <1>2, VarintIs DEF key
<1>4. at \in 0..Len(top.data) /\ key.v \in Nat
    <2>1. Groups \in Nat /\ Size64 \in Nat /\ Len(top.data) \in Nat
        BY <1>2, ProtoAssumption, GroupWeightBelow, LenProperties
    <2> QED BY <1>2, <1>3, <2>1 DEF at
<1>5. wt \in 0..7
    <2>1. \A x \in Nat : x % 8 \in 0..7
        OBVIOUS
    <2> QED BY <1>4, <2>1 DEF wt
<1>6. CASE key.n = 0 \/ fieldNum = 0 \/ wt \in {6, 7}
    BY <1>6 DEF stepErr, Errors
<1>7. CASE ~(key.n = 0 \/ fieldNum = 0 \/ wt \in {6, 7}) /\ ~Known
    <2>1. stepErr = skipField(top.data, at, wt).err
        BY <1>7 DEF stepErr
    <2>2. Ends(skipField(top.data, at, wt), top.data, at)
        BY <1>2, <1>4, <1>5, skipFieldIs
    <2> QED BY <2>1, <2>2 DEF Ends
<1>8. CASE ~(key.n = 0 \/ fieldNum = 0 \/ wt \in {6, 7}) /\ Known
    <2>1. stepErr = "ErrMalformedData" \/ stepErr = payload.err
        BY <1>8 DEF stepErr
    <2>2. fs \in FieldSchema
        BY <1>2, <1>8, LookupIs DEF Known, fs
    <2>3. CASE Packed \/ fs.type = "message"
        <3>1. payload = readBytes(top.data, at)
            BY <2>3 DEF payload
        <3>2. Ends(payload, top.data, at)
            BY <1>2, <1>4, <3>1, readBytesIs
        <3> QED BY <2>1, <3>2 DEF Ends, Errors
    <2>4. CASE ~(Packed \/ fs.type = "message")
        <3>1. payload = decodeProtoScalar(top.data, at, fs.type) /\ fs.type # "message"
            BY <2>4 DEF payload
        <3>2. Ends(payload, top.data, at)
            BY <1>2, <1>4, <2>2, <3>1, decodeProtoScalarIs
        <3> QED BY <2>1, <3>2 DEF Ends, Errors
    <2> QED BY <2>3, <2>4
<1> QED BY <1>6, <1>7, <1>8

\* A field that is read, in whatever way, ends where it would when it were skipped.
LEMMA FieldIs ==
    ASSUME DecodeInv, AtField
    PROVE  /\ fs \in FieldSchema /\ fs.num = fieldNum /\ fs.num \in Nums(top.type)
           /\ fs = lookupNum(top.type, fs.num)
           /\ fs.type = "message" => fs.schema \in Type
           /\ payload.i \in (top.i + 1)..Len(top.data)
           /\ Boundary(top.data, payload.i)
           /\ IF Packed \/ fs.type = "message"
              THEN payload.v \in Seq(Byte) /\ Len(payload.v) \in 0..(payload.i - 1)
              ELSE FitsOne(fs, payload.v)
<1>1. FrameOK(top) /\ AtKey /\ stepErr = "nil" /\ Known
    BY StackIs DEF AtField
<1>2. top.type \in Type /\ top.data \in Seq(Byte) /\ Len(top.data) \in Nat
      /\ top.i \in 0..Len(top.data) /\ top.end = 0 /\ Boundary(top.data, top.i)
    BY <1>1, LenProperties DEF FrameOK, AtKey
<1>3. /\ key.n \in Nat \ {0} /\ at \in 0..Len(top.data) /\ wt \in 0..7
      /\ top.i \in Nat /\ top.i =< at
      /\ nextField(top.data, top.i) = LET s == skipField(top.data, at, wt)
                                      IN  IF s.err = "nil" THEN s.i ELSE top.i
    BY <1>1, KeyIs
<1>4. fieldNum \in Nums(top.type)
    BY <1>1 DEF Known
<1>5. fs \in FieldSchema /\ fs.num = fieldNum /\ (fs.type = "message" => fs.schema \in Type)
    BY <1>2, <1>4, LookupIs DEF fs
<1>6. payload.err = "nil" /\ (Packed \/ wt = wireTypeFor(fs.type))
    BY <1>1, <1>3, Zenon DEF stepErr
<1> DEFINE s == skipField(top.data, at, wt)
<1> HIDE DEF s
<1>7. /\ Ends(payload, top.data, at)
      /\ s.err = "nil" /\ s.i = payload.i
      /\ IF Packed \/ fs.type = "message"
         THEN payload.v \in Seq(Byte) /\ Len(payload.v) \in 0..(payload.i - at - 1)
         ELSE FitsOne(fs, payload.v)
    <2>1. CASE Packed \/ fs.type = "message"
        <3>1. payload = readBytes(top.data, at)
            BY <2>1 DEF payload
        <3>2. wt = 2
            BY <1>6, <2>1 DEF Packed, wireTypeFor
        <3>3. s = payload
            BY <3>1, <3>2 DEF skipField, s
        <3>4. Ends(payload, top.data, at)
              /\ payload.v \in Seq(Byte) /\ Len(payload.v) \in 0..(payload.i - at - 1)
            BY <1>2, <1>3, <1>6, <3>1, readBytesIs
        <3> QED BY <1>6, <2>1, <3>3, <3>4
    <2>2. CASE ~(Packed \/ fs.type = "message")
        <3>1. payload = decodeProtoScalar(top.data, at, fs.type) /\ fs.type # "message"
            BY <2>2 DEF payload
        <3>2. Ends(payload, top.data, at) /\ FitsOne(fs, payload.v)
            BY <1>2, <1>3, <1>5, <1>6, <3>1, decodeProtoScalarIs
        <3>3. s = skipField(top.data, at, wireTypeFor(fs.type))
            BY <1>6, <2>2 DEF s
        <3>4. s.err = "nil" /\ s.i = payload.i
            BY <1>5, <1>6, <3>1, <3>3, SameEnd
        <3> QED BY <2>2, <3>2, <3>4
    <2> QED BY <2>1, <2>2
<1>8. payload.i \in (at + 1)..Len(top.data)
    BY <1>6, <1>7 DEF Ends
<1>9. payload.i \in (top.i + 1)..Len(top.data) /\ payload.i - at - 1 =< payload.i - 1
    BY <1>2, <1>3, <1>8
<1>10. nextField(top.data, top.i) = payload.i
    BY <1>3, <1>7 DEF s
<1>11. Boundary(top.data, payload.i)
    <2>1. top.i < payload.i
        BY <1>2, <1>9
    <2> QED BY <1>2, <1>10, <2>1, BoundaryNext
<1>12. Packed \/ fs.type = "message" => payload.v \in Seq(Byte) /\ Len(payload.v) \in 0..(payload.i - 1)
    <2> SUFFICES ASSUME Packed \/ fs.type = "message"
                 PROVE  Len(payload.v) \in 0..(payload.i - 1)
        BY <1>7
    <2>1. Len(payload.v) \in 0..(payload.i - at - 1)
        BY <1>7
    <2>2. Len(payload.v) \in Nat /\ payload.i \in Nat /\ at \in Nat
        BY <1>2, <1>3, <1>9, <2>1
    <2> QED BY <2>1, <2>2
<1>13. fs = lookupNum(top.type, fs.num)
    BY <1>5 DEF fs
<1> QED BY <1>4, <1>5, <1>7, <1>9, <1>11, <1>12, <1>13

LEMMA SkipKeeps ==
    ASSUME DecodeInv, SkipField
    PROVE  DecodeInv'
<1> DEFINE s == skipField(top.data, at, wt)
<1> DEFINE f == [top EXCEPT !.i = s.i]
<1>1. FrameOK(top) /\ AtKey /\ stepErr = "nil" /\ ~Known
    BY StackIs DEF SkipField
<1>2. top.data \in Seq(Byte) /\ Len(top.data) \in Nat
      /\ top.i \in 0..Len(top.data) /\ top.end = 0 /\ Boundary(top.data, top.i)
    BY <1>1, LenProperties DEF FrameOK, AtKey
<1>3. /\ key.n \in Nat \ {0} /\ at \in 0..Len(top.data) /\ wt \in 0..7
      /\ top.i \in Nat /\ top.i =< at
      /\ nextField(top.data, top.i) = IF s.err = "nil" THEN s.i ELSE top.i
    BY <1>1, KeyIs
<1>4. s.err = "nil"
    BY <1>1, <1>3, Zenon DEF stepErr
<1>5. Ends(s, top.data, at)
    BY <1>2, <1>3, skipFieldIs
<1> HIDE DEF s
<1>6. s.i \in (at + 1)..Len(top.data)
    BY <1>4, <1>5 DEF Ends
<1>7. s.i \in 0..Len(top.data) /\ top.i < s.i
    BY <1>2, <1>3, <1>6
<1>8. Boundary(top.data, s.i)
    BY <1>2, <1>3, <1>4, <1>7, BoundaryNext
<1>9. /\ DOMAIN f = DOMAIN top /\ f.type = top.type /\ f.data = top.data /\ f.i = s.i
      /\ f.msg = top.msg /\ f.num = top.num /\ f.end = top.end
    BY <1>1 DEF FrameOK
<1>10. Update(f) /\ UNCHANGED err
    BY DEF SkipField, s
<1> HIDE DEF f
<1>11. FrameOK(f)
    BY <1>1, <1>2, <1>7, <1>8, <1>9 DEF FrameOK
<1> QED BY <1>9, <1>10, <1>11, UpdateKeeps

LEMMA ScalarKeeps ==
    ASSUME DecodeInv, DecodeScalar
    PROVE  DecodeInv'
<1> DEFINE m == Store(top.msg, fs, payload.v)
<1> DEFINE f == [top EXCEPT !.i = payload.i, !.msg = m]
<1>1. FrameOK(top) /\ AtField /\ ~Packed /\ fs.type # "message" /\ top.end = 0
    BY StackIs DEF DecodeScalar, AtField, AtKey
<1>2. /\ fs.num \in Nums(top.type) /\ fs = lookupNum(top.type, fs.num)
      /\ payload.i \in (top.i + 1)..Len(top.data)
      /\ Boundary(top.data, payload.i)
      /\ FitsOne(fs, payload.v)
    BY <1>1, FieldIs
<1>3. MessageOK(top.type, m)
    BY <1>1, <1>2, StoreFits DEF FrameOK
<1>4. payload.i \in 0..Len(top.data)
    BY <1>1, <1>2, LenProperties DEF FrameOK
<1>5. Update(f) /\ UNCHANGED err
    BY DEF DecodeScalar
<1> HIDE DEF m
<1>6. /\ DOMAIN f = DOMAIN top /\ f.type = top.type /\ f.data = top.data /\ f.i = payload.i
      /\ f.msg = m /\ f.num = top.num /\ f.end = 0
    BY <1>1 DEF FrameOK
<1> HIDE DEF f
<1>7. FrameOK(f)
    BY <1>1, <1>2, <1>3, <1>4, <1>6 DEF FrameOK
<1> QED BY <1>5, <1>6, <1>7, UpdateKeeps

LEMMA EnterPackedKeeps ==
    ASSUME DecodeInv, EnterPacked
    PROVE  DecodeInv'
<1> DEFINE m == MakeList(top.msg, fs)
<1> DEFINE f == [top EXCEPT !.i = payload.i - Len(payload.v), !.end = payload.i,
                            !.num = fs.num, !.msg = m]
<1>1. FrameOK(top) /\ AtField /\ Packed /\ Packable(fs)
    BY StackIs DEF EnterPacked, Packed
<1>2. /\ fs.num \in Nums(top.type) /\ fs = lookupNum(top.type, fs.num)
      /\ payload.i \in (top.i + 1)..Len(top.data)
      /\ Boundary(top.data, payload.i)
      /\ Len(payload.v) \in 0..(payload.i - 1)
    BY <1>1, FieldIs
<1>3. MessageOK(top.type, m)
    BY <1>1, <1>2, MakeListFits DEF FrameOK
<1>4. payload.i \in 0..Len(top.data) /\ payload.i # 0
      /\ payload.i - Len(payload.v) \in 0..Len(top.data)
    <2>1. Len(top.data) \in Nat /\ top.i \in Nat
        BY <1>1, LenProperties DEF FrameOK
    <2>2. payload.i \in Nat /\ Len(payload.v) \in Nat
        BY <1>2, <2>1
    <2> QED BY <1>2, <2>1, <2>2
<1>5. Update(f) /\ UNCHANGED err
    BY DEF EnterPacked
<1> HIDE DEF m
<1>6. /\ DOMAIN f = DOMAIN top /\ f.type = top.type /\ f.data = top.data
      /\ f.i = payload.i - Len(payload.v)
      /\ f.msg = m /\ f.num = fs.num /\ f.end = payload.i
    BY <1>1 DEF FrameOK
<1> HIDE DEF f
<1>7. FrameOK(f)
    BY <1>1, <1>2, <1>3, <1>4, <1>6 DEF FrameOK
<1> QED BY <1>5, <1>6, <1>7, UpdateKeeps

\* The field of a packed loop is one whose elements are read as scalars.
LEMMA ElementIs ==
    ASSUME DecodeInv, AtElement
    PROVE  /\ top.num \in Nums(top.type)
           /\ Ends(element, top.data, top.i)
           /\ element.err = "nil" => FitsOne(lookupNum(top.type, top.num), element.v)
<1> DEFINE f == lookupNum(top.type, top.num)
<1>1. FrameOK(top)
    BY StackIs
<1>2. top.end # 0
    BY <1>1 DEF AtElement, FrameOK
<1>3. top.type \in Type /\ top.num \in Nums(top.type) /\ Packable(f)
      /\ top.data \in Seq(Byte) /\ top.i \in 0..Len(top.data)
    BY <1>1, <1>2 DEF FrameOK
<1>4. f \in FieldSchema /\ f.type # "message"
    BY <1>3, LookupIs DEF Packable
<1>5. element = decodeProtoScalar(top.data, top.i, f.type)
    BY DEF element
<1> HIDE DEF f
<1>6. Ends(element, top.data, top.i) /\ (element.err = "nil" => FitsOne(f, element.v))
    BY <1>3, <1>4, <1>5, decodeProtoScalarIs
<1> QED BY <1>3, <1>6 DEF f

LEMMA PackedElementKeeps ==
    ASSUME DecodeInv, PackedElement
    PROVE  DecodeInv'
<1> DEFINE m == Store(top.msg, lookupNum(top.type, top.num), element.v)
<1> DEFINE f == [top EXCEPT !.i = element.i, !.msg = m]
<1>1. FrameOK(top) /\ AtElement /\ element.err = "nil" /\ top.end # 0
    BY StackIs DEF PackedElement, AtElement, FrameOK
<1>2. /\ top.num \in Nums(top.type)
      /\ element.i \in (top.i + 1)..Len(top.data)
      /\ FitsOne(lookupNum(top.type, top.num), element.v)
    BY <1>1, ElementIs DEF Ends
<1>3. MessageOK(top.type, m)
    BY <1>1, <1>2, StoreFits DEF FrameOK
<1>4. element.i \in 0..Len(top.data)
    BY <1>1, <1>2, LenProperties DEF FrameOK
<1>5. Update(f) /\ UNCHANGED err
    BY DEF PackedElement
<1> HIDE DEF m
<1>6. /\ DOMAIN f = DOMAIN top /\ f.type = top.type /\ f.data = top.data /\ f.i = element.i
      /\ f.msg = m /\ f.num = top.num /\ f.end = top.end
    BY <1>1 DEF FrameOK
<1> HIDE DEF f
<1>7. FrameOK(f)
    BY <1>1, <1>2, <1>3, <1>4, <1>6 DEF FrameOK
<1> QED BY <1>5, <1>6, <1>7, UpdateKeeps

LEMMA LeavePackedKeeps ==
    ASSUME DecodeInv, LeavePacked
    PROVE  DecodeInv'
<1> DEFINE f == [top EXCEPT !.i = top.end, !.num = 0, !.end = 0]
<1>1. FrameOK(top) /\ top.end # 0
    BY StackIs DEF LeavePacked, FrameOK
<1>2. /\ DOMAIN f = DOMAIN top /\ f.type = top.type /\ f.data = top.data /\ f.i = top.end
      /\ f.msg = top.msg /\ f.num = 0 /\ f.end = 0
    BY <1>1 DEF FrameOK
<1>3. Update(f) /\ UNCHANGED err
    BY DEF LeavePacked
<1> HIDE DEF f
<1>4. FrameOK(f)
    <2>1. 0 \in 0..Len(top.data)
        BY <1>1, LenProperties DEF FrameOK
    <2> QED BY <1>1, <1>2, <2>1 DEF FrameOK
<1> QED BY <1>2, <1>3, <1>4, UpdateKeeps


\* A nested call works on the bytes of the field, from their beginning.
LEMMA EnterMessageKeeps ==
    ASSUME DecodeInv, EnterMessage
    PROVE  DecodeInv'
<1> DEFINE n == Len(stack)
<1> DEFINE m == MakeList(top.msg, fs)
<1> DEFINE f == [top EXCEPT !.i = payload.i, !.num = fs.num, !.msg = m]
<1> DEFINE g == Frame(fs.schema, payload.v, <<>>)
<1> DEFINE s == [stack EXCEPT ![n] = f]
<1>1. /\ IsList(stack) /\ n \in Nat /\ n >= 1 /\ DOMAIN stack = 1..n /\ n \in DOMAIN stack
      /\ \A k \in 1..n : FrameOK(stack[k])
    BY StackIs DEF DecodeInv
<1>2. FrameOK(top) /\ AtField /\ fs.type = "message" /\ top.end = 0
    BY StackIs DEF EnterMessage, AtField, AtKey
<1>3. /\ fs.num \in Nums(top.type) /\ fs = lookupNum(top.type, fs.num) /\ fs.schema \in Type
      /\ payload.i \in (top.i + 1)..Len(top.data)
      /\ Boundary(top.data, payload.i)
      /\ payload.v \in Seq(Byte)
    BY <1>2, FieldIs
<1>4. MessageOK(top.type, m)
    BY <1>2, <1>3, MakeListFits DEF FrameOK
<1>5. payload.i \in 0..Len(top.data)
    BY <1>2, <1>3, LenProperties DEF FrameOK
<1>6. stack' = Append([stack EXCEPT ![n].i = payload.i, ![n].num = fs.num, ![n].msg = m], g)
    BY DEF EnterMessage
<1> HIDE DEF m
<1>7. [stack EXCEPT ![n].i = payload.i, ![n].num = fs.num, ![n].msg = m] = s
    BY <1>1 DEF top
<1>8. /\ DOMAIN f = DOMAIN top /\ f.type = top.type /\ f.data = top.data /\ f.i = payload.i
      /\ f.msg = m /\ f.num = fs.num /\ f.end = 0
    BY <1>2 DEF FrameOK
<1> HIDE DEF f
<1>9. FrameOK(f)
    BY <1>2, <1>3, <1>4, <1>5, <1>8 DEF FrameOK
<1>10. /\ DOMAIN g = {"type", "data", "i", "msg", "num", "end"}
       /\ g.type = fs.schema /\ g.data = payload.v /\ g.i = 0 /\ g.msg = <<>>
       /\ g.num = 0 /\ g.end = 0
    BY DEF Frame
<1> HIDE DEF g
<1>11. FrameOK(g)
    <2>1. 0 \in 0..Len(payload.v) /\ Boundary(payload.v, 0)
        BY <1>3, LenProperties, BoundaryStart
    <2>2. MessageOK(fs.schema, <<>>)
        BY EmptySeq DEF MessageOK
    <2> QED BY <1>3, <1>10, <2>1, <2>2 DEF FrameOK
<1>12. /\ IsList(s) /\ Len(s) = n /\ DOMAIN s = 1..n
       /\ \A k \in 1..n : s[k] = IF k = n THEN f ELSE stack[k]
    BY <1>1, ChangeInList
<1>13. stack' = Append(s, g)
    BY <1>6, <1>7
<1> HIDE DEF n, s
<1>14. /\ IsList(stack') /\ Len(stack') = n + 1 /\ DOMAIN stack' = 1..(n + 1)
       /\ stack'[n + 1] = g
       /\ \A k \in 1..n : stack'[k] = IF k = n THEN f ELSE stack[k]
    BY <1>12, <1>13, AppendToList
<1>15. stack' # <<>>
    BY <1>1, <1>14
<1>16. \A k \in DOMAIN stack' : FrameOK(stack'[k])
    BY <1>1, <1>9, <1>11, <1>14
<1>17. Calls'
    <2> SUFFICES ASSUME NEW k \in 1..n
                 PROVE  /\ stack'[k].end = 0 /\ stack'[k].num \in Nums(stack'[k].type)
                        /\ LET h == lookupNum(stack'[k].type, stack'[k].num)
                           IN  h.type = "message" /\ h.schema = stack'[k + 1].type
        BY <1>1, <1>14 DEF Calls
    <2>1. CASE k = n
        BY <1>2, <1>3, <1>8, <1>10, <1>14, <2>1
    <2>2. CASE k # n
        <3>1. k \in 1..(n - 1) /\ k + 1 \in 1..n
            BY <1>1, <2>2
        <3>2. stack'[k] = stack[k] /\ stack'[k + 1].type = stack[k + 1].type
            BY <1>8, <1>14, <2>2, <3>1 DEF top, n
        <3> QED BY <3>1, <3>2 DEF DecodeInv, Calls, n
    <2> QED BY <2>1, <2>2
<1>18. UNCHANGED err
    BY DEF EnterMessage
<1> QED BY <1>14, <1>15, <1>16, <1>17, <1>18 DEF DecodeInv

\* What the nested call has decoded is a message of the type of the caller's field.
LEMMA LeaveMessageKeeps ==
    ASSUME DecodeInv, LeaveMessage
    PROVE  DecodeInv'
<1> DEFINE n == Len(stack) - 1
<1> DEFINE c == stack[n]
<1> DEFINE m == Store(c.msg, lookupNum(c.type, c.num), top.msg)
<1> DEFINE f == [c EXCEPT !.msg = m, !.num = 0]
<1> DEFINE s == SubSeq(stack, 1, n - 1)
<1>1. /\ IsList(stack) /\ Len(stack) \in Nat /\ DOMAIN stack = 1..Len(stack)
      /\ FrameOK(top) /\ \A k \in 1..Len(stack) : FrameOK(stack[k])
    BY StackIs DEF DecodeInv
<1>2. n \in Nat \ {0} /\ n + 1 = Len(stack) /\ n \in 1..Len(stack) /\ n - 1 \in 0..Len(stack)
    BY <1>1 DEF LeaveMessage
<1>3. stack' = Append(s, f)
    BY DEF LeaveMessage
<1>4. /\ FrameOK(c) /\ c.end = 0 /\ c.num \in Nums(c.type)
      /\ lookupNum(c.type, c.num).type = "message"
      /\ lookupNum(c.type, c.num).schema = top.type
    BY <1>1, <1>2 DEF DecodeInv, Calls, top
<1>5. MessageOK(c.type, m)
    <2>1. FitsOne(lookupNum(c.type, c.num), top.msg)
        BY <1>1, <1>4 DEF FitsOne, FrameOK, MessageOK
    <2> QED BY <1>4, <2>1, StoreFits DEF FrameOK
<1> HIDE DEF m
<1>6. /\ DOMAIN f = DOMAIN c /\ f.type = c.type /\ f.data = c.data /\ f.i = c.i
      /\ f.msg = m /\ f.num = 0 /\ f.end = 0
    BY <1>4 DEF FrameOK
<1> HIDE DEF f
<1>7. FrameOK(f)
    BY <1>4, <1>5, <1>6 DEF FrameOK
<1>8. IsList(s) /\ Len(s) = n - 1 /\ \A k \in 1..(n - 1) : s[k] = stack[k]
    BY <1>1, <1>2, FrontOfList
<1> HIDE DEF s, n
<1>9. /\ IsList(stack') /\ Len(stack') = n /\ DOMAIN stack' = 1..n
      /\ stack'[n] = f
      /\ \A k \in 1..(n - 1) : stack'[k] = stack[k]
    <2>1. n - 1 + 1 = n
        BY <1>2
    <2> QED BY <1>3, <1>8, <2>1, AppendToList
<1>10. stack' # <<>>
    BY <1>2, <1>9
<1>11. \A k \in DOMAIN stack' : FrameOK(stack'[k])
    BY <1>1, <1>2, <1>7, <1>9
<1>12. Calls'
    <2> SUFFICES ASSUME NEW k \in 1..(n - 1)
                 PROVE  stack'[k] = stack[k] /\ stack'[k + 1].type = stack[k + 1].type
        BY <1>2, <1>9, SMTT(30) DEF DecodeInv, Calls
    <2>1. k + 1 = n \/ k + 1 \in 1..(n - 1)
        BY <1>2
    <2> QED BY <1>6, <1>9, <2>1
<1>13. UNCHANGED err
    BY DEF LeaveMessage
<1> QED BY <1>9, <1>10, <1>11, <1>12, <1>13 DEF DecodeInv


LEMMA StartKeeps ==
    ASSUME DecodeInv, Start
    PROVE  DecodeInv'
<1> DEFINE n == Len(stack)
<1> DEFINE f == [stack[1] EXCEPT !.msg = <<>>]
<1>1. /\ IsList(stack) /\ n \in Nat /\ n >= 1 /\ DOMAIN stack = 1..n /\ 1 \in DOMAIN stack
      /\ FrameOK(stack[1]) /\ \A k \in 1..n : FrameOK(stack[k])
    BY StackIs DEF DecodeInv
<1>2. stack' = [stack EXCEPT ![1] = f]
    BY <1>1 DEF Start
<1>3. /\ DOMAIN f = DOMAIN stack[1] /\ f.type = stack[1].type /\ f.data = stack[1].data
      /\ f.i = stack[1].i /\ f.msg = <<>> /\ f.num = stack[1].num /\ f.end = stack[1].end
    BY <1>1 DEF FrameOK
<1> HIDE DEF f
<1>4. FrameOK(f)
    <2>1. MessageOK(f.type, <<>>)
        BY EmptySeq DEF MessageOK
    <2> QED BY <1>1, <1>3, <2>1 DEF FrameOK
<1>5. /\ IsList(stack') /\ Len(stack') = n /\ DOMAIN stack' = 1..n
      /\ \A k \in 1..n : stack'[k] = IF k = 1 THEN f ELSE stack[k]
    <2> DEFINE z == [stack EXCEPT ![1] = f]
    <2>1. /\ IsList(z) /\ Len(z) = Len(stack) /\ DOMAIN z = DOMAIN stack
          /\ \A k \in DOMAIN z : z[k] = IF k = 1 THEN f ELSE stack[k]
        BY <1>1, ChangeInList
    <2> HIDE DEF z
    <2>2. stack' = z
        BY <1>2 DEF z
    <2> QED BY <1>1, <2>1, <2>2
<1> HIDE DEF n
<1>6. stack' # <<>>
    BY <1>1, <1>5
<1>7. \A k \in DOMAIN stack' : FrameOK(stack'[k])
    BY <1>1, <1>4, <1>5
<1>8. Calls'
    <2> SUFFICES ASSUME NEW k \in 1..(n - 1)
                 PROVE  /\ stack'[k].end = stack[k].end /\ stack'[k].num = stack[k].num
                        /\ stack'[k].type = stack[k].type
                        /\ stack'[k + 1].type = stack[k + 1].type
        BY <1>5 DEF DecodeInv, Calls, n
    <2>1. k \in 1..n /\ k + 1 \in 1..n
        BY <1>1
    <2> QED BY <1>3, <1>5, <2>1
<1>9. err' = "running"
    BY DEF Start
<1> QED BY <1>5, <1>6, <1>7, <1>8, <1>9 DEF DecodeInv

\* A call of DecodeProto that has not begun.
LEMMA IdleOK ==
    ASSUME NEW t \in Type, NEW data \in Seq(Byte), NEW m, MessageOK(t, m),
           NEW st, st = <<Frame(t, data, m)>>
    PROVE  IsList(st) /\ Len(st) = 1 /\ st # <<>> /\ st[1] = Frame(t, data, m) /\ \A k \in DOMAIN st : FrameOK(st[k])
<1> DEFINE g == Frame(t, data, m)
<1>1. /\ DOMAIN g = {"type", "data", "i", "msg", "num", "end"}
      /\ g.type = t /\ g.data = data /\ g.i = 0 /\ g.msg = m
      /\ g.num = 0 /\ g.end = 0
    BY DEF Frame
<1> HIDE DEF g
<1>2. FrameOK(g)
    <2>1. 0 \in 0..Len(data) /\ Boundary(data, 0)
        BY LenProperties, BoundaryStart
    <2> QED BY <1>1, <2>1 DEF FrameOK
<1>3. st = <<g>> /\ DOMAIN st = {1} /\ st[1] = g /\ Len(st) = 1 /\ st # <<>>
    BY DEF g
<1>4. IsList(st)
    <2>1. st \in Seq({g})
        BY <1>3
    <2> QED BY <2>1, ListIs
<1> QED BY <1>2, <1>3, <1>4 DEF g

LEMMA IdleIs ==
    ASSUME NEW t \in Type, NEW data \in Seq(Byte), NEW m, MessageOK(t, m),
           stack = <<Frame(t, data, m)>>, err = "idle"
    PROVE  DecodeInv
<1>1. IsList(stack) /\ Len(stack) = 1 /\ stack # <<>> /\ \A k \in DOMAIN stack : FrameOK(stack[k])
    BY IdleOK
<1>2. Calls
    BY <1>1 DEF Calls
<1> QED BY <1>1, <1>2 DEF DecodeInv

LEMMA DecodeInvInit == Init => DecodeInv
<1>1. Top \in Type /\ Input \subseteq Seq(Byte)
    BY ProtoAssumption
<1>2. MessageOK(Top, Before[Top])
    BY <1>1, BeforeAssumption DEF MessageOK
<1> QED BY <1>1, <1>2, IdleIs DEF Init

LEMMA DecodeInvNext == DecodeInv /\ [Decode]_protoVars => DecodeInv'
<1> SUFFICES ASSUME DecodeInv, [Decode]_protoVars
             PROVE  DecodeInv'
    OBVIOUS
<1>1. CASE Start
    BY <1>1, StartKeeps
<1>2. CASE Fail
    <2>1. stepErr \in Errors
        BY <1>2, StepErrIs DEF Fail
    <2> QED BY <1>2, <2>1, ReturnKeeps DEF Fail
<1>3. CASE SkipField
    BY <1>3, SkipKeeps
<1>4. CASE DecodeScalar
    BY <1>4, ScalarKeeps
<1>5. CASE EnterMessage
    BY <1>5, EnterMessageKeeps
<1>6. CASE LeaveMessage
    BY <1>6, LeaveMessageKeeps
<1>7. CASE EnterPacked
    BY <1>7, EnterPackedKeeps
<1>8. CASE PackedElement
    BY <1>8, PackedElementKeeps
<1>9. CASE PackedFail
    BY <1>9, ElementIs, ReturnKeeps DEF PackedFail, Ends
<1>10. CASE LeavePacked
    BY <1>10, LeavePackedKeeps
<1>11. CASE Finish
    BY <1>11 DEF Finish, DecodeInv, Calls, Errors
<1>12. CASE UNCHANGED protoVars
    BY <1>12 DEF protoVars, DecodeInv, Calls
<1> QED BY <1>1, <1>2, <1>3, <1>4, <1>5, <1>6, <1>7, <1>8, <1>9, <1>10, <1>11, <1>12 DEF Decode

\* The calls of a decoder in progress: each is at a boundary of its bytes, with a message
\* whose fields fit their types, and in a field of the kind that brought it there.
THEOREM DecodeInvariance == DecodeSpec => []DecodeInv
<1>1. Init => DecodeInv
    BY DecodeInvInit
<1>2. DecodeInv /\ [Decode]_protoVars => DecodeInv'
    BY DecodeInvNext
<1> QED BY <1>1, <1>2, PTL DEF DecodeSpec

\* Whatever the bytes, the schemas and the sizes of the encoding, no position of proto.go
\* leaves the bytes of its call, and every value in a message has the width and the type
\* of its field.
THEOREM TypeCorrect == DecodeSpec => []TypeOK
<1>1. DecodeInv => TypeOK
    BY DEF DecodeInv, TypeOK, FrameOK, MessageOK
<1> QED BY <1>1, DecodeInvariance, PTL

\* A decoder that knows some of the fields and one that knows none agree, for all bytes,
\* on where every field ends: reading the content of a field, packed or nested or scalar,
\* leaves DecodeProto where skipField would.
THEOREM InStep == DecodeSpec => []OnBoundary
<1>1. DecodeInv => OnBoundary
    BY DEF DecodeInv, OnBoundary, FrameOK
<1> QED BY <1>1, DecodeInvariance, PTL

\* The remainder and the quotient are the only ones.
LEMMA RemainderIs ==
    ASSUME NEW m \in Nat \ {0}, NEW p \in Nat, NEW t \in 0..(m - 1)
    PROVE  (m * p + t) % m = t /\ (m * p + t) \div m = p
<1> DEFINE x == m * p + t
           q == x \div m
           r == x % m
<1>1. x \in Nat /\ q \in Nat /\ r \in 0..(m - 1) /\ x = m * q + r
    OBVIOUS
<1> HIDE DEF q, r
<1>2. ~(q > p)
    <2> SUFFICES ASSUME q > p PROVE FALSE
        OBVIOUS
    <2>1. q - p >= 1 /\ q - p \in Nat
        BY <1>1
    <2>2. \A d \in Nat : d >= 1 => m * d >= m
        OBVIOUS
    <2>3. m * (q - p) >= m
        BY <2>1, <2>2
    <2>4. m * (q - p) = m * q - m * p
        BY <1>1
    <2> QED BY <1>1, <2>3, <2>4
<1>3. ~(p > q)
    <2> SUFFICES ASSUME p > q PROVE FALSE
        OBVIOUS
    <2>1. p - q >= 1 /\ p - q \in Nat
        BY <1>1
    <2>2. \A d \in Nat : d >= 1 => m * d >= m
        OBVIOUS
    <2>3. m * (p - q) >= m
        BY <2>1, <2>2
    <2>4. m * (p - q) = m * p - m * q
        BY <1>1
    <2> QED BY <1>1, <2>3, <2>4
<1>4. q = p
    BY <1>1, <1>2, <1>3
<1>5. r = t
    BY <1>1, <1>4
<1> QED BY <1>4, <1>5 DEF q, r

\* The lower digits of a number, and the next one.
LEMMA NextDigit ==
    ASSUME NEW v \in Nat, NEW w \in Nat \ {0}, NEW g \in Nat \ {0}
    PROVE  v % (w * g) = (v % w) + ((v \div w) % g) * w
<1> DEFINE q == v \div w
           r == v % w
           p == q \div g
           s == q % g
<1>1. q \in Nat /\ r \in 0..(w - 1) /\ v = w * q + r
    OBVIOUS
<1>2. p \in Nat /\ s \in 0..(g - 1) /\ q = g * p + s
    BY <1>1
<1> HIDE DEF q, r, p, s
<1>3. v = (w * g) * p + (r + s * w)
    <2>1. w * (g * p + s) = (w * g) * p + s * w
        BY <1>2
    <2> QED BY <1>1, <1>2, <2>1
<1>4. w * g \in Nat \ {0} /\ r + s * w \in 0..(w * g - 1)
    <2>1. s * w =< (g - 1) * w
        BY <1>2
    <2>2. (g - 1) * w = w * g - w /\ s * w \in Nat /\ w * g \in Nat /\ w * g # 0
        BY <1>2
    <2> HIDE DEF s
    <2> QED BY <1>1, <2>1, <2>2
<1>5. ((w * g) * p + (r + s * w)) % (w * g) = r + s * w
    BY <1>2, <1>4, RemainderIs
<1> QED BY <1>3, <1>5 DEF q, r, s

-----------------------------------------------------------------------------
(* The varints of the encoder *)

\* The bytes b are at position i of data, as far as data goes.
Has(data, i, b) == \A j \in 1..Len(b) : i + j =< Len(data) => data[i + j] = b[j]

IsSize(v, n) == /\ n = Groups \/ v < groupWeight[n]
                /\ n = 1 \/ v >= groupWeight[n - 1]

LEMMA SizeExists ==
    ASSUME NEW v \in Nat
    PROVE  \E n \in 1..Groups : IsSize(v, n)
<1> DEFINE S == {n \in 1..Groups : n = Groups \/ v < groupWeight[n]}
<1>1. Groups \in Nat /\ Groups >= 1 /\ Size64 \in Nat
    BY ProtoAssumption, GroupWeightBelow
<1>2. S \in SUBSET Nat /\ Groups \in S
    BY <1>1
<1>3. PICK n \in S : \A k \in S : n =< k
    BY <1>2, LeastNat
<1>4. CASE n = 1
    BY <1>3, <1>4 DEF IsSize
<1>5. CASE n # 1
    <2>1. n - 1 \in 1..Groups /\ n - 1 \notin S
        BY <1>1, <1>3, <1>5
    <2>2. ~(v < groupWeight[n - 1]) /\ groupWeight[n - 1] \in Nat
        BY <1>1, <2>1, GroupWeightPositive
    <2> QED BY <1>1, <1>3, <2>2 DEF IsSize
<1> QED BY <1>4, <1>5

Digit(v, j) == (v \div groupWeight[j - 1]) % GroupSize

\* appendVarint makes digits, all but the last with the continuation bit.
LEMMA appendVarintIs ==
    ASSUME NEW v \in Nat
    PROVE  LET a == appendVarint(v)
           IN  /\ a \in Seq(Byte) /\ Len(a) \in 1..Groups /\ IsSize(v, Len(a))
               /\ \A j \in 1..Len(a) :
                      /\ a[j] % GroupSize = Digit(v, j)
                      /\ a[j] < GroupSize <=> j = Len(a)
<1> DEFINE n == CHOOSE n \in 1..Groups : IsSize(v, n)
           a == [j \in 1..n |-> Digit(v, j) + (IF j < n THEN GroupSize ELSE 0)]
<1>1. n \in 1..Groups /\ IsSize(v, n)
    BY SizeExists
<1>2. appendVarint(v) = a
    BY DEF appendVarint, IsSize, Digit
<1> HIDE DEF n
<1>3. Groups \in Nat /\ GroupSize \in Nat \ {0} /\ Size64 \in Nat
    BY ProtoAssumption, GroupWeightBelow
<1>4. ASSUME NEW j \in 1..n
      PROVE  Digit(v, j) \in 0..(GroupSize - 1)
    <2>1. groupWeight[j - 1] \in Nat \ {0}
        BY <1>1, <1>3, GroupWeightPositive
    <2>2. v \div groupWeight[j - 1] \in Nat
        <3>1. \A x \in Nat, w \in Nat \ {0} : x \div w \in Nat
            OBVIOUS
        <3> QED BY <1>3, <2>1, <3>1
    <2>3. \A x \in Nat, w \in Nat \ {0} : x % w \in 0..(w - 1)
        OBVIOUS
    <2> QED BY <1>3, <2>2, <2>3 DEF Digit
<1>5. \A j \in 1..n : a[j] \in Byte
    BY <1>1, <1>3, <1>4 DEF Byte
<1>6. a \in Seq(Byte) /\ Len(a) = n /\ DOMAIN a = 1..n
    <2>1. a \in [1..n -> Byte]
        BY <1>5
    <2>2. n \in Nat
        BY <1>1
    <2> HIDE DEF a
    <2> QED BY <2>1, <2>2, SeqDef, LenProperties
<1>7. ASSUME NEW j \in 1..n
      PROVE  a[j] % GroupSize = Digit(v, j) /\ (a[j] < GroupSize <=> j = n)
    <2>1. Digit(v, j) \in 0..(GroupSize - 1)
        BY <1>4
    <2>2. a[j] = Digit(v, j) + (IF j < n THEN GroupSize ELSE 0)
        OBVIOUS
    <2>3. \A d \in 0..(GroupSize - 1) : d % GroupSize = d /\ (d + GroupSize) % GroupSize = d
        <3> SUFFICES ASSUME NEW d \in 0..(GroupSize - 1)
                     PROVE  d % GroupSize = d /\ (d + GroupSize) % GroupSize = d
            OBVIOUS
        <3>1. (GroupSize * 0 + d) % GroupSize = d
            BY <1>3, RemainderIs
        <3>2. (GroupSize * 1 + d) % GroupSize = d
            BY <1>3, RemainderIs
        <3> QED BY <1>3, <3>1, <3>2
    <2> HIDE DEF a
    <2> QED BY <1>1, <1>3, <2>1, <2>2, <2>3
<1> HIDE DEF a
<1> QED BY <1>1, <1>2, <1>6, <1>7

LEMMA DivisionIs ==
    \A v \in Nat : \A w \in Nat \ {0} :
        v \div w \in Nat /\ v % w \in 0..(w - 1) /\ v = w * (v \div w) + (v % w)
OBVIOUS

LEMMA SmallRemainder == \A m \in Nat \ {0} : \A t \in 0..(m - 1) : t % m = t
<1> SUFFICES ASSUME NEW m \in Nat \ {0}, NEW t \in 0..(m - 1) PROVE t % m = t
    OBVIOUS
<1>1. (m * 0 + t) % m = t
    BY RemainderIs
<1> QED BY <1>1

\* What the first groups of a varint are the value of.
LEMMA GroupsSumDigits ==
    ASSUME NEW data \in Seq(Byte), NEW i \in 0..Len(data), NEW v \in 0..(Size64 - 1),
           Has(data, i, appendVarint(v)), i + Len(appendVarint(v)) =< Len(data)
    PROVE  groupsSum(data, i)[Len(appendVarint(v))] = v
<1> DEFINE a == appendVarint(v)
           n == Len(a)
           f == groupsSum(data, i)
           S == {k \in Nat : k =< n => f[k] = IF k = Groups THEN v ELSE v % groupWeight[k]}
<1>1. /\ Groups \in Nat /\ Groups >= 1 /\ GroupSize \in Nat \ {0} /\ LastSize \in Nat \ {0}
      /\ LastSize =< GroupSize /\ Size64 \in Nat /\ Len(data) \in Nat /\ i \in Nat /\ v \in Nat
    BY ProtoAssumption, WireAssumption, GroupWeightBelow, LenProperties
<1>2. /\ a \in Seq(Byte) /\ n \in 1..Groups /\ IsSize(v, n)
      /\ \A j \in 1..n : a[j] % GroupSize = Digit(v, j) /\ (a[j] < GroupSize <=> j = n)
    BY appendVarintIs
<1>3. \A j \in 1..n : data[i + j] = a[j]
    <2> SUFFICES ASSUME NEW j \in 1..n PROVE data[i + j] = a[j]
        OBVIOUS
    <2>1. i + j =< Len(data)
        BY <1>1, <1>2
    <2> QED BY <2>1 DEF Has
<1>4. \A j \in 1..n : a[j] \in Nat
    <2>1. a \in Seq(Byte)
        BY <1>2
    <2> HIDE DEF a
    <2>2. \A j \in 1..n : a[j] \in Byte
        BY <2>1, ElementOfSeq
    <2>3. Byte \subseteq Nat
        BY DEF Byte
    <2> QED BY <2>2, <2>3
<1>5. i + n =< Len(data)
    OBVIOUS
<1> HIDE DEF f, n, a
<1>6. 0 \in S
    <2>1. f[0] = 0 /\ groupWeight[0] = 1 /\ 0 # Groups
        BY <1>1, GroupsSumIs, GroupWeightIs DEF f
    <2>2. v % 1 = 0
        BY <1>1
    <2> QED BY <2>1, <2>2
<1>7. ASSUME NEW k \in Nat, k \in S
      PROVE  k + 1 \in S
    <2> SUFFICES ASSUME k + 1 =< n
                 PROVE  f[k + 1] = IF k + 1 = Groups THEN v ELSE v % groupWeight[k + 1]
        OBVIOUS
    <2> DEFINE w == groupWeight[k]
               c == GroupBits(data, i, k + 1)
    <2>1. k + 1 \in 1..n /\ k + 1 \in 1..Groups /\ (k + 1) - 1 = k /\ k \in 0..(Groups - 1) /\ k # Groups
        BY <1>1, <1>2
    <2>2. f[k] = v % w
        BY <1>2, <1>7, <2>1
    <2>3. f[k + 1] = f[k] + c * w
        BY <2>1, GroupsSumIs DEF f
    <2>4. w \in Nat \ {0}
        BY <1>1, <2>1, GroupWeightPositive
    <2>5. a[k + 1] % GroupSize = (v \div w) % GroupSize
        BY <1>2, <2>1 DEF Digit
    <2>6. data[i + (k + 1)] = a[k + 1] /\ a[k + 1] \in Nat
        BY <1>3, <1>4, <2>1
    <2>7. CASE k + 1 # Groups
        <3>1. c = (v \div w) % GroupSize
            BY <2>5, <2>6, <2>7 DEF GroupBits
        <3>2. groupWeight[k + 1] = w * GroupSize
            BY <2>1, GroupWeightIs
        <3> HIDE DEF w, c
        <3>3. v % (w * GroupSize) = (v % w) + ((v \div w) % GroupSize) * w
            BY <1>1, <2>4, NextDigit
        <3> QED BY <2>2, <2>3, <2>7, <3>1, <3>2, <3>3, Zenon
    <2>8. CASE k + 1 = Groups
        <3>1. w = groupWeight[Groups - 1] /\ Size64 = w * LastSize
            <4>1. k = Groups - 1
                BY <1>1, <2>8
            <4> QED BY <4>1 DEF Size64
        <3>2. c = a[k + 1] % LastSize
            BY <2>6, <2>8 DEF GroupBits
        <3>3. k + 1 = n
            BY <1>1, <1>2, <2>1, <2>8
        <3>4. a[k + 1] < GroupSize
            BY <1>2, <2>1, <3>3
        <3> DEFINE q == v \div w
                   r == v % w
        <3>5. q \in Nat /\ r \in 0..(w - 1) /\ v = w * q + r
            BY <1>1, <2>4, DivisionIs
        <3> HIDE DEF q, r, w, c
        <3>6. q =< LastSize - 1
            <4> SUFFICES ASSUME q >= LastSize PROVE FALSE
                BY <1>1, <3>5
            <4>1. \A x, y, z \in Nat : x >= y => z * x >= z * y
                OBVIOUS
            <4>2. w * q >= w * LastSize
                BY <1>1, <2>4, <3>5, <4>1
            <4>3. v < w * LastSize
                BY <1>1, <3>1
            <4>4. \A x, y, z, u \in Nat : x = y + z /\ y >= u => ~(x < u)
                OBVIOUS
            <4>5. w * q \in Nat /\ w * LastSize \in Nat /\ r \in Nat
                BY <1>1, <2>4, <3>5
            <4> QED BY <1>1, <3>5, <4>2, <4>3, <4>4, <4>5
        <3>7. q \in 0..(LastSize - 1) /\ q \in 0..(GroupSize - 1) /\ a[k + 1] \in 0..(GroupSize - 1)
            BY <1>1, <2>6, <3>4, <3>5, <3>6
        <3>8. a[k + 1] = q
            <4>1. a[k + 1] % GroupSize = a[k + 1] /\ q % GroupSize = q
                BY <1>1, <3>7, SmallRemainder
            <4> QED BY <2>5, <4>1 DEF q, w
        <3>9. c = q
            <4>1. q % LastSize = q
                BY <1>1, <3>7, SmallRemainder
            <4> QED BY <3>2, <3>8, <4>1
        <3>10. q * w = w * q
            BY <2>4, <3>5
        <3>11. f[k + 1] = r + q * w
            BY <2>2, <2>3, <3>9 DEF r, w
        <3> QED BY <2>4, <2>8, <3>5, <3>10, <3>11
    <2> QED BY <2>7, <2>8
<1> HIDE DEF S
<1>8. Nat \subseteq S
    BY <1>6, <1>7, NatSetInduction
<1>9. f[n] = IF n = Groups THEN v ELSE v % groupWeight[n]
    <2>1. n \in Nat
        BY <1>2
    <2> QED BY <1>8, <2>1 DEF S
<1>10. CASE n # Groups
    <2>1. v < groupWeight[n] /\ groupWeight[n] \in Nat \ {0}
        BY <1>2, <1>10, GroupWeightPositive DEF IsSize
    <2>2. v \in 0..(groupWeight[n] - 1)
        BY <1>1, <2>1
    <2> QED BY <1>9, <1>10, <2>1, <2>2, SmallRemainder DEF f, n, a
<1> QED BY <1>9, <1>10 DEF f, n, a

\* A varint that is there is read.
LEMMA VarintWhole ==
    ASSUME NEW data \in Seq(Byte), NEW i \in 0..Len(data), NEW v \in 0..(Size64 - 1),
           Has(data, i, appendVarint(v)), i + Len(appendVarint(v)) =< Len(data)
    PROVE  LET c == consumeVarint(data, i)
           IN  c.v = v /\ c.n = Len(appendVarint(v)) /\ c.n \in 1..Groups
<1> DEFINE a == appendVarint(v)
           n == Len(a)
<1>1. Groups \in Nat /\ Groups >= 1 /\ Len(data) \in Nat /\ i \in Nat
    BY ProtoAssumption, LenProperties
<1>2. /\ a \in Seq(Byte) /\ n \in 1..Groups /\ IsSize(v, n)
      /\ \A j \in 1..n : (a[j] < GroupSize <=> j = n)
    BY appendVarintIs
<1>3. \A j \in 1..n : data[i + j] = a[j]
    <2> SUFFICES ASSUME NEW j \in 1..n PROVE data[i + j] = a[j]
        OBVIOUS
    <2>1. i + j =< Len(data)
        BY <1>1, <1>2
    <2> QED BY <2>1 DEF Has
<1>4. i + n =< Len(data) /\ groupsSum(data, i)[n] = v
    BY GroupsSumDigits
<1> HIDE DEF n, a
<1>5. n \in Stops(data, i)
    BY <1>2, <1>3, <1>4 DEF Stops
<1>6. \A k \in Stops(data, i) : n =< k
    <2> SUFFICES ASSUME NEW k \in Stops(data, i), k < n PROVE FALSE
        BY <1>2 DEF Stops
    <2>1. k \in 1..n /\ k # n /\ k # Groups /\ data[i + k] < GroupSize
        BY <1>1, <1>2 DEF Stops
    <2> QED BY <1>2, <1>3, <2>1
<1> DEFINE m == CHOOSE m \in Stops(data, i) : \A k \in Stops(data, i) : m =< k
<1>7. m \in Stops(data, i) /\ \A k \in Stops(data, i) : m =< k
    BY <1>5, <1>6
<1> HIDE DEF m
<1>8. m = n
    <2>1. m =< n /\ n =< m /\ m \in Nat
        BY <1>5, <1>6, <1>7, <1>1 DEF Stops
    <2> QED BY <1>2, <2>1
<1>9. consumeVarint(data, i) = [v |-> groupsSum(data, i)[n], n |-> n]
    BY <1>5, <1>8 DEF consumeVarint, m
<1> QED BY <1>2, <1>4, <1>9 DEF n, a

\* A varint of which only a part is there is noticed.
LEMMA VarintCut ==
    ASSUME NEW data \in Seq(Byte), NEW i \in 0..Len(data), NEW v \in 0..(Size64 - 1),
           Has(data, i, appendVarint(v)), i + Len(appendVarint(v)) > Len(data)
    PROVE  consumeVarint(data, i).n = 0
<1> DEFINE a == appendVarint(v)
           n == Len(a)
<1>1. Groups \in Nat /\ Len(data) \in Nat /\ i \in Nat
    BY ProtoAssumption, LenProperties
<1>2. n \in 1..Groups /\ \A j \in 1..n : (a[j] < GroupSize <=> j = n)
    BY appendVarintIs
<1>3. \A j \in 1..n : i + j =< Len(data) => data[i + j] = a[j]
    BY DEF Has
<1>4. i + n > Len(data)
    OBVIOUS
<1> HIDE DEF n, a
<1>5. Stops(data, i) = {}
    <2> SUFFICES ASSUME NEW k \in Stops(data, i) PROVE FALSE
        OBVIOUS
    <2>1. k \in 1..n /\ k # n /\ k # Groups /\ i + k =< Len(data) /\ data[i + k] < GroupSize
        BY <1>1, <1>2, <1>4 DEF Stops
    <2> QED BY <1>2, <1>3, <2>1
<1> QED BY <1>5 DEF consumeVarint

LEMMA JoinedHas ==
    ASSUME NEW data \in Seq(Byte), NEW i \in Nat, NEW a \in Seq(Byte), NEW b \in Seq(Byte),
           Has(data, i, a \o b)
    PROVE  /\ Has(data, i, a) /\ Has(data, i + Len(a), b)
           /\ a \o b \in Seq(Byte) /\ Len(a \o b) = Len(a) + Len(b)
<1>1. Len(a) \in Nat /\ Len(b) \in Nat /\ Len(data) \in Nat
    BY LenProperties
<1>2. /\ a \o b \in Seq(Byte) /\ Len(a \o b) = Len(a) + Len(b)
      /\ \A j \in 1..(Len(a) + Len(b)) :
            (a \o b)[j] = IF j =< Len(a) THEN a[j] ELSE b[j - Len(a)]
    BY ConcatProperties
<1> DEFINE c == a \o b
<1>3. \A j \in 1..Len(c) : i + j =< Len(data) => data[i + j] = c[j]
    BY DEF Has
<1> HIDE DEF c
<1>4. Has(data, i, a)
    BY <1>1, <1>2, <1>3 DEF Has, c
<1>5. Has(data, i + Len(a), b)
    <2> SUFFICES ASSUME NEW j \in 1..Len(b), i + Len(a) + j =< Len(data)
                 PROVE  data[i + Len(a) + j] = b[j]
        BY DEF Has
    <2>1. Len(a) + j \in 1..(Len(a) + Len(b)) /\ ~(Len(a) + j =< Len(a)) /\ Len(a) + j - Len(a) = j
        BY <1>1
    <2>2. i + (Len(a) + j) = i + Len(a) + j
        BY <1>1
    <2>3. c[Len(a) + j] = b[j]
        BY <1>2, <2>1 DEF c
    <2> QED BY <1>2, <1>3, <2>1, <2>2, <2>3 DEF c
<1> QED BY <1>2, <1>4, <1>5

LEMMA TakenIs ==
    ASSUME NEW data \in Seq(Byte), NEW i \in Nat, NEW b \in Seq(Byte),
           Has(data, i, b), i + Len(b) =< Len(data)
    PROVE  SubSeq(data, i + 1, i + Len(b)) = b
<1> DEFINE n == Len(b)
           s == SubSeq(data, i + 1, i + n)
<1>1. n \in Nat /\ Len(data) \in Nat
    BY LenProperties
<1>2. i + 1 \in Int /\ i + n \in Int /\ \A k \in (i + 1)..(i + n) : data[k] \in Byte
    <2>1. \A k \in (i + 1)..(i + n) : k \in 1..Len(data)
        BY <1>1
    <2> QED BY <1>1, <2>1, ElementOfSeq
<1>3. /\ s \in Seq(Byte) /\ Len(s) = IF i + 1 =< i + n THEN i + n - (i + 1) + 1 ELSE 0
      /\ \A j \in 1..(i + n - (i + 1) + 1) : s[j] = data[i + 1 + j - 1]
    BY <1>2, SubSeqProperties
<1>4. \A j \in 1..n : i + j =< Len(data) => data[i + j] = b[j]
    BY DEF Has
<1>5. i + n =< Len(data)
    OBVIOUS
<1> HIDE DEF s, n
<1>6. Len(s) = n
    BY <1>1, <1>3
<1>7. \A j \in 1..n : s[j] = b[j]
    <2> SUFFICES ASSUME NEW j \in 1..n PROVE s[j] = b[j]
        OBVIOUS
    <2>1. j \in 1..(i + n - (i + 1) + 1) /\ i + 1 + j - 1 = i + j /\ i + j =< Len(data)
        BY <1>1, <1>5
    <2> QED BY <1>3, <1>4, <2>1
<1>8. s = b
    BY <1>3, <1>6, <1>7, SeqEqual DEF n
<1> QED BY <1>8 DEF s, n

\* A reader has read v from the bytes b at i, or has noticed that they are cut.
Decodes(r, v, data, i, b) ==
    r = IF i + Len(b) =< Len(data) THEN Read(v, i + Len(b)) ELSE Truncated

LEMMA FixedDecodes ==
    ASSUME NEW data \in Seq(Byte), NEW i \in 0..Len(data), NEW n \in Nat \ {0},
           NEW v \in [1..n -> Byte], Has(data, i, v)
    PROVE  v \in Seq(Byte) /\ Len(v) = n /\ Decodes(readFixed(data, i, n), v, data, i, v)
<1>1. v \in Seq(Byte) /\ Len(v) = n
    BY SeqDef, LenProperties
<1>2. Len(data) \in Nat /\ i \in Nat
    BY LenProperties
<1>3. CASE i + n =< Len(data)
    <2>1. SubSeq(data, i + 1, i + n) = v
        BY <1>1, <1>2, <1>3, TakenIs
    <2>2. ~(i + n > Len(data))
        BY <1>2, <1>3
    <2> QED BY <1>1, <1>3, <2>1, <2>2 DEF readFixed, Decodes
<1>4. CASE ~(i + n =< Len(data))
    <2>1. i + n > Len(data)
        BY <1>2, <1>4
    <2> QED BY <1>1, <1>4, <2>1 DEF readFixed, Decodes
<1> QED BY <1>3, <1>4

LEMMA BytesDecode ==
    ASSUME NEW data \in Seq(Byte), NEW i \in 0..Len(data), NEW b \in Seq(Byte), HasRoom(b),
           Has(data, i, appendBytes(b))
    PROVE  /\ appendBytes(b) \in Seq(Byte) /\ Len(appendBytes(b)) > Len(b)
           /\ Decodes(readBytes(data, i), b, data, i, appendBytes(b))
<1> DEFINE n == Len(b)
           a == appendVarint(n)
           c == consumeVarint(data, i)
<1>1. Len(data) \in Nat /\ i \in Nat /\ n \in Nat /\ Size64 \in Nat /\ Groups \in Nat
    BY LenProperties, GroupWeightBelow, ProtoAssumption
<1>2. n \in 0..(Size64 - 1)
    BY <1>1 DEF HasRoom
<1>3. a \in Seq(Byte) /\ Len(a) \in 1..Groups
    BY <1>2, appendVarintIs
<1>4. appendBytes(b) = a \o b
    BY DEF appendBytes
<1> HIDE DEF a
<1>5. /\ Has(data, i, a) /\ Has(data, i + Len(a), b)
      /\ a \o b \in Seq(Byte) /\ Len(a \o b) = Len(a) + n
    BY <1>1, <1>3, <1>4, JoinedHas
<1>6. readBytes(data, i) = IF c.n = 0 \/ Len(data) - (i + c.n) < c.v THEN Truncated
                           ELSE Read(SubSeq(data, i + c.n + 1, i + c.n + c.v), i + c.n + c.v)
    BY DEF readBytes
<1> HIDE DEF c
<1>7. CASE i + Len(a) > Len(data)
    <2>1. c.n = 0
        BY <1>2, <1>5, <1>7, VarintCut DEF a, c
    <2>2. ~(i + (Len(a) + n) =< Len(data))
        BY <1>1, <1>3, <1>7
    <2> QED BY <1>1, <1>3, <1>4, <1>5, <1>6, <2>1, <2>2 DEF Decodes
<1>8. CASE ~(i + Len(a) > Len(data))
    <2>1. i + Len(a) =< Len(data)
        BY <1>1, <1>3, <1>8
    <2>2. c.n = Len(a) /\ c.v = n /\ c.n # 0
        BY <1>1, <1>2, <1>3, <1>5, <2>1, VarintWhole DEF a, c
    <2>3. CASE i + Len(a) + n =< Len(data)
        <3>1. SubSeq(data, i + Len(a) + 1, i + Len(a) + n) = b
            BY <1>1, <1>3, <1>5, <2>3, TakenIs
        <3>2. ~(Len(data) - (i + Len(a)) < n)
            BY <1>1, <1>3, <2>3
        <3>3. readBytes(data, i) = Read(b, i + Len(a) + n)
            BY <1>6, <2>2, <3>1, <3>2
        <3>4. i + (Len(a) + n) = i + Len(a) + n
            BY <1>1, <1>3
        <3> QED BY <1>1, <1>3, <1>4, <1>5, <2>3, <3>3, <3>4 DEF Decodes
    <2>4. CASE ~(i + Len(a) + n =< Len(data))
        <3>1. Len(data) - (i + Len(a)) < n /\ i + (Len(a) + n) = i + Len(a) + n
            BY <1>1, <1>3, <2>4
        <3>2. readBytes(data, i) = Truncated
            BY <1>6, <2>2, <3>1
        <3> QED BY <1>1, <1>3, <1>4, <1>5, <2>4, <3>1, <3>2 DEF Decodes
    <2> QED BY <2>3, <2>4
<1> QED BY <1>7, <1>8

-----------------------------------------------------------------------------
(* Scalars *)

LEMMA SizesAre ==
    \E q \in Nat, h \in Nat : /\ Size64 = Size32 * (q + 1) /\ Size32 = h + h /\ h >= 1
                              /\ Size32 \div 2 = h /\ Size32 =< Size64
<1>1. Size32 \in Nat \ {0} /\ Size64 \in Nat \ {0} /\ Size32 % 2 = 0 /\ Size64 % Size32 = 0
    BY ProtoAssumption, GroupWeightBelow
<1> DEFINE p == Size64 \div Size32
           h == Size32 \div 2
<1>2. p \in Nat /\ Size64 = Size32 * p
    <2>1. Size64 = Size32 * (Size64 \div Size32) + (Size64 % Size32) /\ Size64 \div Size32 \in Nat
        BY <1>1, DivisionIs
    <2> QED BY <1>1, <2>1
<1>3. h \in Nat /\ Size32 = 2 * h
    <2>1. Size32 = 2 * (Size32 \div 2) + (Size32 % 2) /\ Size32 \div 2 \in Nat
        BY <1>1, DivisionIs
    <2> QED BY <1>1, <2>1
<1> HIDE DEF p
<1>4. p # 0
    BY <1>1, <1>2
<1>5. p - 1 \in Nat /\ p = (p - 1) + 1
    BY <1>2, <1>4
<1>6. Size32 = h + h /\ h >= 1
    BY <1>1, <1>3
<1>7. Size32 =< Size64
    <2>1. \A s \in Nat, x \in Nat : s * (x + 1) >= s
        OBVIOUS
    <2> QED BY <1>1, <1>2, <1>5, <2>1
<1> QED BY <1>2, <1>3, <1>5, <1>6, <1>7

\* An integer or a bool is a number of a varint, which the decoder takes for the same.
LEMMA toVarintIs ==
    ASSUME NEW f, f.type \in {"int32", "uint32", "uint64", "bool"}, NEW v, FitsOne(f, v)
    PROVE  /\ toVarint(f.type, v) \in 0..(Size64 - 1)
           /\ fromVarint(f.type, toVarint(f.type, v)) = v
<1>1. Size32 \in Nat \ {0} /\ Size64 \in Nat \ {0}
    BY ProtoAssumption, GroupWeightBelow
<1>2. PICK q \in Nat, h \in Nat : /\ Size64 = Size32 * (q + 1) /\ Size32 = h + h /\ h >= 1
                                  /\ Size32 \div 2 = h /\ Size32 =< Size64
    BY SizesAre
<1>3. Size64 >= 2
    BY <1>1, <1>2
<1>4. CASE f.type = "int32"
    <2>1. v \in (-h)..(h - 1)
        BY <1>2, <1>4 DEF FitsOne
    <2>4. \A u : fromVarint(f.type, u) = IF u % Size32 >= Size32 \div 2
                                         THEN (u % Size32) - Size32 ELSE u % Size32
        BY <1>4 DEF fromVarint
    <2>2. CASE v < 0
        <3>1. toVarint(f.type, v) = Size64 + v
            BY <1>4, <2>2 DEF toVarint
        <3>2. Size64 + v \in 0..(Size64 - 1) /\ Size32 + v \in 0..(Size32 - 1) /\ Size32 + v >= h
            BY <1>1, <1>2, <2>1, <2>2
        <3>3. Size64 + v = Size32 * q + (Size32 + v)
            <4>1. Size32 * (q + 1) = Size32 * q + Size32
                BY <1>1
            <4> QED BY <1>1, <1>2, <2>1, <4>1
        <3>4. (Size64 + v) % Size32 = Size32 + v
            BY <1>1, <3>2, <3>3, RemainderIs
        <3>5. fromVarint(f.type, Size64 + v) = (Size32 + v) - Size32
            <4> DEFINE u == Size64 + v
            <4>1. u % Size32 = Size32 + v
                BY <3>4
            <4> HIDE DEF u
            <4>2. fromVarint(f.type, u) = IF u % Size32 >= Size32 \div 2
                                          THEN (u % Size32) - Size32 ELSE u % Size32
                BY <2>4
            <4>3. u % Size32 >= Size32 \div 2
                BY <1>2, <3>2, <4>1
            <4>4. fromVarint(f.type, u) = (Size32 + v) - Size32
                BY <4>1, <4>2, <4>3, Zenon
            <4> QED BY <4>4 DEF u
        <3> QED BY <1>1, <2>1, <3>1, <3>2, <3>5
    <2>3. CASE ~(v < 0)
        <3>1. toVarint(f.type, v) = v
            BY <1>4, <2>3 DEF toVarint
        <3>2. v \in 0..(Size64 - 1) /\ v \in 0..(Size32 - 1) /\ ~(v >= h)
            BY <1>1, <1>2, <2>1, <2>3
        <3>3. v % Size32 = v
            BY <1>1, <3>2, SmallRemainder
        <3>4. fromVarint(f.type, v) = v
            BY <1>2, <2>4, <3>2, <3>3
        <3> QED BY <3>1, <3>2, <3>4
    <2> QED BY <2>2, <2>3
<1>5. CASE f.type = "uint32"
    <2>1. v \in 0..(Size32 - 1) /\ toVarint(f.type, v) = v
        BY <1>5 DEF FitsOne, toVarint
    <2>2. v % Size32 = v /\ v \in 0..(Size64 - 1)
        BY <1>1, <1>2, <2>1, SmallRemainder
    <2> QED BY <1>5, <2>1, <2>2 DEF fromVarint
<1>6. CASE f.type = "uint64"
    BY <1>6 DEF FitsOne, toVarint, fromVarint
<1>7. CASE f.type = "bool"
    <2>1. v = TRUE \/ v = FALSE
        BY <1>7 DEF FitsOne
    <2>2. \A u : fromVarint(f.type, u) = (u # 0)
        BY <1>7 DEF fromVarint
    <2>3. CASE v = TRUE
        <3>1. toVarint(f.type, v) = 1
            BY <1>7, <2>3 DEF toVarint
        <3>2. fromVarint(f.type, 1) = TRUE
            <4>1. fromVarint(f.type, 1) = (1 # 0)
                BY <2>2
            <4>2. (1 # 0) = TRUE
                OBVIOUS
            <4> QED BY <4>1, <4>2, Zenon
        <3>3. 1 \in 0..(Size64 - 1)
            BY <1>1, <1>3
        <3> QED BY <2>3, <3>1, <3>2, <3>3, Zenon
    <2>4. CASE v = FALSE
        <3>1. toVarint(f.type, v) = 0
            BY <1>7, <2>4 DEF toVarint
        <3>2. fromVarint(f.type, 0) = FALSE
            <4>1. fromVarint(f.type, 0) = (0 # 0)
                BY <2>2
            <4>2. (0 # 0) = FALSE
                OBVIOUS
            <4> QED BY <4>1, <4>2, Zenon
        <3>3. 0 \in 0..(Size64 - 1)
            BY <1>1, <1>3
        <3> QED BY <2>4, <3>1, <3>2, <3>3, Zenon
    <2> QED BY <2>1, <2>3, <2>4
<1> QED BY <1>4, <1>5, <1>6, <1>7

\* What can be appended to the encoding of a message.
Short(f, v) == f.type = "bytes" => HasRoom(v)

LEMMA appendBytesIs ==
    ASSUME NEW b \in Seq(Byte)
    PROVE  appendBytes(b) \in Seq(Byte) /\ Len(appendBytes(b)) \in Nat /\ Len(appendBytes(b)) > Len(b)
<1> DEFINE a == appendVarint(Len(b))
<1>1. Len(b) \in Nat
    BY LenProperties
<1>2. a \in Seq(Byte) /\ Len(a) >= 1 /\ Len(a) \in Nat
    BY <1>1, appendVarintIs, ProtoAssumption
<1>3. appendBytes(b) = a \o b
    BY DEF appendBytes
<1> HIDE DEF a
<1>4. a \o b \in Seq(Byte) /\ Len(a \o b) = Len(a) + Len(b)
    BY <1>2, ConcatProperties
<1> QED BY <1>1, <1>2, <1>3, <1>4

LEMMA ScalarBytes ==
    ASSUME NEW f \in FieldSchema, f.type # "message", NEW v, FitsOne(f, v)
    PROVE  appendScalar(f.type, v) \in Seq(Byte) /\ Len(appendScalar(f.type, v)) \in Nat
           /\ Len(appendScalar(f.type, v)) >= 1
<1>1. f.type \in FieldType /\ Fixed32 \in Nat \ {0} /\ Fixed64 \in Nat \ {0}
    BY ProtoAssumption DEF FieldSchema
<1>2. CASE f.type \in {"int32", "uint32", "uint64", "bool"}
    <2>1. appendScalar(f.type, v) = appendVarint(toVarint(f.type, v))
        BY <1>2 DEF appendScalar
    <2>2. toVarint(f.type, v) \in Nat
        BY <1>2, toVarintIs
    <2> DEFINE u == toVarint(f.type, v)
    <2> HIDE DEF u
    <2>3. u \in Nat
        BY <2>2 DEF u
    <2>4. appendVarint(u) \in Seq(Byte) /\ Len(appendVarint(u)) \in 1..Groups
        BY <2>3, appendVarintIs
    <2>5. Groups \in Nat
        BY ProtoAssumption
    <2> QED BY <2>1, <2>4, <2>5 DEF u
<1>3. CASE f.type = "float"
    <2>1. v \in [1..Fixed32 -> Byte] /\ appendScalar(f.type, v) = v
        BY <1>3 DEF FitsOne, appendScalar
    <2> QED BY <1>1, <2>1, SeqDef, LenProperties
<1>4. CASE f.type = "double"
    <2>1. v \in [1..Fixed64 -> Byte] /\ appendScalar(f.type, v) = v
        BY <1>4 DEF FitsOne, appendScalar
    <2> QED BY <1>1, <2>1, SeqDef, LenProperties
<1>5. CASE f.type = "bytes"
    <2>1. v \in Seq(Byte) /\ appendScalar(f.type, v) = appendBytes(v)
        BY <1>5 DEF FitsOne, appendScalar
    <2>2. Len(v) \in Nat
        BY <2>1, LenProperties
    <2> QED BY <2>1, <2>2, appendBytesIs
<1> QED BY <1>1, <1>2, <1>3, <1>4, <1>5 DEF FieldType

LEMMA ScalarDecodes ==
    ASSUME NEW data \in Seq(Byte), NEW i \in 0..Len(data),
           NEW f \in FieldSchema, f.type # "message", NEW v, FitsOne(f, v), Short(f, v),
           Has(data, i, appendScalar(f.type, v))
    PROVE  Decodes(decodeProtoScalar(data, i, f.type), v, data, i, appendScalar(f.type, v))
<1>1. /\ f.type \in FieldType /\ Fixed32 \in Nat \ {0} /\ Fixed64 \in Nat \ {0}
      /\ Len(data) \in Nat /\ i \in Nat
    BY ProtoAssumption, LenProperties DEF FieldSchema
<1> DEFINE d == decodeProtoScalar(data, i, f.type)
<1>2. CASE f.type \in {"int32", "uint32", "uint64", "bool"}
    <2> DEFINE u == toVarint(f.type, v)
               a == appendVarint(u)
               c == consumeVarint(data, i)
    <2>1. appendScalar(f.type, v) = a /\ u \in 0..(Size64 - 1) /\ fromVarint(f.type, u) = v
        BY <1>2, toVarintIs DEF appendScalar
    <2>2. d = LET r == readVarint(data, i)
              IN  IF r.err = "nil" THEN Read(fromVarint(f.type, r.v), r.i) ELSE r
        BY <1>2 DEF decodeProtoScalar
    <2>3. readVarint(data, i) = IF c.n = 0 THEN Truncated ELSE Read(c.v, i + c.n)
        BY DEF readVarint
    <2>4. Len(a) \in Nat
        BY <2>1, appendVarintIs, ProtoAssumption
    <2>5. CASE i + Len(a) =< Len(data)
        <3>1. c.v = u /\ c.n = Len(a) /\ c.n # 0
            BY <2>1, <2>5, VarintWhole, ProtoAssumption
        <3> HIDE DEF c, a, u, d
        <3> QED BY <2>1, <2>2, <2>3, <2>5, <3>1 DEF Read, Decodes, d
    <2>6. CASE ~(i + Len(a) =< Len(data))
        <3>1. c.n = 0
            BY <1>1, <2>1, <2>4, <2>6, VarintCut
        <3> HIDE DEF c, a, u, d
        <3> QED BY <2>1, <2>2, <2>3, <2>6, <3>1 DEF Truncated, Decodes, d
    <2> QED BY <2>5, <2>6
<1>3. CASE f.type = "float"
    <2>1. v \in [1..Fixed32 -> Byte] /\ appendScalar(f.type, v) = v /\ d = readFixed(data, i, Fixed32)
        BY <1>3 DEF FitsOne, appendScalar, decodeProtoScalar
    <2> QED BY <1>1, <2>1, FixedDecodes
<1>4. CASE f.type = "double"
    <2>1. v \in [1..Fixed64 -> Byte] /\ appendScalar(f.type, v) = v /\ d = readFixed(data, i, Fixed64)
        BY <1>4 DEF FitsOne, appendScalar, decodeProtoScalar
    <2> QED BY <1>1, <2>1, FixedDecodes
<1>5. CASE f.type = "bytes"
    <2>1. v \in Seq(Byte) /\ HasRoom(v) /\ appendScalar(f.type, v) = appendBytes(v)
          /\ d = readBytes(data, i)
        BY <1>5 DEF FitsOne, appendScalar, decodeProtoScalar, Short
    <2> QED BY <2>1, BytesDecode
<1> QED BY <1>1, <1>2, <1>3, <1>4, <1>5 DEF FieldType

-----------------------------------------------------------------------------
(* What the encoder and the properties define by recursion *)

\* The parts of a message down to level d, from a function u that has the level above.
WithinLevel(s, u, d) ==
    IF d = 0 THEN {s} ELSE LET all == u[d - 1] IN all \cup UNION {nested(p) : p \in all}

\* The parts that within defines by recursion.
LEMMA WithinIs ==
    ASSUME NEW s
    PROVE  /\ Depth \in Nat
           /\ \A d \in 0..Depth : within(s)[d] = WithinLevel(s, within(s), d)
<1> DEFINE P(u, n) == u = [d \in 0..n |-> WithinLevel(s, u, d)]
<1> DEFINE S == {n \in Nat : \E u : P(u, n)}
<1>1. 0 \in S
    <2>1. \A u, w : WithinLevel(s, u, 0) = WithinLevel(s, w, 0)
        BY DEF WithinLevel
    <2>2. P([d \in 0..0 |-> WithinLevel(s, <<>>, 0)], 0)
        <3> DEFINE u == [d \in 0..0 |-> WithinLevel(s, <<>>, 0)]
        <3>1. \A d \in 0..0 : WithinLevel(s, <<>>, 0) = WithinLevel(s, u, d)
            BY <2>1
        <3> QED BY <3>1
    <2> HIDE DEF P
    <2> QED BY <2>2
<1>2. ASSUME NEW n \in Nat, n \in S
      PROVE  n + 1 \in S
    <2>1. PICK u : P(u, n)
        BY <1>2
    <2> DEFINE w == [d \in 0..(n + 1) |-> IF d = n + 1 THEN WithinLevel(s, u, n + 1) ELSE u[d]]
    <2>2. ASSUME NEW d \in 0..(n + 1)
          PROVE  w[d] = WithinLevel(s, w, d)
        <3>1. d # 0 => d - 1 \in 0..(n + 1) /\ d - 1 # n + 1
            OBVIOUS
        <3>2. WithinLevel(s, w, d) = WithinLevel(s, u, d)
            BY <3>1 DEF WithinLevel
        <3>3. CASE d = n + 1
            BY <3>2, <3>3
        <3>4. CASE d # n + 1
            <4>1. d \in 0..n
                BY <3>4
            <4> HIDE DEF P
            <4>2. u[d] = WithinLevel(s, u, d)
                BY <2>1, <4>1 DEF P
            <4> QED BY <3>2, <3>4, <4>2
        <3> QED BY <3>3, <3>4
    <2>3. P(w, n + 1)
        BY <2>2
    <2> HIDE DEF P, w
    <2> QED BY <2>3
<1> HIDE DEF P, S
<1>3. Depth \in Nat /\ Nat \subseteq S
    BY <1>1, <1>2, NatSetInduction, WireAssumption
<1>4. \E u : P(u, Depth)
    BY <1>3 DEF S
<1>5. within(s) = CHOOSE u : P(u, Depth)
    BY DEF P, within, WithinLevel
<1>6. P(within(s), Depth)
    BY <1>4, <1>5, Zenon
<1> DEFINE z == within(s)
<1> HIDE DEF z
<1>7. \A d \in 0..Depth : z[d] = WithinLevel(s, z, d)
    BY <1>6, Zenon DEF P, z
<1> QED BY <1>3, <1>7 DEF z

\* The encodings of the parts that nest messages d deep.
EncodingsLevel(s, u, d) ==
    [p \in parts(s) |-> whole(pieces(IF d = 0 THEN <<>> ELSE u[d - 1], p))]

\* The encodings of the parts.
LEMMA EncodingsAre ==
    ASSUME NEW s
    PROVE  /\ Depth \in Nat
           /\ \A d \in 0..Depth : encodings(s)[d] = EncodingsLevel(s, encodings(s), d)
<1> DEFINE P(u, n) == u = [d \in 0..n |-> EncodingsLevel(s, u, d)]
<1> DEFINE S == {n \in Nat : \E u : P(u, n)}
<1>1. 0 \in S
    <2>1. \A u, w : EncodingsLevel(s, u, 0) = EncodingsLevel(s, w, 0)
        BY DEF EncodingsLevel
    <2>2. P([d \in 0..0 |-> EncodingsLevel(s, <<>>, 0)], 0)
        <3> DEFINE u == [d \in 0..0 |-> EncodingsLevel(s, <<>>, 0)]
        <3>1. \A d \in 0..0 : EncodingsLevel(s, <<>>, 0) = EncodingsLevel(s, u, d)
            BY <2>1
        <3> QED BY <3>1
    <2> HIDE DEF P
    <2> QED BY <2>2
<1>2. ASSUME NEW n \in Nat, n \in S
      PROVE  n + 1 \in S
    <2>1. PICK u : P(u, n)
        BY <1>2
    <2> DEFINE w == [d \in 0..(n + 1) |-> IF d = n + 1 THEN EncodingsLevel(s, u, n + 1) ELSE u[d]]
    <2>2. ASSUME NEW d \in 0..(n + 1)
          PROVE  w[d] = EncodingsLevel(s, w, d)
        <3>1. d # 0 => d - 1 \in 0..(n + 1) /\ d - 1 # n + 1
            OBVIOUS
        <3>2. EncodingsLevel(s, w, d) = EncodingsLevel(s, u, d)
            BY <3>1 DEF EncodingsLevel
        <3>3. CASE d = n + 1
            BY <3>2, <3>3
        <3>4. CASE d # n + 1
            <4>1. d \in 0..n
                BY <3>4
            <4> HIDE DEF P
            <4>2. u[d] = EncodingsLevel(s, u, d)
                BY <2>1, <4>1 DEF P
            <4> QED BY <3>2, <3>4, <4>2
        <3> QED BY <3>3, <3>4
    <2>3. P(w, n + 1)
        BY <2>2
    <2> HIDE DEF P, w
    <2> QED BY <2>3
<1> HIDE DEF P, S
<1>3. Depth \in Nat /\ Nat \subseteq S
    BY <1>1, <1>2, NatSetInduction, WireAssumption
<1>4. \E u : P(u, Depth)
    BY <1>3 DEF S
<1>5. encodings(s) = CHOOSE u : P(u, Depth)
    BY DEF P, encodings, EncodingsLevel
<1>6. P(encodings(s), Depth)
    BY <1>4, <1>5, Zenon
<1> DEFINE z == encodings(s)
<1> HIDE DEF z
<1>7. \A d \in 0..Depth : z[d] = EncodingsLevel(s, z, d)
    BY <1>6, Zenon DEF P, z
<1> QED BY <1>3, <1>7 DEF z

\* What a receiver has of the parts that nest messages d deep.
ReceivedLevel(s, u, d) ==
    [p \in parts(s) |-> [t \in Type |-> receivedMessage(IF d = 0 THEN <<>> ELSE u[d - 1], p, t)]]

\* What a receiver has of the parts.
LEMMA ReceivedAre ==
    ASSUME NEW s
    PROVE  /\ Depth \in Nat
           /\ \A d \in 0..Depth : receivedParts(s)[d] = ReceivedLevel(s, receivedParts(s), d)
<1> DEFINE P(u, n) == u = [d \in 0..n |-> ReceivedLevel(s, u, d)]
<1> DEFINE S == {n \in Nat : \E u : P(u, n)}
<1>1. 0 \in S
    <2>1. \A u, w : ReceivedLevel(s, u, 0) = ReceivedLevel(s, w, 0)
        BY DEF ReceivedLevel
    <2>2. P([d \in 0..0 |-> ReceivedLevel(s, <<>>, 0)], 0)
        <3> DEFINE u == [d \in 0..0 |-> ReceivedLevel(s, <<>>, 0)]
        <3>1. \A d \in 0..0 : ReceivedLevel(s, <<>>, 0) = ReceivedLevel(s, u, d)
            BY <2>1
        <3> QED BY <3>1
    <2> HIDE DEF P
    <2> QED BY <2>2
<1>2. ASSUME NEW n \in Nat, n \in S
      PROVE  n + 1 \in S
    <2>1. PICK u : P(u, n)
        BY <1>2
    <2> DEFINE w == [d \in 0..(n + 1) |-> IF d = n + 1 THEN ReceivedLevel(s, u, n + 1) ELSE u[d]]
    <2>2. ASSUME NEW d \in 0..(n + 1)
          PROVE  w[d] = ReceivedLevel(s, w, d)
        <3>1. d # 0 => d - 1 \in 0..(n + 1) /\ d - 1 # n + 1
            OBVIOUS
        <3>2. ReceivedLevel(s, w, d) = ReceivedLevel(s, u, d)
            BY <3>1 DEF ReceivedLevel
        <3>3. CASE d = n + 1
            BY <3>2, <3>3
        <3>4. CASE d # n + 1
            <4>1. d \in 0..n
                BY <3>4
            <4> HIDE DEF P
            <4>2. u[d] = ReceivedLevel(s, u, d)
                BY <2>1, <4>1 DEF P
            <4> QED BY <3>2, <3>4, <4>2
        <3> QED BY <3>3, <3>4
    <2>3. P(w, n + 1)
        BY <2>2
    <2> HIDE DEF P, w
    <2> QED BY <2>3
<1> HIDE DEF P, S
<1>3. Depth \in Nat /\ Nat \subseteq S
    BY <1>1, <1>2, NatSetInduction, WireAssumption
<1>4. \E u : P(u, Depth)
    BY <1>3 DEF S
<1>5. receivedParts(s) = CHOOSE u : P(u, Depth)
    BY DEF P, receivedParts, ReceivedLevel
<1>6. P(receivedParts(s), Depth)
    BY <1>4, <1>5, Zenon
<1> DEFINE z == receivedParts(s)
<1> HIDE DEF z
<1>7. \A d \in 0..Depth : z[d] = ReceivedLevel(s, z, d)
    BY <1>6, Zenon DEF P, z
<1> QED BY <1>3, <1>7 DEF z

\* The bytes of its first d elements.
PackedLevel(f, v, u, d) ==
    IF d = 0 THEN <<>> ELSE u[d - 1] \o appendScalar(f.type, v[d])

\* The bytes of a packed list.
LEMMA PackedBodyIs ==
    ASSUME NEW f, NEW v, IsList(v)
    PROVE  /\ Len(v) \in Nat
           /\ \A d \in 0..Len(v) : packedBody(f, v)[d] = PackedLevel(f, v, packedBody(f, v), d)
<1> DEFINE P(u, n) == u = [d \in 0..n |-> PackedLevel(f, v, u, d)]
<1> DEFINE S == {n \in Nat : \E u : P(u, n)}
<1>1. 0 \in S
    <2>1. \A u, w : PackedLevel(f, v, u, 0) = PackedLevel(f, v, w, 0)
        BY DEF PackedLevel
    <2>2. P([d \in 0..0 |-> PackedLevel(f, v, <<>>, 0)], 0)
        <3> DEFINE u == [d \in 0..0 |-> PackedLevel(f, v, <<>>, 0)]
        <3>1. \A d \in 0..0 : PackedLevel(f, v, <<>>, 0) = PackedLevel(f, v, u, d)
            BY <2>1
        <3> QED BY <3>1
    <2> HIDE DEF P
    <2> QED BY <2>2
<1>2. ASSUME NEW n \in Nat, n \in S
      PROVE  n + 1 \in S
    <2>1. PICK u : P(u, n)
        BY <1>2
    <2> DEFINE w == [d \in 0..(n + 1) |-> IF d = n + 1 THEN PackedLevel(f, v, u, n + 1) ELSE u[d]]
    <2>2. ASSUME NEW d \in 0..(n + 1)
          PROVE  w[d] = PackedLevel(f, v, w, d)
        <3>1. d # 0 => d - 1 \in 0..(n + 1) /\ d - 1 # n + 1
            OBVIOUS
        <3>2. PackedLevel(f, v, w, d) = PackedLevel(f, v, u, d)
            BY <3>1 DEF PackedLevel
        <3>3. CASE d = n + 1
            BY <3>2, <3>3
        <3>4. CASE d # n + 1
            <4>1. d \in 0..n
                BY <3>4
            <4> HIDE DEF P
            <4>2. u[d] = PackedLevel(f, v, u, d)
                BY <2>1, <4>1 DEF P
            <4> QED BY <3>2, <3>4, <4>2
        <3> QED BY <3>3, <3>4
    <2>3. P(w, n + 1)
        BY <2>2
    <2> HIDE DEF P, w
    <2> QED BY <2>3
<1> HIDE DEF P, S
<1>3. Len(v) \in Nat /\ Nat \subseteq S
    BY <1>1, <1>2, NatSetInduction, ListLen
<1>4. \E u : P(u, Len(v))
    BY <1>3 DEF S
<1>5. packedBody(f, v) = CHOOSE u : P(u, Len(v))
    BY DEF P, packedBody, PackedLevel
<1>6. P(packedBody(f, v), Len(v))
    BY <1>4, <1>5, Zenon
<1> DEFINE z == packedBody(f, v)
<1> HIDE DEF z
<1>7. \A d \in 0..Len(v) : z[d] = PackedLevel(f, v, z, d)
    BY <1>6, Zenon DEF P, z
<1> QED BY <1>3, <1>7 DEF z

\* The pieces of the first d fields of the schema.
FieldsLevel(inner, s, u, d) ==
    IF d = 0 THEN <<>>
    ELSE LET f == Fields[s.type][d]
         IN  IF f.num \in DOMAIN s.msg
             THEN u[d - 1] \o appendProtoField(inner, f, s.msg[f.num])
             ELSE u[d - 1]

\* The pieces that the encoder's loop makes.
LEMMA FieldPiecesAre ==
    ASSUME NEW inner, NEW s, s.type \in Type
    PROVE  /\ Len(Fields[s.type]) \in Nat
           /\ \A d \in 0..Len(Fields[s.type]) : fieldPieces(inner, s)[d] = FieldsLevel(inner, s, fieldPieces(inner, s), d)
<1> DEFINE P(u, n) == u = [d \in 0..n |-> FieldsLevel(inner, s, u, d)]
<1> DEFINE S == {n \in Nat : \E u : P(u, n)}
<1>1. 0 \in S
    <2>1. \A u, w : FieldsLevel(inner, s, u, 0) = FieldsLevel(inner, s, w, 0)
        BY DEF FieldsLevel
    <2>2. P([d \in 0..0 |-> FieldsLevel(inner, s, <<>>, 0)], 0)
        <3> DEFINE u == [d \in 0..0 |-> FieldsLevel(inner, s, <<>>, 0)]
        <3>1. \A d \in 0..0 : FieldsLevel(inner, s, <<>>, 0) = FieldsLevel(inner, s, u, d)
            BY <2>1
        <3> QED BY <3>1
    <2> HIDE DEF P
    <2> QED BY <2>2
<1>2. ASSUME NEW n \in Nat, n \in S
      PROVE  n + 1 \in S
    <2>1. PICK u : P(u, n)
        BY <1>2
    <2> DEFINE w == [d \in 0..(n + 1) |-> IF d = n + 1 THEN FieldsLevel(inner, s, u, n + 1) ELSE u[d]]
    <2>2. ASSUME NEW d \in 0..(n + 1)
          PROVE  w[d] = FieldsLevel(inner, s, w, d)
        <3>1. d # 0 => d - 1 \in 0..(n + 1) /\ d - 1 # n + 1
            OBVIOUS
        <3>2. FieldsLevel(inner, s, w, d) = FieldsLevel(inner, s, u, d)
            BY <3>1 DEF FieldsLevel
        <3>3. CASE d = n + 1
            BY <3>2, <3>3
        <3>4. CASE d # n + 1
            <4>1. d \in 0..n
                BY <3>4
            <4> HIDE DEF P
            <4>2. u[d] = FieldsLevel(inner, s, u, d)
                BY <2>1, <4>1 DEF P
            <4> QED BY <3>2, <3>4, <4>2
        <3> QED BY <3>3, <3>4
    <2>3. P(w, n + 1)
        BY <2>2
    <2> HIDE DEF P, w
    <2> QED BY <2>3
<1> HIDE DEF P, S
<1>3. Len(Fields[s.type]) \in Nat /\ Nat \subseteq S
    BY <1>1, <1>2, NatSetInduction, ProtoAssumption, LenProperties
<1>4. \E u : P(u, Len(Fields[s.type]))
    BY <1>3 DEF S
<1>5. fieldPieces(inner, s) = CHOOSE u : P(u, Len(Fields[s.type]))
    BY DEF P, fieldPieces, FieldsLevel
<1>6. P(fieldPieces(inner, s), Len(Fields[s.type]))
    BY <1>4, <1>5, Zenon
<1> DEFINE z == fieldPieces(inner, s)
<1> HIDE DEF z
<1>7. \A d \in 0..Len(Fields[s.type]) : z[d] = FieldsLevel(inner, s, z, d)
    BY <1>6, Zenon DEF P, z
<1> QED BY <1>3, <1>7 DEF z

\* The bytes of the first d pieces.
JoinedLevel(ps, u, d) ==
    IF d = 0 THEN <<>> ELSE u[d - 1] \o ps[d].bytes

\* The bytes of pieces.
LEMMA JoinedIs ==
    ASSUME NEW ps, IsList(ps)
    PROVE  /\ Len(ps) \in Nat
           /\ \A d \in 0..Len(ps) : joined(ps)[d] = JoinedLevel(ps, joined(ps), d)
<1> DEFINE P(u, n) == u = [d \in 0..n |-> JoinedLevel(ps, u, d)]
<1> DEFINE S == {n \in Nat : \E u : P(u, n)}
<1>1. 0 \in S
    <2>1. \A u, w : JoinedLevel(ps, u, 0) = JoinedLevel(ps, w, 0)
        BY DEF JoinedLevel
    <2>2. P([d \in 0..0 |-> JoinedLevel(ps, <<>>, 0)], 0)
        <3> DEFINE u == [d \in 0..0 |-> JoinedLevel(ps, <<>>, 0)]
        <3>1. \A d \in 0..0 : JoinedLevel(ps, <<>>, 0) = JoinedLevel(ps, u, d)
            BY <2>1
        <3> QED BY <3>1
    <2> HIDE DEF P
    <2> QED BY <2>2
<1>2. ASSUME NEW n \in Nat, n \in S
      PROVE  n + 1 \in S
    <2>1. PICK u : P(u, n)
        BY <1>2
    <2> DEFINE w == [d \in 0..(n + 1) |-> IF d = n + 1 THEN JoinedLevel(ps, u, n + 1) ELSE u[d]]
    <2>2. ASSUME NEW d \in 0..(n + 1)
          PROVE  w[d] = JoinedLevel(ps, w, d)
        <3>1. d # 0 => d - 1 \in 0..(n + 1) /\ d - 1 # n + 1
            OBVIOUS
        <3>2. JoinedLevel(ps, w, d) = JoinedLevel(ps, u, d)
            BY <3>1 DEF JoinedLevel
        <3>3. CASE d = n + 1
            BY <3>2, <3>3
        <3>4. CASE d # n + 1
            <4>1. d \in 0..n
                BY <3>4
            <4> HIDE DEF P
            <4>2. u[d] = JoinedLevel(ps, u, d)
                BY <2>1, <4>1 DEF P
            <4> QED BY <3>2, <3>4, <4>2
        <3> QED BY <3>3, <3>4
    <2>3. P(w, n + 1)
        BY <2>2
    <2> HIDE DEF P, w
    <2> QED BY <2>3
<1> HIDE DEF P, S
<1>3. Len(ps) \in Nat /\ Nat \subseteq S
    BY <1>1, <1>2, NatSetInduction, ListLen
<1>4. \E u : P(u, Len(ps))
    BY <1>3 DEF S
<1>5. joined(ps) = CHOOSE u : P(u, Len(ps))
    BY DEF P, joined, JoinedLevel
<1>6. P(joined(ps), Len(ps))
    BY <1>4, <1>5, Zenon
<1> DEFINE z == joined(ps)
<1> HIDE DEF z
<1>7. \A d \in 0..Len(ps) : z[d] = JoinedLevel(ps, z, d)
    BY <1>6, Zenon DEF P, z
<1> QED BY <1>3, <1>7 DEF z

\* Those of the first d elements.
ElementsLevel(inner, f, g, v, u, d) ==
    IF d = 0 THEN <<>>
    ELSE IF f.type = "message" /\ v[d] = NoMessage THEN u[d - 1]
    ELSE Append(u[d - 1], receivedOne(inner, f, g, v[d]))

\* The elements that a receiver has of a list.
LEMMA ElementsAre ==
    ASSUME NEW inner, NEW f, NEW g, NEW v, IsList(v)
    PROVE  /\ Len(v) \in Nat
           /\ \A d \in 0..Len(v) : receivedElements(inner, f, g, v)[d] = ElementsLevel(inner, f, g, v, receivedElements(inner, f, g, v), d)
<1> DEFINE P(u, n) == u = [d \in 0..n |-> ElementsLevel(inner, f, g, v, u, d)]
<1> DEFINE S == {n \in Nat : \E u : P(u, n)}
<1>1. 0 \in S
    <2>1. \A u, w : ElementsLevel(inner, f, g, v, u, 0) = ElementsLevel(inner, f, g, v, w, 0)
        BY DEF ElementsLevel
    <2>2. P([d \in 0..0 |-> ElementsLevel(inner, f, g, v, <<>>, 0)], 0)
        <3> DEFINE u == [d \in 0..0 |-> ElementsLevel(inner, f, g, v, <<>>, 0)]
        <3>1. \A d \in 0..0 : ElementsLevel(inner, f, g, v, <<>>, 0) = ElementsLevel(inner, f, g, v, u, d)
            BY <2>1
        <3> QED BY <3>1
    <2> HIDE DEF P
    <2> QED BY <2>2
<1>2. ASSUME NEW n \in Nat, n \in S
      PROVE  n + 1 \in S
    <2>1. PICK u : P(u, n)
        BY <1>2
    <2> DEFINE w == [d \in 0..(n + 1) |-> IF d = n + 1 THEN ElementsLevel(inner, f, g, v, u, n + 1) ELSE u[d]]
    <2>2. ASSUME NEW d \in 0..(n + 1)
          PROVE  w[d] = ElementsLevel(inner, f, g, v, w, d)
        <3>1. d # 0 => d - 1 \in 0..(n + 1) /\ d - 1 # n + 1
            OBVIOUS
        <3>2. ElementsLevel(inner, f, g, v, w, d) = ElementsLevel(inner, f, g, v, u, d)
            BY <3>1 DEF ElementsLevel
        <3>3. CASE d = n + 1
            BY <3>2, <3>3
        <3>4. CASE d # n + 1
            <4>1. d \in 0..n
                BY <3>4
            <4> HIDE DEF P
            <4>2. u[d] = ElementsLevel(inner, f, g, v, u, d)
                BY <2>1, <4>1 DEF P
            <4> QED BY <3>2, <3>4, <4>2
        <3> QED BY <3>3, <3>4
    <2>3. P(w, n + 1)
        BY <2>2
    <2> HIDE DEF P, w
    <2> QED BY <2>3
<1> HIDE DEF P, S
<1>3. Len(v) \in Nat /\ Nat \subseteq S
    BY <1>1, <1>2, NatSetInduction, ListLen
<1>4. \E u : P(u, Len(v))
    BY <1>3 DEF S
<1>5. receivedElements(inner, f, g, v) = CHOOSE u : P(u, Len(v))
    BY DEF P, receivedElements, ElementsLevel
<1>6. P(receivedElements(inner, f, g, v), Len(v))
    BY <1>4, <1>5, Zenon
<1> DEFINE z == receivedElements(inner, f, g, v)
<1> HIDE DEF z
<1>7. \A d \in 0..Len(v) : z[d] = ElementsLevel(inner, f, g, v, z, d)
    BY <1>6, Zenon DEF P, z
<1> QED BY <1>3, <1>7 DEF z

\* What the first d pieces carry.
CarriedLevel(ps, u, d) ==
    IF d = 0 THEN <<>> ELSE With(u[d - 1], ps[d].num, ps[d].v)

\* The part of a message that pieces carry.
LEMMA CarriedIs ==
    ASSUME NEW t, NEW ps, IsList(ps)
    PROVE  LET c == carried(t, ps)
           IN  /\ Len(ps) \in Nat
               /\ c[0] = Msg(t, <<>>)
               /\ \A k \in 1..Len(ps) : c[k] = Msg(t, With(c[k - 1].msg, ps[k].num, ps[k].v))
<1> DEFINE P(u, n) == u = [d \in 0..n |-> CarriedLevel(ps, u, d)]
<1> DEFINE S == {n \in Nat : \E u : P(u, n)}
<1>1. 0 \in S
    <2>1. \A u, w : CarriedLevel(ps, u, 0) = CarriedLevel(ps, w, 0)
        BY DEF CarriedLevel
    <2>2. P([d \in 0..0 |-> CarriedLevel(ps, <<>>, 0)], 0)
        <3> DEFINE u == [d \in 0..0 |-> CarriedLevel(ps, <<>>, 0)]
        <3>1. \A d \in 0..0 : CarriedLevel(ps, <<>>, 0) = CarriedLevel(ps, u, d)
            BY <2>1
        <3> QED BY <3>1
    <2> HIDE DEF P
    <2> QED BY <2>2
<1>2. ASSUME NEW n \in Nat, n \in S
      PROVE  n + 1 \in S
    <2>1. PICK u : P(u, n)
        BY <1>2
    <2> DEFINE w == [d \in 0..(n + 1) |-> IF d = n + 1 THEN CarriedLevel(ps, u, n + 1) ELSE u[d]]
    <2>2. ASSUME NEW d \in 0..(n + 1)
          PROVE  w[d] = CarriedLevel(ps, w, d)
        <3>1. d # 0 => d - 1 \in 0..(n + 1) /\ d - 1 # n + 1
            OBVIOUS
        <3>2. CarriedLevel(ps, w, d) = CarriedLevel(ps, u, d)
            BY <3>1 DEF CarriedLevel
        <3>3. CASE d = n + 1
            BY <3>2, <3>3
        <3>4. CASE d # n + 1
            <4>1. d \in 0..n
                BY <3>4
            <4> HIDE DEF P
            <4>2. u[d] = CarriedLevel(ps, u, d)
                BY <2>1, <4>1 DEF P
            <4> QED BY <3>2, <3>4, <4>2
        <3> QED BY <3>3, <3>4
    <2>3. P(w, n + 1)
        BY <2>2
    <2> HIDE DEF P, w
    <2> QED BY <2>3
<1> HIDE DEF P, S
<1>3. Len(ps) \in Nat /\ Nat \subseteq S
    BY <1>1, <1>2, NatSetInduction, ListLen
<1>4. \E u : P(u, Len(ps))
    BY <1>3 DEF S
<1> DEFINE z == CHOOSE u : P(u, Len(ps))
<1>5. P(z, Len(ps))
    BY <1>4, Zenon
<1>6. carried(t, ps) = [k \in 0..Len(ps) |-> Msg(t, z[k])]
    BY DEF carried, P, CarriedLevel
<1> HIDE DEF z
<1>7. \A d \in 0..Len(ps) : z[d] = CarriedLevel(ps, z, d)
    BY <1>5, Zenon DEF P
<1>8. \A k \in 0..Len(ps) : carried(t, ps)[k] = Msg(t, z[k]) /\ carried(t, ps)[k].msg = z[k]
    BY <1>6 DEF Msg
<1>9. carried(t, ps)[0] = Msg(t, <<>>)
    <2>1. 0 \in 0..Len(ps)
        BY <1>3
    <2> QED BY <1>7, <1>8, <2>1 DEF CarriedLevel
<1>10. ASSUME NEW k \in 1..Len(ps)
       PROVE  carried(t, ps)[k] = Msg(t, With(carried(t, ps)[k - 1].msg, ps[k].num, ps[k].v))
    <2>1. k \in 0..Len(ps) /\ k - 1 \in 0..Len(ps) /\ k # 0
        BY <1>3
    <2> QED BY <1>7, <1>8, <2>1 DEF CarriedLevel
<1> QED BY <1>3, <1>9, <1>10

-----------------------------------------------------------------------------
(* The parts of a message *)

\* How deep a schema nests others.
Nesting == CHOOSE depth \in [Type -> 0..Depth] : \A t \in Type : \A j \in DOMAIN Fields[t] :
    Fields[t][j].type = "message" => depth[Fields[t][j].schema] < depth[t]

LEMMA NestingIs ==
    /\ \A t \in Type : Nesting[t] \in Nat /\ Nesting[t] =< Depth
    /\ \A t \in Type : \A n \in Nums(t) : lookupNum(t, n).type = "message" =>
           lookupNum(t, n).schema \in Type /\ Nesting[lookupNum(t, n).schema] < Nesting[t]
<1> DEFINE IsNesting(depth) == \A t \in Type : \A j \in DOMAIN Fields[t] :
               Fields[t][j].type = "message" => depth[Fields[t][j].schema] < depth[t]
<1>1. Nesting \in [Type -> 0..Depth] /\ IsNesting(Nesting)
    <2>1. \E depth \in [Type -> 0..Depth] : IsNesting(depth)
        BY NestingAssumption
    <2>2. Nesting = CHOOSE depth \in [Type -> 0..Depth] : IsNesting(depth)
        BY DEF Nesting
    <2> HIDE DEF IsNesting
    <2> QED BY <2>1, <2>2
<1>2. ASSUME NEW t \in Type
      PROVE  Nesting[t] \in Nat /\ Nesting[t] =< Depth
    <2>1. Nesting[t] \in 0..Depth
        BY <1>1
    <2>2. Depth \in Nat
        BY WireAssumption
    <2> QED BY <2>1, <2>2
<1>3. ASSUME NEW t \in Type, NEW n \in Nums(t), lookupNum(t, n).type = "message"
      PROVE  lookupNum(t, n).schema \in Type /\ Nesting[lookupNum(t, n).schema] < Nesting[t]
    <2>1. PICK j \in DOMAIN Fields[t] : lookupNum(t, n) = Fields[t][j]
        BY DEF Nums, lookupNum
    <2> QED BY <1>1, <1>3, <2>1, LookupIs
<1> QED BY <1>2, <1>3

\* A message that another holds is of a schema that is nested in its schema.
LEMMA NestedIs ==
    ASSUME NEW p, IsMessage(p), NEW q \in nested(p)
    PROVE  /\ q.type \in Type /\ Nesting[q.type] < Nesting[p.type]
           /\ q = Msg(q.type, q.msg) /\ q.msg # NoMessage
<1>1. PICK n \in DOMAIN p.msg : \E v \in held(lookupNum(p.type, n), p.msg[n]) :
          /\ lookupNum(p.type, n).type = "message" /\ v # NoMessage
          /\ q = Msg(lookupNum(p.type, n).schema, v)
    BY DEF nested
<1>2. PICK v \in held(lookupNum(p.type, n), p.msg[n]) :
          /\ lookupNum(p.type, n).type = "message" /\ v # NoMessage
          /\ q = Msg(lookupNum(p.type, n).schema, v)
    BY <1>1
<1>3. p.type \in Type /\ n \in Nums(p.type)
    BY DEF IsMessage
<1>4. q.type = lookupNum(p.type, n).schema /\ q.msg = v
    BY <1>2 DEF Msg
<1> QED BY <1>2, <1>3, <1>4, NestingIs

\* The messages that a field holds are nested in the message.
LEMMA HeldIsNested ==
    ASSUME NEW p, NEW n \in DOMAIN p.msg, lookupNum(p.type, n).type = "message",
           NEW v \in held(lookupNum(p.type, n), p.msg[n]), v # NoMessage
    PROVE  Msg(lookupNum(p.type, n).schema, v) \in nested(p)
BY DEF nested

LEMMA WithinGrows ==
    ASSUME NEW s
    PROVE  /\ within(s)[0] = {s}
           /\ \A d \in Nat : d + 1 =< Depth =>
                  within(s)[d + 1] = within(s)[d] \cup UNION {nested(p) : p \in within(s)[d]}
           /\ \A i, j \in 0..Depth : i =< j => within(s)[i] \subseteq within(s)[j]
<1> DEFINE w == within(s)
<1>0. Depth \in Nat
    BY WireAssumption
<1>1. \A d \in 0..Depth : w[d] = WithinLevel(s, w, d)
    BY WithinIs
<1> HIDE DEF w
<1>2. w[0] = {s}
    <2>1. 0 \in 0..Depth
        BY <1>0
    <2>2. WithinLevel(s, w, 0) = {s}
        BY DEF WithinLevel
    <2> QED BY <1>1, <2>1, <2>2
<1>3. ASSUME NEW d \in Nat, d + 1 =< Depth
      PROVE  w[d + 1] = w[d] \cup UNION {nested(p) : p \in w[d]}
    <2>1. d + 1 \in 0..Depth /\ d + 1 # 0 /\ (d + 1) - 1 = d
        BY <1>0, <1>3
    <2> QED BY <1>1, <2>1 DEF WithinLevel
<1> DEFINE S == {j \in Nat : j =< Depth => \A i \in 0..j : w[i] \subseteq w[j]}
<1>4. 0 \in S
    OBVIOUS
<1>5. ASSUME NEW j \in Nat, j \in S
      PROVE  j + 1 \in S
    <2> SUFFICES ASSUME j + 1 =< Depth, NEW i \in 0..(j + 1)
                 PROVE  w[i] \subseteq w[j + 1]
        OBVIOUS
    <2>1. w[j] \subseteq w[j + 1]
        BY <1>3
    <2>2. i = j + 1 \/ i \in 0..j
        OBVIOUS
    <2>3. j =< Depth
        BY <1>0
    <2> QED BY <1>5, <2>1, <2>2, <2>3
<1> HIDE DEF S
<1>6. Nat \subseteq S
    BY <1>4, <1>5, NatSetInduction
<1>7. ASSUME NEW i \in 0..Depth, NEW j \in 0..Depth, i =< j
      PROVE  w[i] \subseteq w[j]
    BY <1>0, <1>6, <1>7 DEF S
<1> QED BY <1>2, <1>3, <1>7 DEF w

\* What has the message, and with a message those in it, has all its parts.
LEMMA PartsIn ==
    ASSUME NEW s, NEW G, s \in G, \A p \in G : nested(p) \subseteq G
    PROVE  parts(s) \subseteq G
<1> DEFINE S == {d \in Nat : d =< Depth => within(s)[d] \subseteq G}
<1>0. Depth \in Nat
    BY WireAssumption
<1>1. 0 \in S
    BY WithinGrows
<1>2. ASSUME NEW d \in Nat, d \in S
      PROVE  d + 1 \in S
    <2> SUFFICES ASSUME d + 1 =< Depth
                 PROVE  within(s)[d + 1] \subseteq G
        OBVIOUS
    <2>1. within(s)[d + 1] = within(s)[d] \cup UNION {nested(p) : p \in within(s)[d]}
        BY WithinGrows
    <2>2. d =< Depth
        BY <1>0
    <2> QED BY <1>2, <2>1, <2>2
<1> HIDE DEF S
<1>3. Depth \in S
    BY <1>0, <1>1, <1>2, NatSetInduction
<1> QED BY <1>0, <1>3 DEF S, parts

\* The parts of a message have with a message those in it.
LEMMA PartsClose ==
    ASSUME NEW s, \A p \in parts(s) : IsMessage(p)
    PROVE  /\ s \in parts(s)
           /\ \A p \in parts(s) : nested(p) \subseteq parts(s)
<1> DEFINE w == within(s)
<1> DEFINE S == {i \in Nat : i =< Depth => \A p \in w[i] : p \in w[Depth - Nesting[p.type]]}
<1>0. Depth \in Nat /\ parts(s) = w[Depth]
    BY WireAssumption DEF parts
<1>1. /\ w[0] = {s}
      /\ \A d \in Nat : d + 1 =< Depth => w[d + 1] = w[d] \cup UNION {nested(p) : p \in w[d]}
      /\ \A i, j \in 0..Depth : i =< j => w[i] \subseteq w[j]
    BY WithinGrows
<1>2. \A i \in 0..Depth : \A p \in w[i] :
          /\ IsMessage(p) /\ p.type \in Type
          /\ Depth - Nesting[p.type] \in 0..Depth
    <2> TAKE i \in 0..Depth
    <2> TAKE p \in w[i]
    <2>1. p \in w[Depth]
        BY <1>0, <1>1
    <2>2. IsMessage(p) /\ p.type \in Type
        BY <1>0, <2>1 DEF IsMessage
    <2>3. Nesting[p.type] \in Nat /\ Nesting[p.type] =< Depth
        BY <2>2, NestingIs
    <2> QED BY <1>0, <2>2, <2>3
<1>3. ASSUME NEW i \in 0..Depth, NEW p \in w[i], p \in w[Depth - Nesting[p.type]], NEW q \in nested(p)
      PROVE  q \in w[Depth] /\ q \in w[Depth - Nesting[q.type]]
    <2>1. IsMessage(p) /\ p.type \in Type /\ Depth - Nesting[p.type] \in 0..Depth
        BY <1>2
    <2>2. q.type \in Type /\ Nesting[q.type] < Nesting[p.type]
        BY <2>1, NestedIs
    <2>3. Nesting[q.type] \in Nat /\ Nesting[p.type] \in Nat
        BY <2>1, <2>2, NestingIs
    <2> DEFINE d == Depth - Nesting[p.type]
    <2>4. d \in Nat /\ d + 1 =< Depth /\ d + 1 \in 0..Depth /\ Depth - Nesting[q.type] \in 0..Depth
          /\ d + 1 =< Depth - Nesting[q.type]
        BY <1>0, <2>1, <2>2, <2>3
    <2>5. q \in w[d + 1]
        <3> HIDE DEF w
        <3>1. p \in w[d]
            BY <1>3
        <3> HIDE DEF d
        <3>2. w[d + 1] = w[d] \cup UNION {nested(x) : x \in w[d]}
            BY <1>1, <2>4
        <3> QED BY <3>1, <3>2
    <2> HIDE DEF w, d
    <2> QED BY <1>0, <1>1, <2>4, <2>5
<1> HIDE DEF w
<1>4. 0 \in S
    <2>1. \A p \in w[0] : p \in w[Depth - Nesting[p.type]]
        BY <1>0, <1>1, <1>2
    <2> QED BY <2>1
<1>5. ASSUME NEW i \in Nat, i \in S
      PROVE  i + 1 \in S
    <2> SUFFICES ASSUME i + 1 =< Depth, NEW q \in w[i + 1]
                 PROVE  q \in w[Depth - Nesting[q.type]]
        OBVIOUS
    <2>1. i \in 0..Depth /\ i =< Depth
        BY <1>0
    <2>2. q \in w[i] \/ \E p \in w[i] : q \in nested(p)
        BY <1>1
    <2> QED BY <1>3, <1>5, <2>1, <2>2
<1> HIDE DEF S
<1>6. \A p \in w[Depth] : p \in w[Depth - Nesting[p.type]]
    <2>1. Depth \in S
        BY <1>0, <1>4, <1>5, NatSetInduction
    <2> QED BY <1>0, <2>1 DEF S
<1>7. s \in w[Depth]
    BY <1>0, <1>1
<1> QED BY <1>0, <1>3, <1>6, <1>7


\* A part is a message, of a type that nests no more than schemas do.
LEMMA PartIs ==
    ASSUME NEW s, \A p \in parts(s) : IsMessage(p), NEW p \in parts(s)
    PROVE  /\ IsMessage(p) /\ p.type \in Type /\ Nesting[p.type] \in 0..Depth
           /\ nested(p) \subseteq parts(s)
           /\ \A q \in nested(p) : q \in parts(s) /\ Nesting[q.type] < Nesting[p.type] /\ Nesting[q.type] \in Nat
<1>1. IsMessage(p) /\ p.type \in Type /\ nested(p) \subseteq parts(s)
    BY PartsClose DEF IsMessage
<1>2. Nesting[p.type] \in 0..Depth
    BY <1>1, NestingIs, WireAssumption
<1> QED BY <1>1, <1>2, NestedIs, NestingIs

-----------------------------------------------------------------------------
(* Lists *)

LEMMA ConcatLists ==
    ASSUME NEW a, IsList(a), NEW b, IsList(b)
    PROVE  LET z == a \o b
           IN  /\ IsList(z) /\ Len(z) = Len(a) + Len(b) /\ DOMAIN z = 1..(Len(a) + Len(b))
               /\ \A k \in 1..Len(a) : z[k] = a[k]
               /\ \A k \in 1..Len(b) : z[Len(a) + k] = b[k]
<1> DEFINE S == {a[j] : j \in DOMAIN a} \cup {b[j] : j \in DOMAIN b}
           z == a \o b
<1>1. a \in Seq(S) /\ b \in Seq(S)
    <2>1. a \in Seq({a[j] : j \in DOMAIN a}) /\ b \in Seq({b[j] : j \in DOMAIN b})
        BY DEF IsList
    <2> QED BY <2>1, SeqMonotonic
<1>2. Len(a) \in Nat /\ Len(b) \in Nat
    BY ListLen
<1> HIDE DEF S
<1>3. /\ z \in Seq(S) /\ Len(z) = Len(a) + Len(b)
      /\ \A j \in 1..(Len(a) + Len(b)) : z[j] = IF j =< Len(a) THEN a[j] ELSE b[j - Len(a)]
    BY <1>1, ConcatProperties
<1> HIDE DEF z
<1>4. IsList(z)
    BY <1>3, ListIs
<1>5. DOMAIN z = 1..(Len(a) + Len(b))
    BY <1>3, LenProperties
<1>6. ASSUME NEW k \in 1..Len(b)
      PROVE  z[Len(a) + k] = b[k]
    <2>1. Len(a) + k \in 1..(Len(a) + Len(b)) /\ ~(Len(a) + k =< Len(a)) /\ (Len(a) + k) - Len(a) = k
        BY <1>2
    <2> QED BY <1>3, <2>1
<1> QED BY <1>2, <1>3, <1>4, <1>5, <1>6 DEF z

LEMMA NoElements == IsList(<<>>) /\ Len(<<>>) = 0 /\ DOMAIN <<>> = {}
<1>1. <<>> \in Seq({}) /\ Len(<<>>) = 0
    OBVIOUS
<1>2. DOMAIN <<>> = 1..0
    BY <1>1, LenProperties
<1>3. IsList(<<>>)
    BY <1>1, ListIs
<1>4. 1..0 = {}
    OBVIOUS
<1> QED BY <1>1, <1>2, <1>3, <1>4

LEMMA OneElement == \A x : IsList(<<x>>) /\ Len(<<x>>) = 1 /\ DOMAIN <<x>> = {1} /\ <<x>>[1] = x
<1> TAKE x
<1>1. <<x>> \in Seq({x}) /\ Len(<<x>>) = 1 /\ <<x>>[1] = x
    OBVIOUS
<1>2. IsList(<<x>>)
    BY <1>1, ListIs
<1>3. DOMAIN <<x>> = 1..1
    BY <1>1, LenProperties
<1> QED BY <1>1, <1>2, <1>3

LEMMA FunctionList ==
    ASSUME NEW n \in Nat, NEW z, z = [j \in 1..n |-> z[j]]
    PROVE  IsList(z) /\ Len(z) = n /\ DOMAIN z = 1..n
<1> DEFINE S == {z[j] : j \in 1..n}
<1>1. z \in [1..n -> S] /\ DOMAIN z = 1..n
    OBVIOUS
<1>2. z \in Seq(S)
    BY <1>1, SeqDef
<1> HIDE DEF S
<1>3. Len(z) = n
    BY <1>1, <1>2, LenProperties
<1> QED BY <1>1, <1>2, <1>3, ListIs

LEMMA ListEqual ==
    ASSUME NEW a, IsList(a), NEW b, IsList(b), Len(a) = Len(b),
           \A k \in 1..Len(a) : a[k] = b[k]
    PROVE  a = b
<1> DEFINE S == {a[j] : j \in DOMAIN a} \cup {b[j] : j \in DOMAIN b}
<1>1. a \in Seq(S) /\ b \in Seq(S)
    <2>1. a \in Seq({a[j] : j \in DOMAIN a}) /\ b \in Seq({b[j] : j \in DOMAIN b})
        BY DEF IsList
    <2> QED BY <2>1, SeqMonotonic
<1> HIDE DEF S
<1> QED BY <1>1, SeqEqual

-----------------------------------------------------------------------------
(* Encodings that agree on nested messages *)

\* The field at a place of the schema is the one with its number.
LEMMA LookupAt ==
    ASSUME NEW t \in Type, NEW d \in 1..Len(Fields[t])
    PROVE  LET f == Fields[t][d]
           IN  /\ f \in FieldSchema /\ f.num \in Nums(t) /\ lookupNum(t, f.num) = f
               /\ d \in DOMAIN Fields[t]
<1>1. Fields[t] \in Seq(FieldSchema) /\ DOMAIN Fields[t] = 1..Len(Fields[t])
    BY ProtoAssumption, LenProperties
<1>2. Fields[t][d] \in FieldSchema
    BY <1>1, ElementOfSeq
<1> DEFINE f == Fields[t][d]
           P(j) == Fields[t][j].num = f.num
<1>3. d \in DOMAIN Fields[t] /\ P(d)
    BY <1>1
<1> DEFINE k == CHOOSE j \in DOMAIN Fields[t] : P(j)
<1>4. k \in DOMAIN Fields[t] /\ P(k)
    <2> HIDE DEF P
    <2> QED BY <1>3
<1> HIDE DEF k
<1>5. k = d
    BY <1>3, <1>4, ProtoAssumption
<1>6. lookupNum(t, f.num) = Fields[t][k]
    BY DEF lookupNum, k
<1> QED BY <1>2, <1>3, <1>5, <1>6 DEF Nums

\* The value of a field of a message.
LEMMA ValueIs ==
    ASSUME NEW p, IsMessage(p), NEW n \in DOMAIN p.msg
    PROVE  LET f == lookupNum(p.type, n)
               v == p.msg[n]
           IN  /\ p.type \in Type /\ n \in Nums(p.type) /\ f \in FieldSchema /\ f.num = n /\ Holds(f, v)
               /\ f.type = "message" => f.schema \in Type
               /\ f.repeated => IsList(v) /\ Len(v) \in Nat /\ DOMAIN v = 1..Len(v)
<1>1. p.type \in Type /\ n \in Nums(p.type) /\ Holds(lookupNum(p.type, n), p.msg[n])
    BY DEF IsMessage
<1>2. lookupNum(p.type, n).repeated => IsList(p.msg[n])
    BY <1>1 DEF Holds
<1> QED BY <1>1, <1>2, LookupIs, ListLen

LEMMA FieldAgrees ==
    ASSUME NEW p, IsMessage(p), NEW a, NEW b, \A q \in nested(p) : a[q] = b[q], NEW n \in DOMAIN p.msg
    PROVE  appendProtoField(a, lookupNum(p.type, n), p.msg[n])
               = appendProtoField(b, lookupNum(p.type, n), p.msg[n])
<1> DEFINE f == lookupNum(p.type, n)
           v == p.msg[n]
<1>1. ASSUME NEW x, f.repeated => \E j \in DOMAIN v : x = v[j], ~f.repeated => x = v
      PROVE  appendProtoSingle(a, f, x) = appendProtoSingle(b, f, x)
    <2>1. CASE f.type = "message" /\ x # NoMessage
        <3>1. x \in held(f, v)
            BY <1>1 DEF held
        <3>2. Msg(f.schema, x) \in nested(p)
            BY <2>1, <3>1, HeldIsNested
        <3>3. a[Msg(f.schema, x)] = b[Msg(f.schema, x)]
            BY <3>2
        <3> QED BY <3>3 DEF appendProtoSingle
    <2>2. CASE ~(f.type = "message" /\ x # NoMessage)
        BY <2>2 DEF appendProtoSingle
    <2> QED BY <2>1, <2>2
<1> HIDE DEF f, v
<1>2. CASE ~f.repeated
    <2>1. appendProtoSingle(a, f, v) = appendProtoSingle(b, f, v)
        BY <1>1, <1>2
    <2> QED BY <1>2, <2>1 DEF appendProtoField, f, v
<1>3. CASE f.repeated /\ Packable(f)
    BY <1>3 DEF appendProtoField, f, v
<1>4. CASE f.repeated /\ ~Packable(f)
    <2>1. \A j \in DOMAIN v : appendProtoSingle(a, f, v[j]) = appendProtoSingle(b, f, v[j])
        BY <1>1, <1>4
    <2>2. \A c : appendProtoField(c, f, v)
                     = [j \in DOMAIN v |-> Piece(f, SubSeq(v, 1, j), appendProtoSingle(c, f, v[j]))]
        BY <1>4 DEF appendProtoField
    <2>3. [j \in DOMAIN v |-> Piece(f, SubSeq(v, 1, j), appendProtoSingle(a, f, v[j]))]
              = [j \in DOMAIN v |-> Piece(f, SubSeq(v, 1, j), appendProtoSingle(b, f, v[j]))]
        BY <2>1
    <2> QED BY <2>2, <2>3 DEF f, v
<1> QED BY <1>2, <1>3, <1>4

LEMMA PiecesAgree ==
    ASSUME NEW p, IsMessage(p), NEW a, NEW b, \A q \in nested(p) : a[q] = b[q]
    PROVE  pieces(a, p) = pieces(b, p)
<1> DEFINE L == Len(Fields[p.type])
           S == {d \in Nat : d =< L => fieldPieces(a, p)[d] = fieldPieces(b, p)[d]}
<1>1. p.type \in Type
    BY DEF IsMessage
<1>2. /\ L \in Nat
      /\ \A d \in 0..L : fieldPieces(a, p)[d] = FieldsLevel(a, p, fieldPieces(a, p), d)
      /\ \A d \in 0..L : fieldPieces(b, p)[d] = FieldsLevel(b, p, fieldPieces(b, p), d)
    BY <1>1, FieldPiecesAre
<1> HIDE DEF L
<1>3. 0 \in S
    BY <1>2 DEF FieldsLevel
<1>4. ASSUME NEW d \in Nat, d \in S
      PROVE  d + 1 \in S
    <2> SUFFICES ASSUME d + 1 =< L
                 PROVE  fieldPieces(a, p)[d + 1] = fieldPieces(b, p)[d + 1]
        OBVIOUS
    <2> DEFINE f == Fields[p.type][d + 1]
    <2>1. d + 1 \in 0..L /\ d + 1 \in 1..L /\ d + 1 # 0 /\ (d + 1) - 1 = d /\ d =< L
        BY <1>2
    <2>2. lookupNum(p.type, f.num) = f
        BY <1>1, <2>1, LookupAt DEF L
    <2>3. fieldPieces(a, p)[d] = fieldPieces(b, p)[d]
        BY <1>4, <2>1
    <2>4. f.num \in DOMAIN p.msg => appendProtoField(a, f, p.msg[f.num]) = appendProtoField(b, f, p.msg[f.num])
        BY <2>2, FieldAgrees
    <2> HIDE DEF f
    <2>5. \A c, u : FieldsLevel(c, p, u, d + 1)
                        = IF f.num \in DOMAIN p.msg THEN u[d] \o appendProtoField(c, f, p.msg[f.num]) ELSE u[d]
        BY <2>1 DEF FieldsLevel, f
    <2> QED BY <1>2, <2>1, <2>3, <2>4, <2>5
<1> HIDE DEF S
<1>5. L \in S
    BY <1>2, <1>3, <1>4, NatSetInduction
<1> QED BY <1>2, <1>5 DEF S, L, pieces

\* The encoding of a part, from the encodings of the parts.
LEMMA EncodingsFix ==
    ASSUME NEW s, \A p \in parts(s) : IsMessage(p), NEW p \in parts(s)
    PROVE  encodings(s)[Depth][p] = whole(pieces(encodings(s)[Depth], p))
<1> DEFINE e == encodings(s)
           W(x) == whole(pieces(e[Depth], x))
           S == {d \in Nat : d =< Depth + 1 => \A x \in parts(s) : Nesting[x.type] < d =>
                                    \A k \in 0..Depth : d =< k + 1 => e[k][x] = W(x)}
<1>1. Depth \in Nat /\ \A d \in 0..Depth : e[d] = EncodingsLevel(s, e, d)
    BY EncodingsAre
<1> HIDE DEF e
<1>2. \A d \in 0..Depth : \A x \in parts(s) :
          e[d][x] = whole(pieces(IF d = 0 THEN <<>> ELSE e[d - 1], x))
    BY <1>1 DEF EncodingsLevel
<1> HIDE DEF W
<1>3. 0 \in S
    BY PartIs
<1>4. ASSUME NEW d \in Nat, d \in S
      PROVE  d + 1 \in S
    <2> SUFFICES ASSUME d + 1 =< Depth + 1, NEW x \in parts(s), Nesting[x.type] < d + 1,
                        NEW k \in 0..Depth, d + 1 =< k + 1
                 PROVE  e[k][x] = W(x)
        OBVIOUS
    <2> DEFINE c == IF k = 0 THEN <<>> ELSE e[k - 1]
    <2>1. e[k][x] = whole(pieces(c, x))
        BY <1>2
    <2>2. \A q \in nested(x) : c[q] = e[Depth][q]
        <3> SUFFICES ASSUME NEW q \in nested(x) PROVE c[q] = e[Depth][q]
            OBVIOUS
        <3>1. q \in parts(s) /\ Nesting[q.type] < Nesting[x.type] /\ Nesting[q.type] \in Nat
              /\ Nesting[x.type] \in Nat
            BY PartIs
        <3>2. Nesting[q.type] < d /\ k # 0 /\ k - 1 \in 0..Depth /\ Depth \in 0..Depth
              /\ d =< (k - 1) + 1 /\ d =< Depth + 1
            BY <1>1, <3>1
        <3>3. e[k - 1][q] = W(q) /\ e[Depth][q] = W(q)
            BY <1>4, <3>1, <3>2
        <3> QED BY <3>2, <3>3
    <2>3. IsMessage(x)
        OBVIOUS
    <2> HIDE DEF c
    <2>4. pieces(c, x) = pieces(e[Depth], x)
        BY <2>2, <2>3, PiecesAgree
    <2> QED BY <2>1, <2>4 DEF W
<1> HIDE DEF S
<1>5. Depth + 1 \in S
    BY <1>1, <1>3, <1>4, NatSetInduction
<1>6. Nesting[p.type] \in 0..Depth
    BY PartIs
<1>7. e[Depth][p] = W(p)
    BY <1>1, <1>5, <1>6 DEF S
<1> QED BY <1>7 DEF W, e

-----------------------------------------------------------------------------
(* What a receiver has *)

LEMMA OneAgrees ==
    ASSUME NEW p, IsMessage(p), NEW a, NEW b, \A q \in nested(p) : a[q] = b[q], NEW n \in DOMAIN p.msg, NEW g
    PROVE  receivedField(a, lookupNum(p.type, n), g, p.msg[n])
               = receivedField(b, lookupNum(p.type, n), g, p.msg[n])
<1> DEFINE f == lookupNum(p.type, n)
           v == p.msg[n]
<1>1. ASSUME NEW x, f.repeated => \E j \in DOMAIN v : x = v[j], ~f.repeated => x = v,
             f.type = "message" => x # NoMessage
      PROVE  receivedOne(a, f, g, x) = receivedOne(b, f, g, x)
    <2>1. CASE f.type = "message"
        <3>1. x \in held(f, v)
            BY <1>1 DEF held
        <3>2. Msg(f.schema, x) \in nested(p)
            BY <1>1, <2>1, <3>1, HeldIsNested
        <3>3. a[Msg(f.schema, x)] = b[Msg(f.schema, x)]
            BY <3>2
        <3> QED BY <2>1, <3>3 DEF receivedOne
    <2>2. CASE f.type # "message"
        BY <2>2 DEF receivedOne
    <2> QED BY <2>1, <2>2
<1>2. Holds(f, v) /\ (f.repeated => IsList(v) /\ Len(v) \in Nat /\ DOMAIN v = 1..Len(v))
    BY ValueIs
<1> HIDE DEF f, v
<1>3. CASE ~f.repeated
    <2>1. f.type = "message" => v # NoMessage
        BY <1>2, <1>3 DEF Holds, HoldsOne
    <2>2. receivedOne(a, f, g, v) = receivedOne(b, f, g, v)
        BY <1>1, <1>3, <2>1
    <2> QED BY <1>3, <2>2 DEF receivedField, f, v
<1>4. CASE f.repeated
    <2> DEFINE A == receivedElements(a, f, g, v)
               B == receivedElements(b, f, g, v)
               S == {d \in Nat : d =< Len(v) => A[d] = B[d]}
    <2>1. /\ Len(v) \in Nat
          /\ \A d \in 0..Len(v) : A[d] = ElementsLevel(a, f, g, v, A, d)
          /\ \A d \in 0..Len(v) : B[d] = ElementsLevel(b, f, g, v, B, d)
        BY <1>2, <1>4, ElementsAre
    <2> HIDE DEF A, B
    <2>2. 0 \in S
        BY <2>1 DEF ElementsLevel
    <2>3. ASSUME NEW d \in Nat, d \in S
          PROVE  d + 1 \in S
        <3> SUFFICES ASSUME d + 1 =< Len(v)
                     PROVE  A[d + 1] = B[d + 1]
            OBVIOUS
        <3>1. d + 1 \in 0..Len(v) /\ d + 1 \in DOMAIN v /\ d + 1 # 0 /\ (d + 1) - 1 = d /\ d =< Len(v)
            BY <1>2, <1>4, <2>1
        <3>2. A[d] = B[d]
            BY <2>3, <3>1
        <3>3. ~(f.type = "message" /\ v[d + 1] = NoMessage)
                  => receivedOne(a, f, g, v[d + 1]) = receivedOne(b, f, g, v[d + 1])
            BY <1>1, <1>4, <3>1
        <3>4. \A c, u : ElementsLevel(c, f, g, v, u, d + 1)
                            = IF f.type = "message" /\ v[d + 1] = NoMessage THEN u[d]
                              ELSE Append(u[d], receivedOne(c, f, g, v[d + 1]))
            BY <3>1 DEF ElementsLevel
        <3> QED BY <2>1, <3>1, <3>2, <3>3, <3>4
    <2> HIDE DEF S
    <2>4. Len(v) \in S
        BY <2>1, <2>2, <2>3, NatSetInduction
    <2>5. A[Len(v)] = B[Len(v)]
        BY <2>1, <2>4 DEF S
    <2> QED BY <1>4, <2>5 DEF receivedField, A, B, f, v
<1> QED BY <1>3, <1>4

LEMMA ReceivedAgrees ==
    ASSUME NEW p, IsMessage(p), NEW a, NEW b, \A q \in nested(p) : a[q] = b[q], NEW t
    PROVE  receivedMessage(a, p, t) = receivedMessage(b, p, t)
<1> DEFINE A(n) == receivedField(a, lookupNum(p.type, n), lookupNum(t, n), p.msg[n])
           B(n) == receivedField(b, lookupNum(p.type, n), lookupNum(t, n), p.msg[n])
           D == DOMAIN p.msg \cap Nums(t)
<1>1. \A n \in D : A(n) = B(n)
    BY OneAgrees
<1>2. receivedMessage(a, p, t) = [n \in {n \in D : ~lookupNum(p.type, n).repeated \/ A(n) # <<>>} |-> A(n)]
    BY DEF receivedMessage
<1>3. receivedMessage(b, p, t) = [n \in {n \in D : ~lookupNum(p.type, n).repeated \/ B(n) # <<>>} |-> B(n)]
    BY DEF receivedMessage
<1> HIDE DEF A, B, D
<1>4. {n \in D : ~lookupNum(p.type, n).repeated \/ A(n) # <<>>} = {n \in D : ~lookupNum(p.type, n).repeated \/ B(n) # <<>>}
    BY <1>1
<1> QED BY <1>1, <1>2, <1>3, <1>4

\* What a receiver has of a part, from what it has of the parts.
LEMMA ReceivedFix ==
    ASSUME NEW s, \A p \in parts(s) : IsMessage(p), NEW p \in parts(s), NEW t \in Type
    PROVE  receivedParts(s)[Depth][p][t] = receivedMessage(receivedParts(s)[Depth], p, t)
<1> DEFINE e == receivedParts(s)
           W(x) == [u \in Type |-> receivedMessage(e[Depth], x, u)]
           S == {d \in Nat : d =< Depth + 1 => \A x \in parts(s) : Nesting[x.type] < d =>
                                    \A k \in 0..Depth : d =< k + 1 => e[k][x] = W(x)}
<1>1. Depth \in Nat /\ \A d \in 0..Depth : e[d] = ReceivedLevel(s, e, d)
    BY ReceivedAre
<1> HIDE DEF e
<1>2. \A d \in 0..Depth : \A x \in parts(s) :
          e[d][x] = [u \in Type |-> receivedMessage(IF d = 0 THEN <<>> ELSE e[d - 1], x, u)]
    BY <1>1 DEF ReceivedLevel
<1> HIDE DEF W
<1>3. 0 \in S
    BY PartIs
<1>4. ASSUME NEW d \in Nat, d \in S
      PROVE  d + 1 \in S
    <2> SUFFICES ASSUME d + 1 =< Depth + 1, NEW x \in parts(s), Nesting[x.type] < d + 1,
                        NEW k \in 0..Depth, d + 1 =< k + 1
                 PROVE  e[k][x] = W(x)
        OBVIOUS
    <2> DEFINE c == IF k = 0 THEN <<>> ELSE e[k - 1]
    <2>1. e[k][x] = [u \in Type |-> receivedMessage(c, x, u)]
        BY <1>2
    <2>2. \A q \in nested(x) : c[q] = e[Depth][q]
        <3> SUFFICES ASSUME NEW q \in nested(x) PROVE c[q] = e[Depth][q]
            OBVIOUS
        <3>1. q \in parts(s) /\ Nesting[q.type] < Nesting[x.type] /\ Nesting[q.type] \in Nat
              /\ Nesting[x.type] \in Nat
            BY PartIs
        <3>2. Nesting[q.type] < d /\ k # 0 /\ k - 1 \in 0..Depth /\ Depth \in 0..Depth
              /\ d =< (k - 1) + 1 /\ d =< Depth + 1
            BY <1>1, <3>1
        <3>3. e[k - 1][q] = W(q) /\ e[Depth][q] = W(q)
            BY <1>4, <3>1, <3>2
        <3> QED BY <3>2, <3>3
    <2>3. IsMessage(x)
        OBVIOUS
    <2> HIDE DEF c
    <2>4. \A u \in Type : receivedMessage(c, x, u) = receivedMessage(e[Depth], x, u)
        BY <2>2, <2>3, ReceivedAgrees
    <2> QED BY <2>1, <2>4 DEF W
<1> HIDE DEF S
<1>5. Depth + 1 \in S
    BY <1>1, <1>3, <1>4, NatSetInduction
<1>6. Nesting[p.type] \in 0..Depth
    BY PartIs
<1>7. e[Depth][p] = W(p)
    BY <1>1, <1>5, <1>6 DEF S
<1> QED BY <1>7 DEF W, e

-----------------------------------------------------------------------------
(* The pieces of a message *)

\* The piece x of p, when m is what the pieces before it carry.
PieceOf(inner, p, m, x) ==
    LET f == lookupNum(p.type, x.num)
        v == p.msg[x.num]
    IN  /\ x.num \in DOMAIN p.msg
        /\ IF ~f.repeated
           THEN x = Piece(f, v, appendProtoSingle(inner, f, v)) /\ x.num \notin DOMAIN m
           ELSE IF Packable(f)
           THEN x = Piece(f, v, appendPacked(f, v)) /\ x.num \notin DOMAIN m
           ELSE \E e \in 1..Len(v) :
                    /\ x = Piece(f, SubSeq(v, 1, e), appendProtoSingle(inner, f, v[e]))
                    /\ IF e = 1 THEN x.num \notin DOMAIN m
                       ELSE x.num \in DOMAIN m /\ m[x.num] = SubSeq(v, 1, e - 1)

\* A field that no piece carries is an empty list.
NotCarried(p, n) == LET f == lookupNum(p.type, n)
                    IN  f.repeated /\ ~Packable(f) /\ p.msg[n] = <<>>

LEMMA PieceIs ==
    ASSUME NEW f, NEW v, NEW b
    PROVE  LET x == Piece(f, v, b) IN x.num = f.num /\ x.v = v /\ x.bytes = b
BY DEF Piece

\* The list a of the pieces that a field adds.
Added(inner, f, v, a) ==
    /\ IsList(a) /\ Len(a) \in Nat
    /\ ~f.repeated => Len(a) = 1 /\ a[1] = Piece(f, v, appendProtoSingle(inner, f, v))
    /\ Packable(f) => Len(a) = 1 /\ a[1] = Piece(f, v, appendPacked(f, v))
    /\ f.repeated /\ ~Packable(f) => /\ Len(a) = Len(v)
           /\ \A e \in 1..Len(v) : a[e] = Piece(f, SubSeq(v, 1, e), appendProtoSingle(inner, f, v[e]))

LEMMA AddedIs ==
    ASSUME NEW inner, NEW p, IsMessage(p), NEW n \in DOMAIN p.msg
    PROVE  LET f == lookupNum(p.type, n)
           IN  Added(inner, f, p.msg[n], appendProtoField(inner, f, p.msg[n]))
<1> DEFINE f == lookupNum(p.type, n)
           v == p.msg[n]
           a == appendProtoField(inner, f, v)
<1>1. f.repeated => IsList(v) /\ Len(v) \in Nat /\ DOMAIN v = 1..Len(v)
    BY ValueIs
<1> HIDE DEF f, v
<1>2. CASE ~f.repeated
    <2> DEFINE x == Piece(f, v, appendProtoSingle(inner, f, v))
    <2>1. a = <<x>> /\ ~Packable(f)
        BY <1>2 DEF appendProtoField, Packable
    <2> HIDE DEF x, a
    <2>2. IsList(a) /\ Len(a) = 1 /\ a[1] = x
        BY <2>1, OneElement
    <2> QED BY <1>2, <2>1, <2>2 DEF x, a, f, v, Added
<1>3. CASE Packable(f)
    <2> DEFINE x == Piece(f, v, appendPacked(f, v))
    <2>1. a = <<x>> /\ f.repeated
        BY <1>3 DEF appendProtoField, Packable
    <2> HIDE DEF x, a
    <2>2. IsList(a) /\ Len(a) = 1 /\ a[1] = x
        BY <2>1, OneElement
    <2> QED BY <1>3, <2>1, <2>2 DEF x, a, f, v, Added
<1>4. CASE f.repeated /\ ~Packable(f)
    <2> DEFINE X(e) == Piece(f, SubSeq(v, 1, e), appendProtoSingle(inner, f, v[e]))
    <2>1. a = [e \in DOMAIN v |-> X(e)]
        BY <1>4 DEF appendProtoField
    <2> HIDE DEF X, a
    <2>2. a = [e \in 1..Len(v) |-> a[e]] /\ \A e \in 1..Len(v) : a[e] = X(e)
        BY <1>1, <1>4, <2>1
    <2>3. IsList(a) /\ Len(a) = Len(v)
        BY <1>1, <1>4, <2>2, FunctionList
    <2> QED BY <1>1, <1>4, <2>2, <2>3 DEF X, a, f, v, Added
<1> QED BY <1>2, <1>3, <1>4

\* Each of the lists u is a beginning of the next.
Growing(u, L) ==
    /\ L \in Nat
    /\ \A d \in 0..L : IsList(u[d]) /\ Len(u[d]) \in Nat
    /\ \A c, d \in 0..L : c =< d => /\ Len(u[c]) =< Len(u[d])
                                    /\ \A k \in 1..Len(u[c]) : u[d][k] = u[c][k]

LEMMA FieldPiecesGrow ==
    ASSUME NEW inner, NEW p, IsMessage(p)
    PROVE  Growing(fieldPieces(inner, p), Len(Fields[p.type]))
<1> DEFINE L == Len(Fields[p.type])
           u == fieldPieces(inner, p)
           Grown(c, d) == Len(u[c]) =< Len(u[d]) /\ \A k \in 1..Len(u[c]) : u[d][k] = u[c][k]
           Lists(d) == IsList(u[d]) /\ Len(u[d]) \in Nat
           S == {d \in Nat : d =< L => Lists(d)}
           T == {d \in Nat : d =< L => \A c \in 0..d : Grown(c, d)}
<1>1. p.type \in Type
    BY DEF IsMessage
<1>2. L \in Nat /\ \A d \in 0..L : u[d] = FieldsLevel(inner, p, u, d)
    BY <1>1, FieldPiecesAre
<1>3. \A d \in 1..L : lookupNum(p.type, Fields[p.type][d].num) = Fields[p.type][d]
    BY <1>1, LookupAt
<1> HIDE DEF u, L
<1>4. 0 \in S
    <2>1. u[0] = <<>>
        BY <1>2 DEF FieldsLevel
    <2> QED BY <2>1, NoElements
<1>5. ASSUME NEW d \in Nat, d + 1 =< L, Lists(d)
      PROVE  Lists(d + 1) /\ Grown(d, d + 1)
    <2> DEFINE f == Fields[p.type][d + 1]
    <2>1. d + 1 \in 0..L /\ d + 1 \in 1..L /\ d + 1 # 0 /\ (d + 1) - 1 = d /\ d =< L
        BY <1>2, <1>5
    <2>2. lookupNum(p.type, f.num) = f
        BY <1>3, <2>1
    <2> DEFINE a == appendProtoField(inner, f, p.msg[f.num])
    <2>4. u[d + 1] = IF f.num \in DOMAIN p.msg THEN u[d] \o a ELSE u[d]
        BY <1>2, <2>1 DEF FieldsLevel
    <2>5. f.num \in DOMAIN p.msg => IsList(a) /\ Len(a) \in Nat
        <3> DEFINE n == f.num
        <3>1. ASSUME n \in DOMAIN p.msg
              PROVE  LET b == appendProtoField(inner, lookupNum(p.type, n), p.msg[n])
                     IN  IsList(b) /\ Len(b) \in Nat
            BY <3>1, AddedIs DEF Added
        <3> QED BY <2>2, <3>1
    <2> HIDE DEF a, f
    <2>6. CASE f.num \in DOMAIN p.msg
        <3>1. /\ IsList(u[d] \o a) /\ Len(u[d] \o a) = Len(u[d]) + Len(a)
              /\ \A k \in 1..Len(u[d]) : (u[d] \o a)[k] = u[d][k]
            BY <1>5, <2>5, <2>6, ConcatLists
        <3> QED BY <1>5, <2>4, <2>5, <2>6, <3>1
    <2>7. CASE f.num \notin DOMAIN p.msg
        BY <1>5, <2>4, <2>7
    <2> QED BY <2>6, <2>7
<1>6. \A d \in 0..L : Lists(d)
    <2>1. ASSUME NEW d \in Nat, d \in S
          PROVE  d + 1 \in S
        <3> SUFFICES ASSUME d + 1 =< L PROVE Lists(d + 1)
            OBVIOUS
        <3>1. d =< L
            BY <1>2
        <3>2. Lists(d)
            BY <2>1, <3>1
        <3> HIDE DEF Lists
        <3> QED BY <1>5, <3>2
    <2> HIDE DEF S, Lists
    <2>2. Nat \subseteq S
        BY <1>4, <2>1, NatSetInduction
    <2> QED BY <1>2, <2>2 DEF S
<1>7. 0 \in T
    <2>1. Lists(0)
        BY <1>2, <1>6
    <2> QED BY <2>1
<1>8. ASSUME NEW d \in Nat, d \in T
      PROVE  d + 1 \in T
    <2> SUFFICES ASSUME d + 1 =< L, NEW c \in 0..(d + 1) PROVE Grown(c, d + 1)
        OBVIOUS
    <2>1. d \in 0..L /\ d + 1 \in 0..L /\ c \in 0..L /\ d =< L
        BY <1>2
    <2>2. Lists(d) /\ Lists(d + 1) /\ Lists(c)
        BY <1>6, <2>1
    <2>3. CASE c = d + 1
        BY <2>2, <2>3
    <2>4. CASE c # d + 1
        <3>1. c \in 0..d
            BY <2>4
        <3>2. Grown(c, d)
            BY <1>8, <2>1, <3>1
        <3>3. Grown(d, d + 1)
            BY <1>5, <2>2
        <3>4. \A k \in 1..Len(u[c]) : k \in 1..Len(u[d])
            BY <2>2, <3>2
        <3> QED BY <2>2, <3>2, <3>3, <3>4
    <2> QED BY <2>3, <2>4
<1> HIDE DEF T, Grown, Lists
<1>9. Nat \subseteq T
    BY <1>7, <1>8, NatSetInduction
<1>10. \A c, d \in 0..L : c =< d => Grown(c, d)
    <2> SUFFICES ASSUME NEW c \in 0..L, NEW d \in 0..L, c =< d PROVE Grown(c, d)
        OBVIOUS
    <2>1. d \in T /\ d =< L /\ c \in 0..d
        BY <1>2, <1>9
    <2> QED BY <2>1 DEF T
<1> QED BY <1>2, <1>6, <1>10 DEF L, u, Grown, Lists, Growing

LEMMA WithIs == \A m, n, x :
    /\ n \in DOMAIN With(m, n, x) /\ With(m, n, x)[n] = x
    /\ DOMAIN With(m, n, x) = DOMAIN m \cup {n}
    /\ \A k \in DOMAIN m : k # n => With(m, n, x)[k] = m[k]
    /\ \A y : With(With(m, n, x), n, y) = With(m, n, y)
BY DEF With

LEMMA CarriedNext ==
    \A t, ps : IsList(ps) =>
        /\ Len(ps) \in Nat /\ carried(t, ps)[0].msg = <<>>
        /\ \A k \in 1..Len(ps) : carried(t, ps)[k].msg = With(carried(t, ps)[k - 1].msg, ps[k].num, ps[k].v)
        /\ \A k \in 0..Len(ps) : carried(t, ps)[k] = Msg(t, carried(t, ps)[k].msg)
                                 /\ carried(t, ps)[k].type = t
<1> SUFFICES ASSUME NEW t, NEW ps, IsList(ps)
             PROVE  /\ Len(ps) \in Nat /\ carried(t, ps)[0].msg = <<>>
                    /\ \A k \in 1..Len(ps) : carried(t, ps)[k].msg = With(carried(t, ps)[k - 1].msg, ps[k].num, ps[k].v)
                    /\ \A k \in 0..Len(ps) : carried(t, ps)[k] = Msg(t, carried(t, ps)[k].msg)
                                             /\ carried(t, ps)[k].type = t
    OBVIOUS
<1> DEFINE C == carried(t, ps)
<1>1. Len(ps) \in Nat /\ C[0] = Msg(t, <<>>)
      /\ \A k \in 1..Len(ps) : C[k] = Msg(t, With(C[k - 1].msg, ps[k].num, ps[k].v))
    BY CarriedIs
<1>2. \A m : Msg(t, m).msg = m /\ Msg(t, m).type = t
    BY DEF Msg
<1> HIDE DEF C
<1>3. \A k \in 0..Len(ps) : k = 0 \/ k \in 1..Len(ps)
    BY <1>1
<1>4. \A k \in 0..Len(ps) : \E m : C[k] = Msg(t, m)
    BY <1>1, <1>3
<1> QED BY <1>1, <1>2, <1>4 DEF C

LEMMA WholeList ==
    ASSUME NEW v, IsList(v)
    PROVE  SubSeq(v, 1, Len(v)) = v
<1> DEFINE z == SubSeq(v, 1, Len(v))
<1>1. Len(v) \in Nat /\ Len(v) \in 0..Len(v)
    BY ListLen
<1>2. IsList(z) /\ Len(z) = Len(v) /\ \A k \in 1..Len(v) : z[k] = v[k]
    BY <1>1, FrontOfList
<1> HIDE DEF z
<1> QED BY <1>2, ListEqual DEF z

LEMMA EmptyList ==
    ASSUME NEW v, IsList(v)
    PROVE  v = <<>> <=> Len(v) = 0
<1>1. v = <<>> => Len(v) = 0
    BY NoElements
<1>2. ASSUME Len(v) = 0 PROVE v = <<>>
    BY <1>2, NoElements, ListEqual
<1> QED BY <1>1, <1>2

\* The pieces a of a field are in ps after l others, which carry less than C.
FieldDone(inner, p, n, ps, l, a, C) ==
    /\ \A k \in 1..Len(a) : PieceOf(inner, p, C[(l + k) - 1].msg, ps[l + k])
    /\ IF Len(a) = 0 THEN NotCarried(p, n)
       ELSE C[l + Len(a)].msg = With(C[l].msg, n, p.msg[n])

\* The pieces of a field, after those of other fields.
LEMMA FieldCarried ==
    ASSUME NEW inner, NEW p, IsMessage(p), NEW n \in DOMAIN p.msg, NEW ps, IsList(ps), NEW l \in Nat,
           NEW a, a = appendProtoField(inner, lookupNum(p.type, n), p.msg[n]),
           NEW C, C = carried(p.type, ps),
           l + Len(a) =< Len(ps), \A k \in 1..Len(a) : ps[l + k] = a[k],
           n \notin DOMAIN C[l].msg
    PROVE  FieldDone(inner, p, n, ps, l, a, C)
<1> DEFINE f == lookupNum(p.type, n)
           v == p.msg[n]
           m == C[l].msg
<1>1. /\ f.num = n
      /\ f.repeated => IsList(v) /\ Len(v) \in Nat /\ DOMAIN v = 1..Len(v)
    BY ValueIs
<1>2. Added(inner, f, v, a)
    BY AddedIs
<1>3. l + Len(a) =< Len(ps) /\ \A k \in 1..Len(a) : ps[l + k] = a[k]
    OBVIOUS
<1>4. n \notin DOMAIN m
    OBVIOUS
<1>5. Len(ps) \in Nat /\ \A k \in 1..Len(ps) : C[k].msg = With(C[k - 1].msg, ps[k].num, ps[k].v)
    BY CarriedNext
<1>6. ASSUME NEW x, NEW w, x.num = n, f.repeated /\ ~Packable(f) => FALSE,
             IF ~f.repeated THEN x = Piece(f, v, appendProtoSingle(inner, f, v))
             ELSE x = Piece(f, v, appendPacked(f, v))
      PROVE  PieceOf(inner, p, m, x)
    BY <1>4, <1>6 DEF PieceOf
<1> HIDE DEF m
<1>7. CASE ~f.repeated \/ Packable(f)
    <2> DEFINE x == ps[l + 1]
    <2>1. Len(a) = 1 /\ x = a[1] /\ l + 1 \in 1..Len(ps) /\ (l + 1) - 1 = l
        BY <1>2, <1>3, <1>5, <1>7 DEF Added
    <2>2. ~f.repeated => x = Piece(f, v, appendProtoSingle(inner, f, v))
        BY <1>2, <2>1 DEF Added
    <2>3. f.repeated => x = Piece(f, v, appendPacked(f, v))
        BY <1>2, <1>7, <2>1 DEF Added
    <2> HIDE DEF f, v
    <2>4. x.num = n /\ x.v = v
        BY <1>1, <2>2, <2>3, PieceIs
    <2>5. C[l + 1].msg = With(m, n, v)
        BY <1>5, <2>1, <2>4 DEF m
    <2> HIDE DEF x
    <2>6. PieceOf(inner, p, m, x)
        BY <1>6, <1>7, <2>2, <2>3, <2>4
    <2>7. ASSUME NEW k \in 1..Len(a)
          PROVE  PieceOf(inner, p, C[(l + k) - 1].msg, ps[l + k])
        <3>1. k = 1
            BY <2>1
        <3> QED BY <2>1, <2>6, <3>1 DEF x, m
    <2> QED BY <2>1, <2>5, <2>7 DEF m, f, v, FieldDone
<1>8. CASE f.repeated /\ ~Packable(f)
    <2>1. Len(a) = Len(v) /\ IsList(v) /\ Len(v) \in Nat
        BY <1>1, <1>2, <1>8 DEF Added
    <2>2. \A e \in 1..Len(v) : /\ ps[l + e] = Piece(f, SubSeq(v, 1, e), appendProtoSingle(inner, f, v[e]))
                               /\ l + e \in 1..Len(ps) /\ (l + e) - 1 = l + (e - 1)
        <3> SUFFICES ASSUME NEW e \in 1..Len(v)
                     PROVE  /\ ps[l + e] = Piece(f, SubSeq(v, 1, e), appendProtoSingle(inner, f, v[e]))
                            /\ l + e \in 1..Len(ps) /\ (l + e) - 1 = l + (e - 1)
            OBVIOUS
        <3>1. e \in 1..Len(a) /\ ps[l + e] = a[e]
            BY <1>3, <2>1
        <3>2. a[e] = Piece(f, SubSeq(v, 1, e), appendProtoSingle(inner, f, v[e]))
            BY <1>2, <1>8 DEF Added
        <3>3. l + e \in 1..Len(ps) /\ (l + e) - 1 = l + (e - 1)
            BY <1>3, <1>5, <2>1
        <3> HIDE DEF f, v
        <3> QED BY <3>1, <3>2, <3>3, Zenon
    <2> HIDE DEF f, v
    <2>3. \A e \in 1..Len(v) : ps[l + e].num = n /\ ps[l + e].v = SubSeq(v, 1, e)
        <3> SUFFICES ASSUME NEW e \in 1..Len(v)
                     PROVE  ps[l + e].num = n /\ ps[l + e].v = SubSeq(v, 1, e)
            OBVIOUS
        <3> DEFINE b == appendProtoSingle(inner, f, v[e])
        <3>1. ps[l + e] = Piece(f, SubSeq(v, 1, e), b)
            BY <2>2
        <3> HIDE DEF b
        <3> QED BY <1>1, <3>1 DEF Piece
    <2> DEFINE M(e) == IF e = 0 THEN m ELSE With(m, n, SubSeq(v, 1, e))
               S == {e \in Nat : e =< Len(v) => C[l + e].msg = M(e)}
    <2>4. 0 \in S
        BY DEF m
    <2>5. ASSUME NEW e \in Nat, e \in S
          PROVE  e + 1 \in S
        <3> SUFFICES ASSUME e + 1 =< Len(v) PROVE C[l + (e + 1)].msg = M(e + 1)
            OBVIOUS
        <3>1. e + 1 \in 1..Len(v) /\ (e + 1) - 1 = e /\ e + 1 # 0 /\ e =< Len(v)
            BY <2>1
        <3>2. C[l + e].msg = M(e)
            BY <2>5, <3>1
        <3>3. C[l + (e + 1)].msg = With(M(e), n, SubSeq(v, 1, e + 1))
            <4>1. l + (e + 1) \in 1..Len(ps) /\ (l + (e + 1)) - 1 = l + e
                BY <2>2, <3>1
            <4>2. ps[l + (e + 1)].num = n /\ ps[l + (e + 1)].v = SubSeq(v, 1, e + 1)
                BY <2>3, <3>1
            <4> HIDE DEF M
            <4> DEFINE k == l + (e + 1)
            <4>3. C[k].msg = With(C[k - 1].msg, ps[k].num, ps[k].v)
                BY <1>5, <4>1
            <4> QED BY <3>2, <4>1, <4>2, <4>3
        <3>4. With(M(e), n, SubSeq(v, 1, e + 1)) = With(m, n, SubSeq(v, 1, e + 1))
            <4> DEFINE y == SubSeq(v, 1, e + 1)
                       z == SubSeq(v, 1, e)
            <4>1. With(With(m, n, z), n, y) = With(m, n, y)
                BY WithIs
            <4> HIDE DEF y, z
            <4>2. M(e) = m \/ M(e) = With(m, n, z)
                BY DEF z
            <4> HIDE DEF M
            <4>3. With(M(e), n, y) = With(m, n, y)
                BY <4>1, <4>2
            <4> QED BY <4>3 DEF y
        <3> QED BY <3>1, <3>3, <3>4
    <2> HIDE DEF S
    <2>6. Nat \subseteq S
        BY <2>4, <2>5, NatSetInduction
    <2>7. \A e \in 0..Len(v) : C[l + e].msg = M(e)
        BY <2>1, <2>6 DEF S
    <2>8. ASSUME NEW k \in 1..Len(a)
          PROVE  PieceOf(inner, p, C[(l + k) - 1].msg, ps[l + k])
        <3> DEFINE x == ps[l + k]
                   w == C[(l + k) - 1].msg
        <3>1. k \in 1..Len(v) /\ k - 1 \in 0..Len(v)
            BY <2>1
        <3>2. w = M(k - 1)
            BY <2>2, <2>7, <3>1
        <3>3. x = Piece(f, SubSeq(v, 1, k), appendProtoSingle(inner, f, v[k])) /\ x.num = n
            BY <2>2, <2>3, <3>1
        <3>4. k = 1 => n \notin DOMAIN w
            BY <1>4, <3>2
        <3>5. k # 1 => n \in DOMAIN w /\ w[n] = SubSeq(v, 1, k - 1)
            <4> SUFFICES ASSUME k # 1 PROVE n \in DOMAIN w /\ w[n] = SubSeq(v, 1, k - 1)
                OBVIOUS
            <4> DEFINE y == SubSeq(v, 1, k - 1)
            <4>1. k - 1 # 0
                BY <3>1
            <4>2. w = With(m, n, y)
                BY <3>2, <4>1
            <4> HIDE DEF y, w
            <4>3. n \in DOMAIN w /\ w[n] = y
                BY <4>2, WithIs
            <4> QED BY <4>3 DEF y
        <3> HIDE DEF x, w
        <3>6. PieceOf(inner, p, w, x)
            <4>1. f = lookupNum(p.type, x.num) /\ v = p.msg[x.num] /\ x.num \in DOMAIN p.msg
                BY <3>3 DEF f, v
            <4>2. IF k = 1 THEN x.num \notin DOMAIN w
                  ELSE x.num \in DOMAIN w /\ w[x.num] = SubSeq(v, 1, k - 1)
                BY <3>3, <3>4, <3>5
            <4>3. \E e \in 1..Len(v) : /\ x = Piece(f, SubSeq(v, 1, e), appendProtoSingle(inner, f, v[e]))
                                      /\ IF e = 1 THEN x.num \notin DOMAIN w
                                         ELSE x.num \in DOMAIN w /\ w[x.num] = SubSeq(v, 1, e - 1)
                BY <3>1, <3>3, <4>2
            <4> QED BY <1>8, <4>1, <4>3, Zenon DEF PieceOf
        <3> QED BY <3>6 DEF x, w
    <2>9. CASE Len(a) = 0
        <3>1. v = <<>>
            BY <2>1, <2>9, EmptyList
        <3> QED BY <1>8, <2>8, <2>9, <3>1 DEF NotCarried, FieldDone, m, f, v
    <2>10. CASE Len(a) # 0
        <3>1. C[l + Len(a)].msg = With(m, n, SubSeq(v, 1, Len(v)))
            BY <2>1, <2>7, <2>10
        <3>2. SubSeq(v, 1, Len(v)) = v
            BY <2>1, WholeList
        <3> QED BY <2>8, <2>10, <3>1, <3>2 DEF m, f, v, FieldDone
    <2> QED BY <2>9, <2>10
<1>9. f.repeated \/ ~Packable(f)
    BY DEF Packable
<1> QED BY <1>7, <1>8

\* m has the fields of p with a number of N, but for those that no piece carries.
Carries(p, N, m) ==
    /\ DOMAIN m \subseteq DOMAIN p.msg \cap N
    /\ \A n \in DOMAIN p.msg \cap N : IF n \in DOMAIN m THEN m[n] = p.msg[n] ELSE NotCarried(p, n)

\* The pieces carry all of a message.
LEMMA PiecesCarry ==
    ASSUME NEW inner, NEW p, IsMessage(p)
    PROVE  LET ps == pieces(inner, p)
               C == carried(p.type, ps)
           IN  /\ IsList(ps) /\ Len(ps) \in Nat
               /\ \A k \in 1..Len(ps) : PieceOf(inner, p, C[k - 1].msg, ps[k])
               /\ Carries(p, Nums(p.type), C[Len(ps)].msg)
<1> DEFINE t == p.type
           L == Len(Fields[t])
           u == fieldPieces(inner, p)
           ps == pieces(inner, p)
           C == carried(t, ps)
           N(d) == {Fields[t][i].num : i \in 1..d}
           K(d) == /\ \A k \in 1..Len(u[d]) : PieceOf(inner, p, C[k - 1].msg, ps[k])
                   /\ Carries(p, N(d), C[Len(u[d])].msg)
           S == {d \in Nat : d =< L => K(d)}
<1>1. t \in Type
    BY DEF IsMessage
<1>2. L \in Nat /\ \A d \in 0..L : u[d] = FieldsLevel(inner, p, u, d)
    BY <1>1, FieldPiecesAre
<1>3. Growing(u, L)
    BY FieldPiecesGrow
<1>4. \A d \in 1..L : LET f == Fields[t][d]
                      IN  f.num \in Nums(t) /\ lookupNum(t, f.num) = f /\ d \in DOMAIN Fields[t]
    BY <1>1, LookupAt
<1>5. ps = u[L]
    BY DEF pieces
<1> HIDE DEF u, ps
<1>6. IsList(ps) /\ Len(ps) \in Nat
    BY <1>2, <1>3, <1>5 DEF Growing
<1>7. C[0].msg = <<>>
    BY <1>6, CarriedNext
<1> HIDE DEF C, L
<1>8. 0 \in S
    <2>1. u[0] = <<>>
        BY <1>2 DEF FieldsLevel
    <2>2. Len(u[0]) = 0 /\ DOMAIN C[0].msg = {} /\ N(0) = {} /\ 1..0 = {}
        BY <1>7, <2>1, NoElements
    <2> QED BY <2>2 DEF Carries
<1>9. ASSUME NEW d \in Nat, d \in S
      PROVE  d + 1 \in S
    <2> SUFFICES ASSUME d + 1 =< L PROVE K(d + 1)
        OBVIOUS
    <2> DEFINE f == Fields[t][d + 1]
               n == f.num
               a == appendProtoField(inner, f, p.msg[n])
               l == Len(u[d])
    <2>1. /\ d + 1 \in 0..L /\ d + 1 \in 1..L /\ d + 1 # 0 /\ (d + 1) - 1 = d /\ d =< L /\ d \in 0..L
          /\ d =< d + 1 /\ d + 1 =< L /\ L \in 0..L
        BY <1>2
    <2>2. K(d)
        BY <1>9, <2>1
    <2>3. lookupNum(t, n) = f /\ n \in Nums(t) /\ d + 1 \in DOMAIN Fields[t]
        BY <1>4, <2>1
    <2>4. N(d + 1) = N(d) \cup {n}
        <3>1. 1..(d + 1) = 1..d \cup {d + 1}
            OBVIOUS
        <3> QED BY <3>1
    <2>5. n \notin N(d)
        <3> SUFFICES ASSUME NEW i \in 1..d, Fields[t][i].num = n PROVE FALSE
            OBVIOUS
        <3>1. i \in 1..L /\ i # d + 1
            BY <2>1, <1>2
        <3>2. i \in DOMAIN Fields[t]
            BY <1>4, <3>1
        <3> QED BY <1>1, <2>3, <3>1, <3>2, ProtoAssumption
    <2>6. u[d + 1] = IF n \in DOMAIN p.msg THEN u[d] \o a ELSE u[d]
        BY <1>2, <2>1 DEF FieldsLevel
    <2> HIDE DEF N, f
    <2>7. CASE n \notin DOMAIN p.msg
        <3>1. DOMAIN p.msg \cap N(d + 1) = DOMAIN p.msg \cap N(d)
            BY <2>4, <2>7
        <3>2. Carries(p, N(d + 1), C[Len(u[d])].msg)
            BY <2>2, <3>1 DEF Carries
        <3> QED BY <2>2, <2>6, <2>7, <3>2
    <2>8. CASE n \in DOMAIN p.msg
        <3>1. IsList(a) /\ Len(a) \in Nat
            <4>1. Added(inner, lookupNum(p.type, n), p.msg[n], appendProtoField(inner, lookupNum(p.type, n), p.msg[n]))
                BY <2>8, AddedIs
            <4> QED BY <2>3, <4>1 DEF Added
        <3> HIDE DEF a, n
        <3>2. /\ u[d + 1] = u[d] \o a /\ Len(u[d + 1]) = l + Len(a)
              /\ \A k \in 1..Len(a) : u[d + 1][l + k] = a[k]
            BY <1>3, <2>1, <2>6, <2>8, <3>1, ConcatLists DEF Growing
        <3>3. l \in Nat /\ Len(u[d + 1]) \in Nat /\ Len(u[d + 1]) =< Len(ps)
              /\ \A k \in 1..Len(u[d + 1]) : ps[k] = u[d + 1][k]
            BY <1>3, <1>5, <2>1 DEF Growing
        <3> HIDE DEF l
        <3>4. l + Len(a) =< Len(ps) /\ \A k \in 1..Len(a) : ps[l + k] = a[k]
            <4>1. l + Len(a) =< Len(ps)
                BY <3>2, <3>3
            <4>2. \A k \in 1..Len(a) : l + k \in 1..Len(u[d + 1])
                BY <3>1, <3>2, <3>3
            <4> QED BY <3>2, <3>3, <4>1, <4>2
        <3> DEFINE m == C[l].msg
        <3>5. Carries(p, N(d), m)
            BY <2>2 DEF l
        <3>6. n \notin DOMAIN m
            BY <2>5, <3>5 DEF Carries
        <3>7. a = appendProtoField(inner, lookupNum(p.type, n), p.msg[n])
            BY <2>3 DEF a
        <3>11. C = carried(p.type, ps)
            BY DEF C
        <3>8. FieldDone(inner, p, n, ps, l, a, C)
            BY <1>6, <2>8, <3>3, <3>4, <3>6, <3>7, <3>11, FieldCarried
        <3>9. ASSUME NEW k \in 1..Len(u[d + 1])
              PROVE  PieceOf(inner, p, C[k - 1].msg, ps[k])
            <4>1. CASE k =< l
                <5>1. k \in 1..l
                    BY <3>3, <4>1
                <5> QED BY <2>2, <5>1 DEF l
            <4>2. CASE ~(k =< l)
                <5> DEFINE j == k - l
                <5>1. j \in 1..Len(a) /\ l + j = k
                    BY <3>1, <3>2, <3>3, <4>2
                <5> HIDE DEF j
                <5> QED BY <3>8, <5>1 DEF FieldDone
            <4> QED BY <4>1, <4>2
        <3>10. Carries(p, N(d + 1), C[Len(u[d + 1])].msg)
            <4>1. CASE Len(a) = 0
                <5>1. Len(u[d + 1]) = l
                    BY <3>2, <3>3, <4>1
                <5>2. NotCarried(p, n)
                    BY <3>8, <4>1 DEF FieldDone
                <5> HIDE DEF m
                <5>3. Carries(p, N(d + 1), m)
                    BY <2>4, <3>5, <3>6, <5>2 DEF Carries
                <5> QED BY <5>1, <5>3 DEF m
            <4>2. CASE Len(a) # 0
                <5> DEFINE w == With(m, n, p.msg[n])
                <5>1. C[Len(u[d + 1])].msg = w
                    BY <3>2, <3>8, <4>2 DEF FieldDone
                <5> HIDE DEF m
                <5>2. /\ n \in DOMAIN w /\ w[n] = p.msg[n] /\ DOMAIN w = DOMAIN m \cup {n}
                      /\ \A k \in DOMAIN m : k # n => w[k] = m[k]
                    BY DEF With
                <5> HIDE DEF w
                <5>3. Carries(p, N(d + 1), w)
                    BY <2>4, <2>8, <3>5, <3>6, <5>2 DEF Carries
                <5> QED BY <5>1, <5>3
            <4> QED BY <4>1, <4>2
        <3> QED BY <3>9, <3>10
    <2> QED BY <2>7, <2>8
<1> HIDE DEF S
<1>10. L \in S
    BY <1>2, <1>8, <1>9, NatSetInduction
<1>11. K(L)
    BY <1>2, <1>10 DEF S
<1>12. N(L) = Nums(t)
    <2>1. DOMAIN Fields[t] = 1..L
        BY <1>1, ProtoAssumption, LenProperties DEF L
    <2> QED BY <2>1 DEF Nums
<1> QED BY <1>5, <1>6, <1>11, <1>12 DEF ps, C

-----------------------------------------------------------------------------
(* Bytes that are put together *)

\* J has the bytes of the first parts of B put together.
Built(J, B, n) ==
    /\ n \in Nat
    /\ J[0] = <<>> /\ \A k \in 1..n : B[k] \in Seq(Byte) /\ J[k] = J[k - 1] \o B[k]

\* They are a beginning of those of more parts.
InOrder(J, B, n) ==
    /\ \A k \in 0..n : J[k] \in Seq(Byte) /\ Len(J[k]) \in Nat
    /\ \A k \in 1..n : Len(J[k]) = Len(J[k - 1]) + Len(B[k]) /\ Len(B[k]) \in Nat
    /\ \A k, l \in 0..n : k =< l => /\ Len(J[k]) =< Len(J[l])
                                    /\ \A j \in 1..Len(J[k]) : J[l][j] = J[k][j]

LEMMA BuiltInOrder ==
    ASSUME NEW n, NEW J, NEW B, Built(J, B, n)
    PROVE  InOrder(J, B, n)
<1> DEFINE Seqs(k) == J[k] \in Seq(Byte) /\ Len(J[k]) \in Nat
           Grown(k, l) == Len(J[k]) =< Len(J[l]) /\ \A j \in 1..Len(J[k]) : J[l][j] = J[k][j]
           S == {k \in Nat : k =< n => Seqs(k)}
           T == {l \in Nat : l =< n => \A k \in 0..l : Grown(k, l)}
<1>1. n \in Nat /\ J[0] = <<>> /\ \A k \in 1..n : B[k] \in Seq(Byte) /\ J[k] = J[k - 1] \o B[k]
    BY DEF Built
<1>2. Seqs(0)
    BY <1>1
<1>3. ASSUME NEW k \in 1..n, Seqs(k - 1)
      PROVE  /\ Seqs(k) /\ Grown(k - 1, k)
             /\ Len(J[k]) = Len(J[k - 1]) + Len(B[k]) /\ Len(B[k]) \in Nat
    <2> DEFINE a == J[k - 1]
               b == B[k]
               c == J[k]
    <2>1. a \in Seq(Byte) /\ b \in Seq(Byte) /\ c = a \o b
        BY <1>1, <1>3
    <2> HIDE DEF a, b, c
    <2>2. Len(a) \in Nat /\ Len(b) \in Nat
        BY <2>1, LenProperties
    <2>3. /\ c \in Seq(Byte) /\ Len(c) = Len(a) + Len(b)
          /\ \A j \in 1..(Len(a) + Len(b)) : c[j] = IF j =< Len(a) THEN a[j] ELSE b[j - Len(a)]
        BY <2>1, ConcatProperties
    <2>4. \A j \in 1..Len(a) : c[j] = a[j]
        BY <2>2, <2>3
    <2>5. Len(a) =< Len(c) /\ Len(c) \in Nat
        BY <2>2, <2>3
    <2>6. Seqs(k)
        BY <2>3, <2>5 DEF c
    <2>7. Grown(k - 1, k)
        BY <2>4, <2>5 DEF a, c
    <2> QED BY <2>2, <2>3, <2>6, <2>7 DEF a, b, c
<1>4. \A k \in 0..n : Seqs(k)
    <2>1. 0 \in S
        BY <1>2
    <2>2. ASSUME NEW k \in Nat, k \in S
          PROVE  k + 1 \in S
        <3> SUFFICES ASSUME k + 1 =< n PROVE Seqs(k + 1)
            OBVIOUS
        <3>1. k =< n /\ k + 1 \in 1..n /\ (k + 1) - 1 = k
            BY <1>1
        <3>2. Seqs(k)
            BY <2>2, <3>1
        <3> HIDE DEF Seqs
        <3> QED BY <1>3, <3>1, <3>2
    <2> HIDE DEF S, Seqs
    <2>3. Nat \subseteq S
        BY <2>1, <2>2, NatSetInduction
    <2> QED BY <1>1, <2>3 DEF S
<1>5. \A k \in 1..n : /\ Grown(k - 1, k)
                      /\ Len(J[k]) = Len(J[k - 1]) + Len(B[k]) /\ Len(B[k]) \in Nat
    <2> SUFFICES ASSUME NEW k \in 1..n
                 PROVE  Grown(k - 1, k) /\ Len(J[k]) = Len(J[k - 1]) + Len(B[k]) /\ Len(B[k]) \in Nat
        OBVIOUS
    <2>1. k - 1 \in 0..n
        BY <1>1
    <2>2. Seqs(k - 1)
        BY <1>4, <2>1
    <2> HIDE DEF Seqs, Grown
    <2> QED BY <1>3, <2>2
<1>6. 0 \in T
    <2>1. Seqs(0)
        BY <1>1, <1>4
    <2> QED BY <2>1
<1>7. ASSUME NEW l \in Nat, l \in T
      PROVE  l + 1 \in T
    <2> SUFFICES ASSUME l + 1 =< n, NEW k \in 0..(l + 1) PROVE Grown(k, l + 1)
        OBVIOUS
    <2>1. l \in 0..n /\ l + 1 \in 1..n /\ l + 1 \in 0..n /\ k \in 0..n /\ l =< n /\ (l + 1) - 1 = l
        BY <1>1
    <2>2. Seqs(l) /\ Seqs(l + 1) /\ Seqs(k)
        BY <1>4, <2>1
    <2>3. CASE k = l + 1
        BY <2>2, <2>3
    <2>4. CASE k # l + 1
        <3>1. k \in 0..l
            BY <2>4
        <3>2. Grown(k, l)
            BY <1>7, <2>1, <3>1
        <3>3. Grown(l, l + 1)
            <4> HIDE DEF Grown
            <4> QED BY <1>5, <2>1
        <3>4. \A j \in 1..Len(J[k]) : j \in 1..Len(J[l])
            BY <2>2, <3>2
        <3> QED BY <2>2, <3>2, <3>3, <3>4
    <2> QED BY <2>3, <2>4
<1> HIDE DEF T, Grown, Seqs
<1>8. Nat \subseteq T
    BY <1>6, <1>7, NatSetInduction
<1>9. \A k, l \in 0..n : k =< l => Grown(k, l)
    <2> SUFFICES ASSUME NEW k \in 0..n, NEW l \in 0..n, k =< l PROVE Grown(k, l)
        OBVIOUS
    <2>1. l \in T /\ l =< n /\ k \in 0..l
        BY <1>1, <1>8
    <2> QED BY <2>1 DEF T
<1> QED BY <1>4, <1>5, <1>9 DEF InOrder, Grown, Seqs

\* Where all is, each part is.
LEMMA BuiltHas ==
    ASSUME NEW n, NEW J, NEW B, Built(J, B, n), NEW data \in Seq(Byte), NEW i \in Nat,
           Has(data, i, J[n]), NEW k \in 1..n
    PROVE  Has(data, i + Len(J[k - 1]), B[k])
<1>1. n \in Nat /\ B[k] \in Seq(Byte) /\ J[k] = J[k - 1] \o B[k]
    BY DEF Built
<1>2. InOrder(J, B, n)
    BY BuiltInOrder
<1>3. k \in 0..n /\ k - 1 \in 0..n /\ n \in 0..n /\ k =< n
    BY <1>1
<1>4. J[k - 1] \in Seq(Byte) /\ Len(J[k]) \in Nat /\ Len(J[n]) \in Nat /\ Len(J[k]) =< Len(J[n])
      /\ \A j \in 1..Len(J[k]) : J[n][j] = J[k][j]
    BY <1>2, <1>3 DEF InOrder
<1>5. Has(data, i, J[k])
    <2> SUFFICES ASSUME NEW j \in 1..Len(J[k]), i + j =< Len(data) PROVE data[i + j] = J[k][j]
        BY DEF Has
    <2>1. j \in 1..Len(J[n])
        BY <1>4
    <2>2. data[i + j] = J[n][j]
        BY <2>1 DEF Has
    <2> QED BY <1>4, <2>2
<1> DEFINE a == J[k - 1]
           b == B[k]
<1>6. Has(data, i, a \o b) /\ a \in Seq(Byte) /\ b \in Seq(Byte)
    BY <1>1, <1>4, <1>5
<1> HIDE DEF a, b
<1>7. Has(data, i + Len(a), b)
    BY <1>6, JoinedHas
<1> QED BY <1>7 DEF a, b

-----------------------------------------------------------------------------
(* The kinds of pieces *)

\* A packed list; m is what earlier pieces carry.
IsPacked(p, m, x) ==
    LET f == lookupNum(p.type, x.num)
    IN  /\ Packable(f) /\ x.num \notin DOMAIN m
        /\ IsList(x.v) /\ \A j \in DOMAIN x.v : FitsOne(f, x.v[j])
        /\ x.bytes = appendPacked(f, x.v)

\* A value e, or the element e of a list.
IsSingle(inner, p, m, x, e) ==
    LET f == lookupNum(p.type, x.num)
    IN  /\ ~Packable(f) /\ x.bytes = appendProtoSingle(inner, f, e)
        /\ IF f.type = "message" THEN e # NoMessage => Msg(f.schema, e) \in nested(p) ELSE FitsOne(f, e)
        /\ IF f.repeated
           THEN /\ IsList(x.v) /\ Len(x.v) \in Nat /\ Len(x.v) >= 1 /\ x.v[Len(x.v)] = e
                /\ IF Len(x.v) = 1 THEN x.num \notin DOMAIN m
                   ELSE x.num \in DOMAIN m /\ m[x.num] = SubSeq(x.v, 1, Len(x.v) - 1)
           ELSE x.v = e /\ x.num \notin DOMAIN m /\ (f.type = "message" => e # NoMessage)

LEMMA FrontOfFront ==
    ASSUME NEW v, IsList(v), NEW e \in 1..Len(v)
    PROVE  LET z == SubSeq(v, 1, e)
           IN  /\ IsList(z) /\ Len(z) = e /\ z[e] = v[e]
               /\ SubSeq(z, 1, e - 1) = SubSeq(v, 1, e - 1)
<1> DEFINE z == SubSeq(v, 1, e)
           a == SubSeq(z, 1, e - 1)
           b == SubSeq(v, 1, e - 1)
<1>1. Len(v) \in Nat /\ e \in 0..Len(v) /\ e - 1 \in 0..Len(v) /\ e - 1 \in 0..e /\ e \in 1..e
    BY ListLen
<1>2. IsList(z) /\ Len(z) = e /\ \A k \in 1..e : z[k] = v[k]
    BY <1>1, FrontOfList
<1>3. IsList(b) /\ Len(b) = e - 1 /\ \A k \in 1..(e - 1) : b[k] = v[k]
    BY <1>1, FrontOfList
<1> HIDE DEF z, b
<1>4. IsList(a) /\ Len(a) = e - 1 /\ \A k \in 1..(e - 1) : a[k] = z[k]
    BY <1>1, <1>2, FrontOfList
<1> HIDE DEF a
<1>5. a = b
    <2>1. \A k \in 1..(e - 1) : k \in 1..e
        BY <1>1
    <2>2. \A k \in 1..Len(a) : a[k] = b[k]
        BY <1>2, <1>3, <1>4, <2>1
    <2> QED BY <1>3, <1>4, <2>2, ListEqual
<1> QED BY <1>1, <1>2, <1>5 DEF a, b, z

LEMMA PieceKinds ==
    ASSUME NEW inner, NEW p, IsMessage(p), NEW m, NEW x, PieceOf(inner, p, m, x)
    PROVE  x.num \in DOMAIN p.msg /\ (IsPacked(p, m, x) \/ \E e : IsSingle(inner, p, m, x, e))
<1> DEFINE n == x.num
           f == lookupNum(p.type, n)
           v == p.msg[n]
<1>1. n \in DOMAIN p.msg
    BY DEF PieceOf
<1>2. /\ f \in FieldSchema /\ Holds(f, v)
      /\ f.repeated => IsList(v) /\ Len(v) \in Nat /\ DOMAIN v = 1..Len(v)
    BY <1>1, ValueIs
<1>3. ASSUME f.type = "message", NEW e, e # NoMessage, IF f.repeated THEN \E j \in DOMAIN v : e = v[j] ELSE e = v
      PROVE  Msg(f.schema, e) \in nested(p)
    <2>1. e \in held(f, v)
        BY <1>3 DEF held
    <2> QED BY <1>1, <1>3, <2>1, HeldIsNested
<1>4. CASE ~f.repeated
    <2>1. x = Piece(f, v, appendProtoSingle(inner, f, v)) /\ n \notin DOMAIN m
        BY <1>4 DEF PieceOf
    <2>2. x.v = v /\ x.bytes = appendProtoSingle(inner, f, v)
        BY <2>1 DEF Piece
    <2>3. FitsOne(f, v) /\ (f.type = "message" => v # NoMessage) /\ ~Packable(f)
        BY <1>2, <1>4 DEF Holds, HoldsOne, Packable
    <2>4. f.type = "message" => Msg(f.schema, v) \in nested(p)
        BY <1>3, <1>4, <2>3
    <2> HIDE DEF f, v
    <2>5. IsSingle(inner, p, m, x, v)
        BY <1>4, <2>1, <2>2, <2>3, <2>4 DEF IsSingle, f
    <2> QED BY <1>1, <2>5
<1>5. CASE f.repeated /\ Packable(f)
    <2>1. x = Piece(f, v, appendPacked(f, v)) /\ n \notin DOMAIN m
        BY <1>5 DEF PieceOf
    <2>2. x.v = v /\ x.bytes = appendPacked(f, v)
        BY <2>1 DEF Piece
    <2>3. IsList(v) /\ \A j \in DOMAIN v : FitsOne(f, v[j])
        BY <1>2, <1>5 DEF Holds, HoldsOne, Packable
    <2> HIDE DEF f, v
    <2>4. IsPacked(p, m, x)
        BY <1>5, <2>1, <2>2, <2>3 DEF IsPacked, f
    <2> QED BY <1>1, <2>4
<1>6. CASE f.repeated /\ ~Packable(f)
    <2>1. PICK e \in 1..Len(v) :
              /\ x = Piece(f, SubSeq(v, 1, e), appendProtoSingle(inner, f, v[e]))
              /\ IF e = 1 THEN n \notin DOMAIN m ELSE n \in DOMAIN m /\ m[n] = SubSeq(v, 1, e - 1)
        BY <1>6 DEF PieceOf
    <2> DEFINE z == SubSeq(v, 1, e)
    <2>2. x.v = z /\ x.bytes = appendProtoSingle(inner, f, v[e])
        BY <2>1 DEF Piece
    <2>3. IsList(v) /\ e \in DOMAIN v /\ e \in Nat /\ e >= 1
        BY <1>2, <1>6
    <2>4. IsList(z) /\ Len(z) = e /\ z[e] = v[e] /\ SubSeq(z, 1, e - 1) = SubSeq(v, 1, e - 1)
        BY <2>3, FrontOfFront
    <2>5. IF f.type = "message" THEN v[e] # NoMessage => Msg(f.schema, v[e]) \in nested(p)
          ELSE FitsOne(f, v[e])
        <3>1. f.type = "message" /\ v[e] # NoMessage => Msg(f.schema, v[e]) \in nested(p)
            BY <1>3, <1>6, <2>3
        <3>2. f.type # "message" => FitsOne(f, v[e])
            BY <1>2, <1>6, <2>3 DEF Holds, HoldsOne
        <3> QED BY <3>1, <3>2
    <2> HIDE DEF f, v, z
    <2>6. /\ IsList(x.v) /\ Len(x.v) \in Nat /\ Len(x.v) >= 1 /\ x.v[Len(x.v)] = v[e]
          /\ IF Len(x.v) = 1 THEN n \notin DOMAIN m
             ELSE n \in DOMAIN m /\ m[n] = SubSeq(x.v, 1, Len(x.v) - 1)
        BY <2>1, <2>2, <2>3, <2>4
    <2>7. IsSingle(inner, p, m, x, v[e])
        BY <1>6, <2>2, <2>5, <2>6 DEF IsSingle, f
    <2> QED BY <1>1, <2>7
<1> QED BY <1>4, <1>5, <1>6

-----------------------------------------------------------------------------
(* The bytes of pieces *)

LEMMA KeyBytes ==
    ASSUME NEW f \in FieldSchema, NEW w \in 0..7
    PROVE  /\ appendKey(f, w) \in Seq(Byte) /\ Len(appendKey(f, w)) \in Nat
           /\ Len(appendKey(f, w)) >= 1
<1> DEFINE v == f.num * 8 + w
<1>1. v \in Nat /\ Groups \in Nat
    <2>1. f.num \in Nat
        BY DEF FieldSchema
    <2>2. v \in Nat
        BY <2>1
    <2> QED BY <2>2, ProtoAssumption
<1>2. appendKey(f, w) = appendVarint(v)
    BY DEF appendKey
<1> HIDE DEF v
<1>3. appendVarint(v) \in Seq(Byte) /\ Len(appendVarint(v)) \in 1..Groups
    BY <1>1, appendVarintIs
<1> QED BY <1>1, <1>2, <1>3

LEMMA WireTypes ==
    ASSUME NEW f \in FieldSchema
    PROVE  wireTypeFor(f.type) \in {0, 1, 2, 5}
BY DEF wireTypeFor, FieldSchema, FieldType

\* What is put together is a sequence of bytes with bytes.
LEMMA BytesJoined ==
    ASSUME NEW a \in Seq(Byte), NEW b \in Seq(Byte)
    PROVE  /\ a \o b \in Seq(Byte) /\ Len(a \o b) = Len(a) + Len(b)
           /\ Len(a) \in Nat /\ Len(b) \in Nat
BY ConcatProperties, LenProperties

\* Only a nil element has no bytes.
HasBytes(inner, f, x) ==
    LET b == appendProtoSingle(inner, f, x)
    IN  /\ b \in Seq(Byte) /\ Len(b) \in Nat
        /\ Len(b) = 0 <=> f.type = "message" /\ x = NoMessage

LEMMA SingleBytes ==
    ASSUME NEW inner, NEW f \in FieldSchema, NEW x, f.type # "message" => FitsOne(f, x),
           f.type = "message" /\ x # NoMessage => inner[Msg(f.schema, x)] \in Seq(Byte)
    PROVE  HasBytes(inner, f, x)
<1> DEFINE k == appendKey(f, wireTypeFor(f.type))
           c == IF f.type = "message" THEN appendBytes(inner[Msg(f.schema, x)]) ELSE appendScalar(f.type, x)
<1>1. wireTypeFor(f.type) \in 0..7 /\ (f.type = "message" => wireTypeFor(f.type) = 2)
    <2>1. wireTypeFor(f.type) \in {0, 1, 2, 5}
        BY WireTypes
    <2>2. f.type = "message" => wireTypeFor(f.type) = 2
        BY DEF wireTypeFor
    <2> QED BY <2>1, <2>2
<1>2. k \in Seq(Byte) /\ Len(k) \in Nat /\ Len(k) >= 1
    BY <1>1, KeyBytes
<1>3. CASE f.type = "message" /\ x = NoMessage
    <2>1. appendProtoSingle(inner, f, x) = <<>>
        BY <1>3 DEF appendProtoSingle
    <2> QED BY <1>3, <2>1 DEF HasBytes
<1>4. CASE ~(f.type = "message" /\ x = NoMessage)
    <2>1. c \in Seq(Byte)
        <3>1. f.type = "message" => appendBytes(inner[Msg(f.schema, x)]) \in Seq(Byte)
            BY <1>4, appendBytesIs
        <3>2. f.type # "message" => appendScalar(f.type, x) \in Seq(Byte)
            BY ScalarBytes
        <3> QED BY <3>1, <3>2
    <2>2. appendProtoSingle(inner, f, x) = k \o c
        BY <1>1, <1>4 DEF appendProtoSingle
    <2> HIDE DEF k, c
    <2>3. k \o c \in Seq(Byte) /\ Len(k \o c) = Len(k) + Len(c) /\ Len(c) \in Nat
        BY <1>2, <2>1, BytesJoined
    <2> QED BY <1>2, <1>4, <2>2, <2>3 DEF HasBytes
<1> QED BY <1>3, <1>4

\* The bytes of the elements of a packed list.
PackedElements(f, v) == [j \in 1..Len(v) |-> appendScalar(f.type, v[j])]

LEMMA PackedBuilt ==
    ASSUME NEW f \in FieldSchema, Packable(f), NEW v, IsList(v), \A j \in DOMAIN v : FitsOne(f, v[j])
    PROVE  /\ Built(packedBody(f, v), PackedElements(f, v), Len(v))
           /\ \A j \in 1..Len(v) : /\ PackedElements(f, v)[j] = appendScalar(f.type, v[j])
                                   /\ PackedElements(f, v)[j] \in Seq(Byte)
                                   /\ Len(PackedElements(f, v)[j]) \in Nat
                                   /\ Len(PackedElements(f, v)[j]) >= 1
<1> DEFINE u == packedBody(f, v)
           B == PackedElements(f, v)
<1>1. Len(v) \in Nat /\ \A d \in 0..Len(v) : u[d] = PackedLevel(f, v, u, d)
    BY PackedBodyIs
<1>2. \A j \in 1..Len(v) : B[j] = appendScalar(f.type, v[j])
    BY DEF PackedElements
<1>3. DOMAIN v = 1..Len(v) /\ f.type # "message"
    BY ListLen DEF Packable
<1>4. \A j \in 1..Len(v) : /\ appendScalar(f.type, v[j]) \in Seq(Byte)
                           /\ Len(appendScalar(f.type, v[j])) \in Nat
                           /\ Len(appendScalar(f.type, v[j])) >= 1
    BY <1>3, ScalarBytes
<1> HIDE DEF u, B
<1>5. u[0] = <<>>
    BY <1>1 DEF PackedLevel
<1>6. ASSUME NEW k \in 1..Len(v)
      PROVE  u[k] = u[k - 1] \o B[k]
    <2>1. k \in 0..Len(v) /\ k # 0
        BY <1>1
    <2>2. u[k] = u[k - 1] \o appendScalar(f.type, v[k])
        BY <1>1, <2>1 DEF PackedLevel
    <2> QED BY <1>2, <2>2
<1> QED BY <1>1, <1>2, <1>4, <1>5, <1>6 DEF Built, u, B

\* A list with an element has bytes.
LEMMA PackedBytes ==
    ASSUME NEW f \in FieldSchema, Packable(f), NEW v, IsList(v), \A j \in DOMAIN v : FitsOne(f, v[j])
    PROVE  LET body == packedBody(f, v)[Len(v)]
               b == appendPacked(f, v)
           IN  /\ body \in Seq(Byte) /\ b \in Seq(Byte) /\ Len(b) \in Nat
               /\ v = <<>> => b = <<>>
               /\ v # <<>> => Len(body) >= 1 /\ Len(b) >= 1 /\ b = appendKey(f, 2) \o appendBytes(body)
<1> DEFINE u == packedBody(f, v)
           B == PackedElements(f, v)
           n == Len(v)
           body == u[n]
           b == appendPacked(f, v)
<1>1. Built(u, B, n) /\ \A j \in 1..n : Len(B[j]) \in Nat /\ Len(B[j]) >= 1
    BY PackedBuilt
<1>2. InOrder(u, B, n) /\ n \in Nat /\ u[0] = <<>>
    BY <1>1, BuiltInOrder DEF Built
<1> HIDE DEF B
<1>3. body \in Seq(Byte) /\ Len(body) \in Nat
    <2>1. n \in 0..n
        BY <1>2
    <2> HIDE DEF u, n
    <2> QED BY <1>2, <2>1 DEF InOrder
<1>4. v = <<>> <=> n = 0
    BY EmptyList
<1>5. n # 0 => Len(body) >= 1
    <2> SUFFICES ASSUME n # 0 PROVE Len(body) >= 1
        OBVIOUS
    <2> HIDE DEF u, n, body
    <2>0. body = u[n]
        BY DEF body
    <2>1. n \in 1..n /\ n - 1 \in 0..n
        BY <1>2
    <2>2. Len(u[n]) = Len(u[n - 1]) + Len(B[n]) /\ Len(u[n - 1]) \in Nat /\ Len(B[n]) >= 1 /\ Len(B[n]) \in Nat
        BY <1>1, <1>2, <2>1 DEF InOrder
    <2>3. \A x, y \in Nat : y >= 1 => x + y >= 1
        OBVIOUS
    <2>4. Len(u[n]) >= 1
        BY <2>2, <2>3, Zenon
    <2> QED BY <2>0, <2>4, Zenon
<1>6. b = IF body = <<>> THEN <<>> ELSE appendKey(f, 2) \o appendBytes(body)
    BY DEF appendPacked
<1>7. CASE n = 0
    <2>1. body = <<>>
        BY <1>2, <1>7
    <2>2. b = <<>>
        BY <1>6, <2>1
    <2> HIDE DEF b, body, n
    <2> QED BY <1>3, <1>4, <1>7, <2>2 DEF b, body, n, u
<1>8. CASE n # 0
    <2> DEFINE k == appendKey(f, 2)
               c == appendBytes(body)
    <2>1. body # <<>> /\ Len(body) >= 1
        <3> HIDE DEF body
        <3> QED BY <1>5, <1>8
    <2>2. b = k \o c
        BY <1>6, <2>1
    <2> HIDE DEF body
    <2>3. k \in Seq(Byte) /\ Len(k) >= 1 /\ c \in Seq(Byte)
        BY <1>3, appendBytesIs, KeyBytes
    <2> HIDE DEF k, c
    <2>4. k \o c \in Seq(Byte) /\ Len(k \o c) = Len(k) + Len(c) /\ Len(k) \in Nat /\ Len(c) \in Nat
        BY <2>3, BytesJoined
    <2>5. b \in Seq(Byte) /\ Len(b) \in Nat /\ Len(b) >= 1
        BY <2>2, <2>3, <2>4
    <2> HIDE DEF b, n
    <2> QED BY <1>3, <1>4, <1>8, <2>1, <2>2, <2>5 DEF b, body, n, u, k, c
<1> QED BY <1>7, <1>8

-----------------------------------------------------------------------------
(* The encoding of a part *)

LEMMA PieceBytes ==
    ASSUME NEW inner, NEW p, IsMessage(p), NEW m, NEW x, PieceOf(inner, p, m, x),
           \A q \in nested(p) : inner[q] \in Seq(Byte)
    PROVE  x.bytes \in Seq(Byte)
<1> DEFINE f == lookupNum(p.type, x.num)
<1>1. x.num \in DOMAIN p.msg /\ (IsPacked(p, m, x) \/ \E e : IsSingle(inner, p, m, x, e))
    BY PieceKinds
<1>2. f \in FieldSchema
    BY <1>1, ValueIs
<1>3. CASE IsPacked(p, m, x)
    <2>1. Packable(f) /\ IsList(x.v) /\ (\A j \in DOMAIN x.v : FitsOne(f, x.v[j])) /\ x.bytes = appendPacked(f, x.v)
        BY <1>3 DEF IsPacked
    <2> HIDE DEF f
    <2> QED BY <1>2, <2>1, PackedBytes
<1>4. CASE \E e : IsSingle(inner, p, m, x, e)
    <2>1. PICK e : IsSingle(inner, p, m, x, e)
        BY <1>4
    <2>2. x.bytes = appendProtoSingle(inner, f, e)
        BY <2>1 DEF IsSingle
    <2>3. f.type # "message" => FitsOne(f, e)
        BY <2>1 DEF IsSingle
    <2>4. f.type = "message" /\ e # NoMessage => inner[Msg(f.schema, e)] \in Seq(Byte)
        BY <2>1 DEF IsSingle
    <2> HIDE DEF f
    <2>5. HasBytes(inner, f, e)
        BY <1>2, <2>3, <2>4, SingleBytes
    <2> QED BY <2>2, <2>5 DEF HasBytes
<1> QED BY <1>1, <1>3, <1>4

\* The bytes of pieces.
BytesOf(ps) == [k \in 1..Len(ps) |-> ps[k].bytes]

LEMMA JoinedBuilt ==
    ASSUME NEW ps, IsList(ps), \A k \in 1..Len(ps) : ps[k].bytes \in Seq(Byte)
    PROVE  Built(joined(ps), BytesOf(ps), Len(ps))
<1> DEFINE J == joined(ps)
           B == BytesOf(ps)
<1>1. Len(ps) \in Nat /\ \A d \in 0..Len(ps) : J[d] = JoinedLevel(ps, J, d)
    BY JoinedIs
<1>2. \A k \in 1..Len(ps) : B[k] = ps[k].bytes
    BY DEF BytesOf
<1> HIDE DEF J, B
<1>3. J[0] = <<>>
    BY <1>1 DEF JoinedLevel
<1>4. \A k \in 1..Len(ps) : J[k] = J[k - 1] \o B[k]
    <2> SUFFICES ASSUME NEW k \in 1..Len(ps) PROVE J[k] = J[k - 1] \o B[k]
        OBVIOUS
    <2>1. k \in 0..Len(ps) /\ k # 0
        BY <1>1
    <2> QED BY <1>1, <1>2, <2>1 DEF JoinedLevel
<1> QED BY <1>1, <1>2, <1>3, <1>4 DEF Built, J, B

\* The pieces of p, with the encodings e of what is in it, make up its bytes b.
Encoded(e, p, ps, b) ==
    LET C == carried(p.type, ps)
    IN  /\ ps = pieces(e, p) /\ IsList(ps) /\ Len(ps) \in Nat
        /\ \A k \in 1..Len(ps) : PieceOf(e, p, C[k - 1].msg, ps[k])
        /\ Carries(p, Nums(p.type), C[Len(ps)].msg)
        /\ Built(joined(ps), BytesOf(ps), Len(ps))
        /\ b = joined(ps)[Len(ps)] /\ b \in Seq(Byte)

LEMMA EncodedIs ==
    ASSUME NEW e, NEW p, IsMessage(p), \A q \in nested(p) : e[q] \in Seq(Byte)
    PROVE  Encoded(e, p, pieces(e, p), whole(pieces(e, p)))
<1> DEFINE ps == pieces(e, p)
           C == carried(p.type, ps)
<1>1. /\ IsList(ps) /\ Len(ps) \in Nat
      /\ \A k \in 1..Len(ps) : PieceOf(e, p, C[k - 1].msg, ps[k])
      /\ Carries(p, Nums(p.type), C[Len(ps)].msg)
    BY PiecesCarry
<1>2. \A k \in 1..Len(ps) : ps[k].bytes \in Seq(Byte)
    <2> SUFFICES ASSUME NEW k \in 1..Len(ps) PROVE ps[k].bytes \in Seq(Byte)
        OBVIOUS
    <2>1. PieceOf(e, p, C[k - 1].msg, ps[k])
        BY <1>1
    <2> HIDE DEF C, ps
    <2> QED BY <2>1, PieceBytes
<1>3. Built(joined(ps), BytesOf(ps), Len(ps))
    <2> HIDE DEF ps
    <2> QED BY <1>1, <1>2, JoinedBuilt
<1>4. whole(ps) = joined(ps)[Len(ps)]
    BY DEF whole
<1>5. joined(ps)[Len(ps)] \in Seq(Byte)
    <2> HIDE DEF ps
    <2>1. InOrder(joined(ps), BytesOf(ps), Len(ps)) /\ Len(ps) \in 0..Len(ps)
        BY <1>1, <1>3, BuiltInOrder
    <2> QED BY <2>1 DEF InOrder
<1> QED BY <1>1, <1>3, <1>4, <1>5 DEF Encoded

LEMMA EncodingBytes ==
    ASSUME NEW s, \A p \in parts(s) : IsMessage(p)
    PROVE  \A p \in parts(s) : encodings(s)[Depth][p] \in Seq(Byte)
<1> DEFINE e == encodings(s)[Depth]
           S == {d \in Nat : \A x \in parts(s) : Nesting[x.type] < d => e[x] \in Seq(Byte)}
<1>0. \A x \in parts(s) : e[x] = whole(pieces(e, x))
    BY EncodingsFix
<1> HIDE DEF e
<1>1. 0 \in S
    BY PartIs
<1>2. ASSUME NEW d \in Nat, d \in S
      PROVE  d + 1 \in S
    <2> SUFFICES ASSUME NEW x \in parts(s), Nesting[x.type] < d + 1 PROVE e[x] \in Seq(Byte)
        OBVIOUS
    <2>1. IsMessage(x) /\ \A q \in nested(x) : q \in parts(s) /\ Nesting[q.type] < d
        BY PartIs
    <2>2. \A q \in nested(x) : e[q] \in Seq(Byte)
        BY <1>2, <2>1
    <2>3. Encoded(e, x, pieces(e, x), whole(pieces(e, x)))
        BY <2>1, <2>2, EncodedIs
    <2> QED BY <1>0, <2>3 DEF Encoded
<1> HIDE DEF S
<1>3. Depth + 1 \in S
    BY <1>1, <1>2, NatSetInduction, WireAssumption
<1>4. ASSUME NEW x \in parts(s) PROVE e[x] \in Seq(Byte)
    <2>1. Nesting[x.type] < Depth + 1
        BY PartIs, WireAssumption
    <2> QED BY <1>3, <2>1 DEF S
<1> QED BY <1>4 DEF e

LEMMA PartEncoded ==
    ASSUME NEW s, \A p \in parts(s) : IsMessage(p), NEW p \in parts(s)
    PROVE  LET e == encodings(s)[Depth] IN Encoded(e, p, pieces(e, p), e[p])
<1> DEFINE e == encodings(s)[Depth]
<1>1. \A q \in nested(p) : e[q] \in Seq(Byte)
    BY EncodingBytes, PartIs
<1>2. e[p] = whole(pieces(e, p))
    BY EncodingsFix
<1>3. IsMessage(p)
    OBVIOUS
<1> HIDE DEF e
<1>4. Encoded(e, p, pieces(e, p), whole(pieces(e, p)))
    BY <1>1, <1>3, EncodedIs
<1> QED BY <1>2, <1>4 DEF e

-----------------------------------------------------------------------------
(* What a piece adds to what a receiver has *)

\* A receiver with the type t reads messages of the type u.
Reads(u, t) == u \in Type /\ t \in Type /\ (t = u \/ t = Receiver[u])

LEMMA ReadsIs ==
    ASSUME NEW u, NEW t, Reads(u, t), NEW n, n \in Nums(u), n \in Nums(t)
    PROVE  LET f == lookupNum(u, n)
               g == lookupNum(t, n)
           IN  /\ f \in FieldSchema /\ g \in FieldSchema /\ f.num = n /\ g.num = n
               /\ g.type = f.type /\ g.repeated = f.repeated
               /\ f.type = "message" => Reads(f.schema, g.schema)
<1> DEFINE f == lookupNum(u, n)
           g == lookupNum(t, n)
<1>1. u \in Type /\ t \in Type
    BY DEF Reads
<1>2. f \in FieldSchema /\ g \in FieldSchema /\ f.num = n /\ g.num = n
      /\ (f.type = "message" => f.schema \in Type)
      /\ (g.type = "message" => g.schema \in Type)
    BY <1>1, LookupIs
<1>3. CASE t = u
    BY <1>2, <1>3 DEF Reads
<1>4. CASE t = Receiver[u]
    <2>1. n \in Nums(u) \cap Nums(Receiver[u])
        BY <1>4
    <2>2. g.type = f.type /\ g.repeated = f.repeated /\ (f.type = "message" => g.schema = Receiver[f.schema])
        BY <1>1, <1>4, <2>1, ReceiverAssumption
    <2> QED BY <1>2, <2>2 DEF Reads
<1> QED BY <1>3, <1>4 DEF Reads

LEMMA ReceivedIs == \A G, s, t :
    LET r == receivedMessage(G, s, t)
        w(n) == receivedField(G, lookupNum(s.type, n), lookupNum(t, n), s.msg[n])
    IN  /\ r = [n \in DOMAIN r |-> r[n]]
        /\ \A n : n \in DOMAIN r <=> /\ n \in DOMAIN s.msg /\ n \in Nums(t)
                                     /\ ~lookupNum(s.type, n).repeated \/ w(n) # <<>>
        /\ \A n \in DOMAIN r : r[n] = w(n)
BY DEF receivedMessage

LEMMA SameFunction ==
    ASSUME NEW a, NEW b, a = [n \in DOMAIN a |-> a[n]], b = [n \in DOMAIN b |-> b[n]],
           \A n : n \in DOMAIN a <=> n \in DOMAIN b, \A n \in DOMAIN a : a[n] = b[n]
    PROVE  a = b
<1>1. DOMAIN a = DOMAIN b
    OBVIOUS
<1>2. [n \in DOMAIN a |-> a[n]] = [n \in DOMAIN b |-> b[n]]
    BY <1>1
<1> QED BY <1>2

LEMMA WithFunction == \A m, n, x : With(m, n, x) = [k \in DOMAIN With(m, n, x) |-> With(m, n, x)[k]]
BY DEF With

\* What a receiver has when a field changed, from what it had: r2 from r.
Changed(G, u, t, n, v, r, r2) ==
    LET w == receivedField(G, lookupNum(u, n), lookupNum(t, n), v)
        rep == lookupNum(u, n).repeated
    IN  /\ n \notin Nums(t) => r2 = r
        /\ n \in Nums(t) /\ (~rep \/ w # <<>>) => r2 = With(r, n, w)
        /\ n \in Nums(t) /\ rep /\ w = <<>> /\ n \notin DOMAIN r => r2 = r

LEMMA ReceivedWith ==
    ASSUME NEW G, NEW u, NEW t, NEW m, NEW n, NEW v
    PROVE  Changed(G, u, t, n, v, receivedMessage(G, Msg(u, m), t), receivedMessage(G, Msg(u, With(m, n, v)), t))
<1> DEFINE x == With(m, n, v)
           r == receivedMessage(G, Msg(u, m), t)
           r2 == receivedMessage(G, Msg(u, x), t)
           W(k, y) == receivedField(G, lookupNum(u, k), lookupNum(t, k), y)
           Rep(k) == lookupNum(u, k).repeated
<1>1. \A y : Msg(u, y).type = u /\ Msg(u, y).msg = y
    BY DEF Msg
<1>2. /\ n \in DOMAIN x /\ x[n] = v /\ DOMAIN x = DOMAIN m \cup {n}
      /\ \A k \in DOMAIN m : k # n => x[k] = m[k]
    BY DEF With
<1>3. /\ r = [k \in DOMAIN r |-> r[k]]
      /\ \A k : k \in DOMAIN r <=> k \in DOMAIN m /\ k \in Nums(t) /\ (~Rep(k) \/ W(k, m[k]) # <<>>)
      /\ \A k \in DOMAIN r : r[k] = W(k, m[k])
    <2> DEFINE s == Msg(u, m)
    <2>1. s.type = u /\ s.msg = m
        BY <1>1
    <2> HIDE DEF s
    <2>2. /\ receivedMessage(G, s, t) = [k \in DOMAIN receivedMessage(G, s, t) |-> receivedMessage(G, s, t)[k]]
          /\ \A k : k \in DOMAIN receivedMessage(G, s, t)
                <=> k \in DOMAIN s.msg /\ k \in Nums(t)
                    /\ (~lookupNum(s.type, k).repeated \/ receivedField(G, lookupNum(s.type, k), lookupNum(t, k), s.msg[k]) # <<>>)
          /\ \A k \in DOMAIN receivedMessage(G, s, t) :
                receivedMessage(G, s, t)[k] = receivedField(G, lookupNum(s.type, k), lookupNum(t, k), s.msg[k])
        BY ReceivedIs
    <2> QED BY <2>1, <2>2 DEF s
<1> HIDE DEF x
<1>4. /\ r2 = [k \in DOMAIN r2 |-> r2[k]]
      /\ \A k : k \in DOMAIN r2 <=> k \in DOMAIN x /\ k \in Nums(t) /\ (~Rep(k) \/ W(k, x[k]) # <<>>)
      /\ \A k \in DOMAIN r2 : r2[k] = W(k, x[k])
    <2> DEFINE s == Msg(u, x)
    <2>1. s.type = u /\ s.msg = x
        BY <1>1
    <2> HIDE DEF s
    <2>2. /\ receivedMessage(G, s, t) = [k \in DOMAIN receivedMessage(G, s, t) |-> receivedMessage(G, s, t)[k]]
          /\ \A k : k \in DOMAIN receivedMessage(G, s, t)
                <=> k \in DOMAIN s.msg /\ k \in Nums(t)
                    /\ (~lookupNum(s.type, k).repeated \/ receivedField(G, lookupNum(s.type, k), lookupNum(t, k), s.msg[k]) # <<>>)
          /\ \A k \in DOMAIN receivedMessage(G, s, t) :
                receivedMessage(G, s, t)[k] = receivedField(G, lookupNum(s.type, k), lookupNum(t, k), s.msg[k])
        BY ReceivedIs
    <2> QED BY <2>1, <2>2 DEF s
<1> DEFINE w == W(n, v)
<1>5. \A k : k # n => (k \in DOMAIN r2 <=> k \in DOMAIN r) /\ (k \in DOMAIN r => r2[k] = r[k])
    <2> HIDE DEF W, Rep, r, r2
    <2> SUFFICES ASSUME NEW k, k # n PROVE (k \in DOMAIN r2 <=> k \in DOMAIN r) /\ (k \in DOMAIN r => r2[k] = r[k])
        OBVIOUS
    <2>1. k \in DOMAIN x <=> k \in DOMAIN m
        BY <1>2
    <2>2. k \in DOMAIN m => x[k] = m[k]
        BY <1>2
    <2> QED BY <1>3, <1>4, <2>1, <2>2
<1>6. n \in DOMAIN r2 <=> n \in Nums(t) /\ (~Rep(n) \/ w # <<>>)
    <2> HIDE DEF W, Rep, r, r2
    <2> QED BY <1>2, <1>4
<1>7. n \in DOMAIN r2 => r2[n] = w
    <2> HIDE DEF W, Rep, r, r2
    <2> QED BY <1>2, <1>4
<1>8. n \notin Nums(t) => n \notin DOMAIN r
    BY <1>3
<1> HIDE DEF w, W, r, r2, Rep
<1>9. ASSUME n \notin DOMAIN r, n \notin DOMAIN r2 PROVE r2 = r
    <2>1. \A k : k \in DOMAIN r2 <=> k \in DOMAIN r
        BY <1>5, <1>9
    <2>2. \A k \in DOMAIN r2 : r2[k] = r[k]
        BY <1>5, <1>9
    <2> QED BY <1>3, <1>4, <2>1, <2>2, SameFunction
<1>10. ASSUME n \in DOMAIN r2 PROVE r2 = With(r, n, w)
    <2> DEFINE y == With(r, n, w)
    <2>1. /\ n \in DOMAIN y /\ y[n] = w /\ DOMAIN y = DOMAIN r \cup {n}
          /\ \A k \in DOMAIN r : k # n => y[k] = r[k]
        BY DEF With
    <2>2. y = [k \in DOMAIN y |-> y[k]]
        BY WithFunction
    <2> HIDE DEF y
    <2>3. \A k : k \in DOMAIN r2 <=> k \in DOMAIN y
        BY <1>5, <1>10, <2>1
    <2>4. \A k \in DOMAIN r2 : r2[k] = y[k]
        BY <1>5, <1>7, <1>10, <2>1
    <2>5. r2 = y
        BY <1>4, <2>2, <2>3, <2>4, SameFunction
    <2> QED BY <2>5 DEF y
<1>11. n \notin Nums(t) => r2 = r
    BY <1>6, <1>8, <1>9
<1>12. n \in Nums(t) /\ (~Rep(n) \/ w # <<>>) => r2 = With(r, n, w)
    BY <1>6, <1>10
<1>13. n \in Nums(t) /\ Rep(n) /\ w = <<>> /\ n \notin DOMAIN r => r2 = r
    BY <1>6, <1>9
<1>14. Changed(G, u, t, n, v, r, r2)
    BY <1>11, <1>12, <1>13 DEF Changed, w, W, Rep
<1> QED BY <1>14 DEF r, r2, x

\* What a receiver has of the n elements of v, from what it has of the list z of the others.
Front(G, f, g, v, n, z) ==
    LET w == receivedElements(G, f, g, z)[n - 1]
    IN  /\ IsList(z) /\ Len(z) = n - 1
        /\ receivedElements(G, f, g, v)[n] = IF f.type = "message" /\ v[n] = NoMessage THEN w
                                             ELSE Append(w, receivedOne(G, f, g, v[n]))

LEMMA ElementsFront ==
    ASSUME NEW G, NEW f, NEW g, NEW v, IsList(v), NEW n \in Nat, n >= 1, Len(v) = n,
           NEW z, z = SubSeq(v, 1, n - 1)
    PROVE  Front(G, f, g, v, n, z)
<1> DEFINE A == receivedElements(G, f, g, v)
           B == receivedElements(G, f, g, z)
           S == {d \in Nat : d =< n - 1 => A[d] = B[d]}
<1>1. n - 1 \in 0..n /\ n - 1 \in Nat
    OBVIOUS
<1>2. IsList(z) /\ Len(z) = n - 1 /\ \A k \in 1..(n - 1) : z[k] = v[k]
    BY <1>1, FrontOfList
<1>3. /\ \A d \in 0..n : A[d] = ElementsLevel(G, f, g, v, A, d)
      /\ \A d \in 0..(n - 1) : B[d] = ElementsLevel(G, f, g, z, B, d)
    <2>1. \A d \in 0..n : A[d] = ElementsLevel(G, f, g, v, A, d)
        BY ElementsAre
    <2>2. \A d \in 0..Len(z) : B[d] = ElementsLevel(G, f, g, z, B, d)
        <3>1. \A y : IsList(y) => \A d \in 0..Len(y) :
                  receivedElements(G, f, g, y)[d] = ElementsLevel(G, f, g, y, receivedElements(G, f, g, y), d)
            BY ElementsAre
        <3> QED BY <1>2, <3>1, Zenon
    <2> HIDE DEF A, B
    <2> QED BY <1>2, <2>1, <2>2
<1> HIDE DEF A, B
<1>4. 0 \in S
    BY <1>3 DEF ElementsLevel
<1>5. ASSUME NEW d \in Nat, d \in S
      PROVE  d + 1 \in S
    <2> SUFFICES ASSUME d + 1 =< n - 1 PROVE A[d + 1] = B[d + 1]
        OBVIOUS
    <2>1. d + 1 \in 0..n /\ d + 1 \in 0..(n - 1) /\ d + 1 \in 1..(n - 1) /\ d + 1 # 0 /\ (d + 1) - 1 = d /\ d =< n - 1
        OBVIOUS
    <2>2. A[d] = B[d] /\ z[d + 1] = v[d + 1]
        BY <1>2, <1>5, <2>1
    <2>3. \A c, u : ElementsLevel(G, f, g, c, u, d + 1)
                        = IF f.type = "message" /\ c[d + 1] = NoMessage THEN u[d]
                          ELSE Append(u[d], receivedOne(G, f, g, c[d + 1]))
        BY <2>1 DEF ElementsLevel
    <2> QED BY <1>3, <2>1, <2>2, <2>3
<1> HIDE DEF S
<1>6. n - 1 \in S
    BY <1>1, <1>4, <1>5, NatSetInduction
<1>7. A[n - 1] = B[n - 1]
    BY <1>1, <1>6 DEF S
<1>8. A[n] = IF f.type = "message" /\ v[n] = NoMessage THEN A[n - 1] ELSE Append(A[n - 1], receivedOne(G, f, g, v[n]))
    <2>1. n \in 0..n /\ n # 0
        OBVIOUS
    <2> QED BY <1>3, <2>1 DEF ElementsLevel
<1> QED BY <1>2, <1>7, <1>8 DEF A, B, Front

LEMMA ElementsList ==
    ASSUME NEW G, NEW f, NEW g, NEW v, IsList(v)
    PROVE  /\ receivedElements(G, f, g, v)[0] = <<>>
           /\ \A d \in 0..Len(v) : IsList(receivedElements(G, f, g, v)[d])
<1> DEFINE A == receivedElements(G, f, g, v)
           n == Len(v)
           S == {d \in Nat : d =< n => IsList(A[d])}
<1>1. n \in Nat /\ \A d \in 0..n : A[d] = ElementsLevel(G, f, g, v, A, d)
    BY ElementsAre
<1> HIDE DEF A, n
<1>2. A[0] = <<>>
    BY <1>1 DEF ElementsLevel
<1>3. 0 \in S
    BY <1>2, NoElements
<1>4. ASSUME NEW d \in Nat, d \in S
      PROVE  d + 1 \in S
    <2> SUFFICES ASSUME d + 1 =< n PROVE IsList(A[d + 1])
        OBVIOUS
    <2>1. d + 1 \in 0..n /\ d + 1 # 0 /\ (d + 1) - 1 = d /\ d =< n
        BY <1>1
    <2>2. IsList(A[d])
        BY <1>4, <2>1
    <2>3. A[d + 1] = A[d] \/ A[d + 1] = Append(A[d], receivedOne(G, f, g, v[d + 1]))
        BY <1>1, <2>1 DEF ElementsLevel
    <2> DEFINE a == A[d]
               x == receivedOne(G, f, g, v[d + 1])
    <2>4. IsList(a) /\ (A[d + 1] = a \/ A[d + 1] = Append(a, x))
        BY <2>2, <2>3
    <2> HIDE DEF a, x
    <2>5. IsList(Append(a, x))
        BY <2>4, AppendToList
    <2> QED BY <2>4, <2>5, Zenon
<1> HIDE DEF S
<1>5. Nat \subseteq S
    BY <1>3, <1>4, NatSetInduction
<1>6. \A d \in 0..n : IsList(A[d])
    BY <1>1, <1>5 DEF S
<1> QED BY <1>2, <1>6 DEF A, n

LEMMA FrontAndLast ==
    ASSUME NEW v, IsList(v), NEW d \in Nat, d + 1 =< Len(v)
    PROVE  Append(SubSeq(v, 1, d), v[d + 1]) = SubSeq(v, 1, d + 1)
<1> DEFINE a == SubSeq(v, 1, d)
           b == SubSeq(v, 1, d + 1)
           c == Append(a, v[d + 1])
<1>1. Len(v) \in Nat /\ d \in 0..Len(v) /\ d + 1 \in 0..Len(v)
    BY ListLen
<1>2. IsList(a) /\ Len(a) = d /\ \A k \in 1..d : a[k] = v[k]
    BY <1>1, FrontOfList
<1>3. IsList(b) /\ Len(b) = d + 1 /\ \A k \in 1..(d + 1) : b[k] = v[k]
    BY <1>1, FrontOfList
<1> HIDE DEF a, b
<1>4. IsList(c) /\ Len(c) = d + 1 /\ c[d + 1] = v[d + 1] /\ \A k \in 1..d : c[k] = a[k]
    BY <1>2, AppendToList
<1> HIDE DEF c
<1>5. \A k \in 1..(d + 1) : c[k] = b[k]
    <2>1. \A k \in 1..(d + 1) : k = d + 1 \/ k \in 1..d
        OBVIOUS
    <2> QED BY <1>2, <1>3, <1>4, <2>1
<1> QED BY <1>3, <1>4, <1>5, ListEqual DEF a, b, c

LEMMA ScalarElements ==
    ASSUME NEW G, NEW f, NEW g, f.type # "message", NEW v, IsList(v)
    PROVE  receivedElements(G, f, g, v)[Len(v)] = v
<1> DEFINE A == receivedElements(G, f, g, v)
           n == Len(v)
           S == {d \in Nat : d =< n => A[d] = SubSeq(v, 1, d)}
<1>1. n \in Nat /\ \A d \in 0..n : A[d] = ElementsLevel(G, f, g, v, A, d)
    BY ElementsAre
<1> HIDE DEF A
<1>2. 0 \in S
    <2>1. A[0] = <<>>
        BY <1>1 DEF ElementsLevel
    <2>2. IsList(SubSeq(v, 1, 0)) /\ Len(SubSeq(v, 1, 0)) = 0
        BY <1>1, FrontOfList
    <2> QED BY <2>1, <2>2, EmptyList
<1>3. ASSUME NEW d \in Nat, d \in S
      PROVE  d + 1 \in S
    <2> SUFFICES ASSUME d + 1 =< n PROVE A[d + 1] = SubSeq(v, 1, d + 1)
        OBVIOUS
    <2>1. d + 1 \in 0..n /\ d + 1 # 0 /\ (d + 1) - 1 = d /\ d =< n
        BY <1>1
    <2>2. A[d] = SubSeq(v, 1, d)
        BY <1>3, <2>1
    <2>3. A[d + 1] = Append(A[d], receivedOne(G, f, g, v[d + 1]))
        BY <1>1, <2>1 DEF ElementsLevel
    <2>4. receivedOne(G, f, g, v[d + 1]) = v[d + 1]
        BY DEF receivedOne
    <2> QED BY <2>2, <2>3, <2>4, FrontAndLast
<1> HIDE DEF S
<1>4. n \in S
    BY <1>1, <1>2, <1>3, NatSetInduction
<1>5. A[n] = SubSeq(v, 1, n)
    BY <1>1, <1>4 DEF S
<1> QED BY <1>5, WholeList DEF A, n

LEMMA StoreIs == \A m, f, v, w :
    /\ ~f.repeated => Store(m, f, v) = With(m, f.num, v) /\ MakeList(m, f) = m
    /\ f.repeated /\ (IF f.num \in DOMAIN m THEN m[f.num] = w ELSE w = <<>>)
           => Store(m, f, v) = With(m, f.num, Append(w, v))
    /\ Store(MakeList(m, f), f, v) = Store(m, f, v)
<1> SUFFICES ASSUME NEW m, NEW f, NEW v, NEW w
             PROVE  /\ ~f.repeated => Store(m, f, v) = With(m, f.num, v) /\ MakeList(m, f) = m
                    /\ f.repeated /\ (IF f.num \in DOMAIN m THEN m[f.num] = w ELSE w = <<>>)
                           => Store(m, f, v) = With(m, f.num, Append(w, v))
                    /\ Store(MakeList(m, f), f, v) = Store(m, f, v)
    OBVIOUS
<1> DEFINE n == f.num
           made == MakeList(m, f)
           q == With(m, n, <<>>)
<1>1. n \in DOMAIN q /\ q[n] = <<>> /\ \A y : With(q, n, y) = With(m, n, y)
    BY DEF With
<1> HIDE DEF q
<1>2. made = IF f.repeated /\ n \notin DOMAIN m THEN q ELSE m
    BY DEF MakeList, q
<1>3. \A y : Store(y, f, v) = With(MakeList(y, f), n, IF f.repeated THEN Append(MakeList(y, f)[n], v) ELSE v)
    BY DEF Store
<1>4. MakeList(made, f) = made
    <2>1. f.repeated => n \in DOMAIN made
        BY <1>1, <1>2
    <2> HIDE DEF made
    <2> QED BY <2>1 DEF MakeList
<1> HIDE DEF made
<1>5. Store(made, f, v) = Store(m, f, v)
    BY <1>3, <1>4 DEF made
<1>6. ~f.repeated => Store(m, f, v) = With(m, n, v) /\ made = m
    BY <1>2, <1>3 DEF made
<1>7. ASSUME f.repeated, IF n \in DOMAIN m THEN m[n] = w ELSE w = <<>>
      PROVE  Store(m, f, v) = With(m, n, Append(w, v))
    <2>1. Store(m, f, v) = With(made, n, Append(made[n], v))
        BY <1>3, <1>7 DEF made
    <2>2. made[n] = w
        BY <1>1, <1>2, <1>7
    <2>3. \A y : With(made, n, y) = With(m, n, y)
        BY <1>1, <1>2
    <2> QED BY <2>1, <2>2, <2>3
<1> QED BY <1>5, <1>6, <1>7 DEF made, n

\* What the piece x with the value e, or the list element e, adds to what a receiver has.
AddsOne(G, p, t, x, e, r, r2) ==
    LET f == lookupNum(p.type, x.num)
        g == lookupNum(t, x.num)
    IN  r2 = IF f.type = "message" /\ e = NoMessage THEN r ELSE Store(r, g, receivedOne(G, f, g, e))

LEMMA SingleAdds ==
    ASSUME NEW inner, NEW G, NEW p, IsMessage(p), NEW t, Reads(p.type, t), NEW m, NEW x, NEW e,
           IsSingle(inner, p, m, x, e), x.num \in DOMAIN p.msg, x.num \in Nums(t),
           NEW r, r = receivedMessage(G, Msg(p.type, m), t),
           NEW r2, r2 = receivedMessage(G, Msg(p.type, With(m, x.num, x.v)), t)
    PROVE  AddsOne(G, p, t, x, e, r, r2)
<1> DEFINE n == x.num
           f == lookupNum(p.type, n)
           g == lookupNum(t, n)
           one == receivedOne(G, f, g, e)
           w == receivedField(G, f, g, x.v)
<1>1. n \in Nums(p.type) /\ g.repeated = f.repeated /\ g.num = n
    <2>1. n \in Nums(p.type)
        BY ValueIs
    <2> QED BY <2>1, ReadsIs
<1>2. Changed(G, p.type, t, n, x.v, r, r2)
    BY ReceivedWith
<1>3. /\ ~f.repeated \/ w # <<>> => r2 = With(r, n, w)
      /\ f.repeated /\ w = <<>> /\ n \notin DOMAIN r => r2 = r
    BY <1>2 DEF Changed
<1>4. CASE ~f.repeated
    <2>1. x.v = e /\ (f.type = "message" => e # NoMessage)
        BY <1>4 DEF IsSingle
    <2>2. w = one
        BY <1>4, <2>1 DEF receivedField
    <2> HIDE DEF f, g, one, w, n
    <2>3. Store(r, g, one) = With(r, n, one)
        BY <1>1, <1>4, StoreIs
    <2>4. r2 = Store(r, g, one)
        BY <1>3, <1>4, <2>2, <2>3
    <2> QED BY <2>1, <2>4 DEF one, f, g, n, AddsOne
<1>5. CASE f.repeated
    <2> DEFINE l == Len(x.v)
               z == SubSeq(x.v, 1, l - 1)
               w0 == receivedElements(G, f, g, z)[l - 1]
    <2>1. /\ IsList(x.v) /\ l \in Nat /\ l >= 1 /\ x.v[l] = e
          /\ IF l = 1 THEN n \notin DOMAIN m ELSE n \in DOMAIN m /\ m[n] = z
        BY <1>5 DEF IsSingle
    <2>2. w = receivedElements(G, f, g, x.v)[l]
        BY <1>5 DEF receivedField
    <2>3. /\ IsList(z) /\ Len(z) = l - 1
          /\ receivedElements(G, f, g, x.v)[l]
                 = IF f.type = "message" /\ x.v[l] = NoMessage THEN w0
                   ELSE Append(w0, receivedOne(G, f, g, x.v[l]))
        <3> DEFINE y == x.v
        <3>1. l \in Nat /\ l >= 1 /\ IsList(y) /\ z = SubSeq(y, 1, l - 1) /\ Len(y) = l
            BY <2>1
        <3> HIDE DEF f, g, l, z, y
        <3>2. Front(G, f, g, y, l, z)
            BY <3>1, ElementsFront
        <3> QED BY <3>2 DEF y, Front
    <2>4. w = IF f.type = "message" /\ e = NoMessage THEN w0 ELSE Append(w0, one)
        BY <2>1, <2>2, <2>3
    <2>5. receivedElements(G, f, g, z)[0] = <<>> /\ IsList(w0)
        <3>1. IsList(z) /\ l - 1 \in 0..Len(z)
            BY <2>1, <2>3
        <3> HIDE DEF f, g, l, z
        <3> QED BY <3>1, ElementsList
    <2>6. IF n \in DOMAIN r THEN r[n] = w0 ELSE w0 = <<>>
        <3> DEFINE s == Msg(p.type, m)
        <3>1. s.type = p.type /\ s.msg = m
            BY DEF Msg
        <3> HIDE DEF s
        <3>2. /\ n \in DOMAIN r <=> /\ n \in DOMAIN m /\ n \in Nums(t)
                                    /\ ~f.repeated \/ receivedField(G, f, g, m[n]) # <<>>
              /\ n \in DOMAIN r => r[n] = receivedField(G, f, g, m[n])
            <4>1. r = receivedMessage(G, s, t)
                BY DEF s
            <4>2. /\ n \in DOMAIN r <=> /\ n \in DOMAIN s.msg /\ n \in Nums(t)
                                        /\ ~lookupNum(s.type, n).repeated
                                           \/ receivedField(G, lookupNum(s.type, n), lookupNum(t, n), s.msg[n]) # <<>>
                  /\ n \in DOMAIN r => r[n] = receivedField(G, lookupNum(s.type, n), lookupNum(t, n), s.msg[n])
                BY <4>1, ReceivedIs
            <4> QED BY <3>1, <4>2
        <3>3. CASE l = 1
            <4>1. l - 1 = 0
                BY <3>3
            <4>2. w0 = <<>>
                BY <2>5, <4>1
            <4> QED BY <2>1, <3>2, <3>3, <4>2
        <3>4. CASE l # 1
            <4>1. receivedField(G, f, g, m[n]) = w0
                BY <1>5, <2>1, <2>3, <3>4 DEF receivedField
            <4> HIDE DEF f, g, w0, l, z
            <4> QED BY <1>5, <2>1, <3>2, <3>4, <4>1
        <3> QED BY <3>3, <3>4
    <2>7. Len(<<>>) = 0
        OBVIOUS
    <2> HIDE DEF w0, w, one, f, g, n, l, z
    <2>8. CASE f.type = "message" /\ e = NoMessage
        <3>1. CASE w0 = <<>>
            <4>1. w = <<>>
                BY <2>4, <2>8, <3>1
            <4>2. ASSUME n \in DOMAIN r PROVE FALSE
                <5>1. n \in DOMAIN r /\ w0 # <<>>
                    <6> DEFINE s == Msg(p.type, m)
                    <6>1. s.type = p.type /\ s.msg = m /\ r = receivedMessage(G, s, t)
                        BY DEF Msg
                    <6> HIDE DEF s
                    <6>2. /\ ~lookupNum(s.type, n).repeated
                             \/ receivedField(G, lookupNum(s.type, n), lookupNum(t, n), s.msg[n]) # <<>>
                          /\ r[n] = receivedField(G, lookupNum(s.type, n), lookupNum(t, n), s.msg[n])
                        BY <4>2, <6>1, ReceivedIs
                    <6>3. r[n] # <<>>
                        BY <1>5, <6>1, <6>2 DEF f
                    <6> QED BY <2>6, <4>2, <6>3
                <5> QED BY <3>1, <5>1
            <4>4. r2 = r
                BY <1>3, <1>5, <4>1, <4>2
            <4> QED BY <2>8, <4>4 DEF f, n, AddsOne
        <3>2. CASE w0 # <<>>
            <4> DEFINE y == With(r, n, w0)
            <4>1. r2 = y /\ n \in DOMAIN r /\ r[n] = w0
                BY <1>3, <2>4, <2>6, <2>8, <3>2
            <4>2. DOMAIN y = DOMAIN r \cup {n} /\ y[n] = w0 /\ \A k \in DOMAIN r : k # n => y[k] = r[k]
                BY DEF With
            <4>3. y = [k \in DOMAIN y |-> y[k]] /\ r = [k \in DOMAIN r |-> r[k]]
                BY WithFunction, ReceivedIs
            <4> HIDE DEF y
            <4>4. \A k : k \in DOMAIN y <=> k \in DOMAIN r
                BY <4>1, <4>2
            <4>5. \A k \in DOMAIN y : y[k] = r[k]
                BY <4>1, <4>2
            <4>6. y = r
                BY <4>3, <4>4, <4>5, SameFunction
            <4> QED BY <2>8, <4>1, <4>6 DEF f, n, AddsOne
        <3> QED BY <3>1, <3>2
    <2>9. CASE ~(f.type = "message" /\ e = NoMessage)
        <3>1. w = Append(w0, one)
            BY <2>4, <2>9
        <3>2. w # <<>>
            <4>1. Len(Append(w0, one)) = Len(w0) + 1 /\ Len(w0) \in Nat
                BY <2>5, AppendToList, ListLen
            <4> QED BY <2>7, <3>1, <4>1
        <3>3. r2 = With(r, n, Append(w0, one))
            BY <1>3, <3>1, <3>2
        <3>4. Store(r, g, one) = With(r, n, Append(w0, one))
            <4>1. g.num = n /\ g.repeated
                BY <1>1, <1>5
            <4>2. IF g.num \in DOMAIN r THEN r[g.num] = w0 ELSE w0 = <<>>
                BY <2>6, <4>1
            <4>3. Store(r, g, one) = With(r, g.num, Append(w0, one))
                BY <4>1, <4>2, StoreIs
            <4> QED BY <4>1, <4>3
        <3>5. r2 = Store(r, g, one)
            BY <3>3, <3>4
        <3> QED BY <2>9, <3>5 DEF f, g, n, one, AddsOne
    <2> QED BY <2>8, <2>9
<1> QED BY <1>4, <1>5

\* What the piece x of p adds to what a receiver has: r2 after r.
Adds(inner, G, p, m, x, t, r, r2) ==
    LET n == x.num
        f == lookupNum(p.type, n)
        g == lookupNum(t, n)
    IN  /\ x.bytes = <<>> \/ n \notin Nums(t) => r2 = r
        /\ n \in Nums(t) /\ x.bytes # <<>> /\ IsPacked(p, m, x) => n \notin DOMAIN r /\ r2 = With(r, n, x.v)
        /\ \A e : n \in Nums(t) /\ x.bytes # <<>> /\ IsSingle(inner, p, m, x, e)
                      => r2 = Store(r, g, receivedOne(G, f, g, e))

LEMMA AddsIs ==
    ASSUME NEW inner, NEW G, NEW p, IsMessage(p), NEW t, Reads(p.type, t), NEW m, NEW x,
           PieceOf(inner, p, m, x), \A q \in nested(p) : inner[q] \in Seq(Byte),
           NEW r, r = receivedMessage(G, Msg(p.type, m), t),
           NEW r2, r2 = receivedMessage(G, Msg(p.type, With(m, x.num, x.v)), t)
    PROVE  Adds(inner, G, p, m, x, t, r, r2)
<1> DEFINE n == x.num
           f == lookupNum(p.type, n)
           g == lookupNum(t, n)
           w == receivedField(G, f, g, x.v)
<1>1. n \in DOMAIN p.msg /\ (IsPacked(p, m, x) \/ \E e : IsSingle(inner, p, m, x, e))
    BY PieceKinds
<1>2. f \in FieldSchema /\ n \in Nums(p.type)
    BY <1>1, ValueIs
<1>3. Changed(G, p.type, t, n, x.v, r, r2)
    BY ReceivedWith
<1>4. n \notin Nums(t) => r2 = r
    BY <1>3 DEF Changed
<1>5. ASSUME n \in Nums(t), IsPacked(p, m, x)
      PROVE  /\ x.bytes = <<>> => r2 = r
             /\ x.bytes # <<>> => n \notin DOMAIN r /\ r2 = With(r, n, x.v)
    <2>1. /\ Packable(f) /\ n \notin DOMAIN m /\ IsList(x.v) /\ (\A j \in DOMAIN x.v : FitsOne(f, x.v[j]))
          /\ x.bytes = appendPacked(f, x.v)
        BY <1>5 DEF IsPacked
    <2>2. f.repeated /\ f.type # "message"
        BY <2>1 DEF Packable
    <2>3. w = x.v
        BY <2>1, <2>2, ScalarElements DEF receivedField
    <2>4. x.v = <<>> <=> x.bytes = <<>>
        <3> DEFINE v == x.v
        <3>1. IsList(v) /\ \A j \in DOMAIN v : FitsOne(f, v[j])
            BY <2>1
        <3> HIDE DEF f, v
        <3>2. (v = <<>> => appendPacked(f, v) = <<>>) /\ (v # <<>> => Len(appendPacked(f, v)) >= 1)
            BY <1>2, <2>1, <3>1, PackedBytes
        <3>3. ~(Len(<<>>) >= 1)
            OBVIOUS
        <3> QED BY <2>1, <3>2, <3>3 DEF v
    <2>5. n \notin DOMAIN r
        <3>1. Msg(p.type, m).msg = m
            BY DEF Msg
        <3> QED BY <2>1, <3>1, ReceivedIs
    <2> HIDE DEF f, g
    <2>6. w = <<>> => r2 = r
        BY <1>3, <1>5, <2>2, <2>5 DEF Changed, f, g
    <2>7. w # <<>> => r2 = With(r, n, w)
        BY <1>3, <1>5 DEF Changed, f, g
    <2> HIDE DEF w
    <2> QED BY <2>3, <2>4, <2>5, <2>6, <2>7
<1>6. ASSUME n \in Nums(t), NEW e, IsSingle(inner, p, m, x, e)
      PROVE  /\ x.bytes = <<>> => r2 = r
             /\ x.bytes # <<>> => r2 = Store(r, g, receivedOne(G, f, g, e))
    <2>1. r2 = IF f.type = "message" /\ e = NoMessage THEN r ELSE Store(r, g, receivedOne(G, f, g, e))
        <3>1. AddsOne(G, p, t, x, e, r, r2)
            BY <1>1, <1>6, SingleAdds
        <3> QED BY <3>1 DEF AddsOne
    <2>2. x.bytes = appendProtoSingle(inner, f, e)
        BY <1>6 DEF IsSingle
    <2>3. f.type # "message" => FitsOne(f, e)
        BY <1>6 DEF IsSingle
    <2>4. f.type = "message" /\ e # NoMessage => inner[Msg(f.schema, e)] \in Seq(Byte)
        BY <1>6 DEF IsSingle
    <2> HIDE DEF f, g
    <2>5. HasBytes(inner, f, e)
        BY <1>2, <2>3, <2>4, SingleBytes
    <2>6. /\ Len(appendProtoSingle(inner, f, e)) = 0 <=> f.type = "message" /\ e = NoMessage
          /\ appendProtoSingle(inner, f, e) \in Seq(Byte)
        BY <2>5 DEF HasBytes
    <2>7. x.bytes = <<>> <=> Len(x.bytes) = 0
        BY <2>2, <2>6, EmptySeq
    <2> QED BY <2>1, <2>2, <2>6, <2>7
<1>7. x.bytes = <<>> \/ n \notin Nums(t) => r2 = r
    BY <1>1, <1>4, <1>5, <1>6
<1>8. n \in Nums(t) /\ x.bytes # <<>> /\ IsPacked(p, m, x) => n \notin DOMAIN r /\ r2 = With(r, n, x.v)
    BY <1>5
<1>9. \A e : n \in Nums(t) /\ x.bytes # <<>> /\ IsSingle(inner, p, m, x, e)
                 => r2 = Store(r, g, receivedOne(G, f, g, e))
    BY <1>6
<1> QED BY <1>7, <1>8, <1>9 DEF Adds

-----------------------------------------------------------------------------
(* What a receiver has of a part after its first pieces *)

Got(s, p, t, k) ==
    receivedMessage(receivedParts(s)[Depth], carried(p.type, pieces(encodings(s)[Depth], p))[k], t)

\* It begins with nothing, and with all pieces it is what a receiver has of the part.
LEMMA GotEnds ==
    ASSUME NEW s, \A p \in parts(s) : IsMessage(p), NEW p \in parts(s), NEW t \in Type
    PROVE  /\ Got(s, p, t, 0) = <<>>
           /\ Got(s, p, t, Len(pieces(encodings(s)[Depth], p))) = receivedParts(s)[Depth][p][t]
<1> DEFINE e == encodings(s)[Depth]
           G == receivedParts(s)[Depth]
           ps == pieces(e, p)
           C == carried(p.type, ps)
           N == Len(ps)
<1>1. Encoded(e, p, ps, e[p])
    BY PartEncoded
<1>2. G[p][t] = receivedMessage(G, p, t)
    BY ReceivedFix
<1>3. IsMessage(p)
    OBVIOUS
<1> HIDE DEF e, G, ps
<1>4. IsList(ps) /\ N \in Nat /\ Carries(p, Nums(p.type), C[N].msg)
    BY <1>1 DEF Encoded
<1>5. C[0].msg = <<>> /\ C[N].type = p.type
    <2>1. N \in 0..N
        BY <1>4
    <2> QED BY <1>4, <2>1, CarriedNext
<1> HIDE DEF C
<1>6. receivedMessage(G, C[0], t) = <<>>
    <2> DEFINE r == receivedMessage(G, C[0], t)
    <2>1. r = [n \in DOMAIN r |-> r[n]] /\ \A n : n \in DOMAIN r => n \in DOMAIN C[0].msg
        BY ReceivedIs
    <2>2. DOMAIN <<>> = {}
        BY NoElements
    <2> HIDE DEF r
    <2>3. DOMAIN r = {}
        BY <1>5, <2>1, <2>2
    <2>4. <<>> = [n \in {} |-> r[n]]
        OBVIOUS
    <2>5. r = <<>>
        BY <2>1, <2>3, <2>4
    <2> QED BY <2>5 DEF r
<1>7. receivedMessage(G, C[N], t) = receivedMessage(G, p, t)
    <2> DEFINE m == C[N].msg
               a == receivedMessage(G, C[N], t)
               b == receivedMessage(G, p, t)
               W(n, y) == receivedField(G, lookupNum(p.type, n), lookupNum(t, n), y)
               Rep(n) == lookupNum(p.type, n).repeated
    <2>1. /\ a = [n \in DOMAIN a |-> a[n]]
          /\ \A n : n \in DOMAIN a <=> n \in DOMAIN m /\ n \in Nums(t) /\ (~Rep(n) \/ W(n, m[n]) # <<>>)
          /\ \A n \in DOMAIN a : a[n] = W(n, m[n])
        BY <1>5, ReceivedIs
    <2>2. /\ b = [n \in DOMAIN b |-> b[n]]
          /\ \A n : n \in DOMAIN b <=> n \in DOMAIN p.msg /\ n \in Nums(t) /\ (~Rep(n) \/ W(n, p.msg[n]) # <<>>)
          /\ \A n \in DOMAIN b : b[n] = W(n, p.msg[n])
        BY ReceivedIs
    <2>3. \A n \in DOMAIN m : n \in DOMAIN p.msg /\ m[n] = p.msg[n]
        BY <1>4 DEF Carries
    <2>4. ASSUME NEW n \in DOMAIN p.msg, n \notin DOMAIN m
          PROVE  Rep(n) /\ W(n, p.msg[n]) = <<>>
        <3>1. n \in Nums(p.type)
            BY <1>3, ValueIs
        <3>2. NotCarried(p, n)
            BY <1>4, <2>4, <3>1 DEF Carries
        <3>3. Rep(n) /\ p.msg[n] = <<>>
            BY <3>2 DEF NotCarried
        <3> DEFINE f == lookupNum(p.type, n)
                   g == lookupNum(t, n)
        <3>4. f.repeated
            BY <3>3
        <3> HIDE DEF f, g
        <3>5. receivedElements(G, f, g, <<>>)[0] = <<>> /\ Len(<<>>) = 0
            BY NoElements, ElementsList
        <3>6. receivedField(G, f, g, <<>>) = <<>>
            BY <3>4, <3>5 DEF receivedField
        <3> QED BY <3>3, <3>6 DEF f, g
    <2> HIDE DEF W, Rep, a, b, m
    <2>5. \A n : n \in DOMAIN a <=> n \in DOMAIN b
        BY <2>1, <2>2, <2>3, <2>4
    <2>6. \A n \in DOMAIN a : a[n] = b[n]
        BY <2>1, <2>2, <2>3, <2>5
    <2>7. a = b
        BY <2>1, <2>2, <2>5, <2>6, SameFunction
    <2> QED BY <2>7 DEF a, b
<1> QED BY <1>2, <1>6, <1>7 DEF Got, e, G, ps, C

LEMMA GotNext ==
    ASSUME NEW s, \A p \in parts(s) : IsMessage(p), NEW p \in parts(s), NEW t, Reads(p.type, t),
           NEW e, e = encodings(s)[Depth], NEW ps, ps = pieces(e, p), NEW k \in 1..Len(ps)
    PROVE  Adds(e, receivedParts(s)[Depth], p, carried(p.type, ps)[k - 1].msg, ps[k], t,
                Got(s, p, t, k - 1), Got(s, p, t, k))
<1> DEFINE G == receivedParts(s)[Depth]
           C == carried(p.type, ps)
           m == C[k - 1].msg
           x == ps[k]
           r == Got(s, p, t, k - 1)
           r2 == Got(s, p, t, k)
<1>1. Encoded(e, p, ps, e[p])
    BY PartEncoded
<1>2. IsList(ps) /\ Len(ps) \in Nat /\ PieceOf(e, p, m, x)
    BY <1>1 DEF Encoded
<1>3. C[k - 1] = Msg(p.type, m) /\ C[k] = Msg(p.type, With(m, x.num, x.v))
    <2>1. k - 1 \in 0..Len(ps) /\ k \in 0..Len(ps)
        BY <1>2
    <2> QED BY <1>2, <2>1, CarriedNext
<1>4. r = receivedMessage(G, C[k - 1], t) /\ r2 = receivedMessage(G, C[k], t)
    BY DEF Got
<1>5. IsMessage(p) /\ \A q \in nested(p) : e[q] \in Seq(Byte)
    BY EncodingBytes, PartIs
<1> HIDE DEF G, C, m, x, r, r2
<1>6. Adds(e, G, p, m, x, t, r, r2)
    BY <1>2, <1>3, <1>4, <1>5, AddsIs
<1> QED BY <1>6 DEF G, C, m, x, r, r2

\* Pieces that add no bytes add nothing.
LEMMA GotSame ==
    ASSUME NEW s, \A p \in parts(s) : IsMessage(p), NEW p \in parts(s), NEW t, Reads(p.type, t),
           NEW e, e = encodings(s)[Depth], NEW ps, ps = pieces(e, p),
           NEW k \in 0..Len(ps), NEW l \in 0..Len(ps), k =< l,
           Len(joined(ps)[k]) = Len(joined(ps)[l])
    PROVE  Got(s, p, t, k) = Got(s, p, t, l)
<1> DEFINE J == joined(ps)
           N == Len(ps)
           B == BytesOf(ps)
           R(i) == Got(s, p, t, i)
           S == {j \in Nat : j =< N => \A i \in 0..j : Len(J[i]) = Len(J[j]) => R(i) = R(j)}
<1>1. N \in Nat /\ Built(J, B, N)
    <2>1. Encoded(e, p, ps, e[p])
        BY PartEncoded
    <2> QED BY <2>1 DEF Encoded
<1>2. \A i \in 1..N : B[i] = ps[i].bytes
    BY DEF BytesOf
<1>3. \A i \in 1..N : ps[i].bytes = <<>> => R(i) = R(i - 1)
    <2> SUFFICES ASSUME NEW i \in 1..N, ps[i].bytes = <<>> PROVE R(i) = R(i - 1)
        OBVIOUS
    <2>1. Adds(e, receivedParts(s)[Depth], p, carried(p.type, ps)[i - 1].msg, ps[i], t, R(i - 1), R(i))
        BY GotNext
    <2> HIDE DEF R
    <2> QED BY <2>1 DEF Adds
<1> HIDE DEF J, B, R
<1>4. InOrder(J, B, N) /\ \A i \in 1..N : B[i] \in Seq(Byte)
    BY <1>1, BuiltInOrder DEF Built
<1>5. 0 \in S
    OBVIOUS
<1>6. ASSUME NEW j \in Nat, j \in S
      PROVE  j + 1 \in S
    <2> SUFFICES ASSUME j + 1 =< N, NEW i \in 0..(j + 1), Len(J[i]) = Len(J[j + 1]) PROVE R(i) = R(j + 1)
        OBVIOUS
    <2>1. j =< N /\ j \in 0..N /\ j + 1 \in 0..N /\ j + 1 \in 1..N /\ (j + 1) - 1 = j /\ i \in 0..N
        BY <1>1
    <2>2. CASE i = j + 1
        BY <2>2
    <2>3. CASE i # j + 1
        <3>1. i \in 0..j
            BY <2>3
        <3>2. /\ Len(J[i]) =< Len(J[j]) /\ Len(J[j + 1]) = Len(J[j]) + Len(B[j + 1])
              /\ Len(J[i]) \in Nat /\ Len(J[j]) \in Nat /\ Len(B[j + 1]) \in Nat
            <4>1. i \in 0..N /\ i =< j
                BY <2>1, <3>1
            <4>2. Len(J[i]) =< Len(J[j])
                BY <1>4, <2>1, <4>1 DEF InOrder
            <4>3. Len(J[j + 1]) = Len(J[(j + 1) - 1]) + Len(B[j + 1]) /\ Len(B[j + 1]) \in Nat
                BY <1>4, <2>1 DEF InOrder
            <4>4. Len(J[i]) \in Nat /\ Len(J[j]) \in Nat
                BY <1>4, <2>1 DEF InOrder
            <4> QED BY <2>1, <4>2, <4>3, <4>4
        <3>3. Len(J[i]) = Len(J[j]) /\ Len(B[j + 1]) = 0
            <4>1. \A a, b, c, d \in Nat : a =< b /\ d = b + c /\ a = d => a = b /\ c = 0
                OBVIOUS
            <4>2. Len(J[j + 1]) \in Nat
                BY <1>4, <2>1 DEF InOrder
            <4> QED BY <3>2, <4>1, <4>2
        <3>4. B[j + 1] = <<>>
            BY <1>4, <2>1, <3>3, EmptySeq
        <3>5. R(j + 1) = R(j)
            BY <1>2, <1>3, <2>1, <3>4
        <3>6. R(i) = R(j)
            BY <1>6, <2>1, <3>1, <3>3
        <3> QED BY <3>5, <3>6
    <2> QED BY <2>2, <2>3
<1> HIDE DEF S
<1>7. l \in S
    BY <1>1, <1>5, <1>6, NatSetInduction
<1>8. R(k) = R(l)
    BY <1>1, <1>7 DEF S, J
<1> QED BY <1>8 DEF R

\* Where bytes remain there is a piece with bytes.
LEMMA NextPiece ==
    ASSUME NEW J, NEW B, NEW n, Built(J, B, n), NEW k \in 0..n, Len(J[k]) < Len(J[n])
    PROVE  \E l \in 1..n : /\ k =< l - 1 /\ l - 1 \in 0..n
                           /\ Len(J[l - 1]) = Len(J[k]) /\ Len(B[l]) >= 1 /\ B[l] \in Seq(Byte)
<1> DEFINE S == {l \in Nat : l =< n /\ Len(J[l]) > Len(J[k])}
<1>1. n \in Nat /\ InOrder(J, B, n) /\ n \in 0..n /\ \A i \in 1..n : B[i] \in Seq(Byte)
    <2>1. n \in Nat /\ \A i \in 1..n : B[i] \in Seq(Byte)
        BY DEF Built
    <2>2. InOrder(J, B, n)
        BY BuiltInOrder
    <2> QED BY <2>1, <2>2
<1>2. n \in S
    BY <1>1 DEF InOrder
<1>3. PICK l \in S : \A i \in S : l =< i
    BY <1>2, LeastNat
<1>4. l \in 0..n /\ Len(J[l]) > Len(J[k]) /\ Len(J[l]) \in Nat /\ Len(J[k]) \in Nat
    BY <1>1, <1>3 DEF InOrder
<1>5. ~(l =< k)
    BY <1>1, <1>4 DEF InOrder
<1>6. l \in 1..n /\ l - 1 \in 0..n /\ k =< l - 1 /\ l - 1 \in Nat
    BY <1>1, <1>4, <1>5
<1>7. l - 1 \notin S
    BY <1>3, <1>6
<1>8. ~(Len(J[l - 1]) > Len(J[k]))
    BY <1>1, <1>6, <1>7
<1>9. Len(J[k]) =< Len(J[l - 1]) /\ Len(J[l - 1]) \in Nat /\ Len(J[l]) = Len(J[l - 1]) + Len(B[l]) /\ Len(B[l]) \in Nat
    BY <1>1, <1>6 DEF InOrder
<1>10. Len(J[l - 1]) = Len(J[k]) /\ Len(B[l]) >= 1
    <2>1. \A a, b, c, d \in Nat : a =< b /\ ~(b > a) /\ d = b + c /\ d > a => b = a /\ c >= 1
        OBVIOUS
    <2> QED BY <1>4, <1>8, <1>9, <2>1
<1> QED BY <1>1, <1>6, <1>10

-----------------------------------------------------------------------------
(* Reading a piece *)

\* The key of the field f, with the wire type w, at i, and bytes c after it.
KeyIsRead(data, i, f, w, c) ==
    LET k == consumeVarint(data, i)
        l == Len(appendKey(f, w))
    IN  /\ l \in Nat /\ l >= 1 /\ Len(appendKey(f, w) \o c) = l + Len(c) /\ Len(c) \in Nat
        /\ IF i + l =< Len(data)
           THEN /\ k.n = l /\ k.v \div 8 = f.num /\ k.v % 8 = w
                /\ Has(data, i + l, c) /\ i + l \in 0..Len(data)
           ELSE k.n = 0

LEMMA KeyRead ==
    ASSUME NEW t \in Type, NEW n \in Nums(t), NEW f, f = lookupNum(t, n), NEW w \in 0..7,
           NEW data \in Seq(Byte), NEW i \in 0..Len(data), NEW c \in Seq(Byte),
           Has(data, i, appendKey(f, w) \o c)
    PROVE  KeyIsRead(data, i, f, w, c)
<1> DEFINE v == f.num * 8 + w
           a == appendKey(f, w)
           k == consumeVarint(data, i)
<1>1. f \in FieldSchema /\ f.num \in Nat /\ f.num * 8 + 7 < Size64
    <2>1. f \in FieldSchema /\ f.num = n /\ n \in Nat
        BY LookupIs
    <2>2. PICK j \in DOMAIN Fields[t] : f = Fields[t][j]
        BY DEF Nums, lookupNum
    <2> QED BY <2>1, <2>2, WireAssumption
<1>2. Len(data) \in Nat /\ i \in Nat /\ Size64 \in Nat
    BY LenProperties, GroupWeightBelow
<1>3. v \in 0..(Size64 - 1) /\ v = 8 * f.num + w
    BY <1>1, <1>2
<1>4. v % 8 = w /\ v \div 8 = f.num
    <2>1. 8 \in Nat \ {0} /\ w \in 0..(8 - 1)
        OBVIOUS
    <2> HIDE DEF v
    <2> QED BY <1>1, <1>3, <2>1, RemainderIs
<1>5. a = appendVarint(v)
    BY DEF appendKey
<1>6. a \in Seq(Byte) /\ Len(a) \in Nat /\ Len(a) >= 1
    BY <1>1, KeyBytes
<1> HIDE DEF a, v
<1>7. /\ Has(data, i, a) /\ Has(data, i + Len(a), c)
      /\ Len(a \o c) = Len(a) + Len(c) /\ Len(c) \in Nat
    <2>1. Has(data, i, a \o c)
        BY DEF a
    <2> QED BY <1>2, <1>6, <2>1, JoinedHas, BytesJoined
<1>8. CASE i + Len(a) =< Len(data)
    <2>1. k.v = v /\ k.n = Len(a)
        <3>1. Has(data, i, appendVarint(v)) /\ i + Len(appendVarint(v)) =< Len(data)
            BY <1>5, <1>7, <1>8
        <3> HIDE DEF k
        <3>2. consumeVarint(data, i).v = v /\ consumeVarint(data, i).n = Len(appendVarint(v))
            BY <1>3, <3>1, VarintWhole
        <3> QED BY <1>5, <3>2 DEF k
    <2> HIDE DEF k
    <2> QED BY <1>2, <1>4, <1>6, <1>7, <1>8, <2>1 DEF KeyIsRead, a, k
<1>9. CASE ~(i + Len(a) =< Len(data))
    <2>1. k.n = 0
        <3>1. Has(data, i, appendVarint(v)) /\ i + Len(appendVarint(v)) > Len(data)
            BY <1>2, <1>5, <1>6, <1>7, <1>9
        <3> QED BY <1>3, <3>1, VarintCut
    <2> HIDE DEF k
    <2> QED BY <1>6, <1>7, <1>9, <2>1 DEF KeyIsRead, a, k
<1> QED BY <1>8, <1>9

\* The bytes b of a piece of the field f, with the payload v, are read at i, or only a
\* beginning of them is there.
PieceIsRead(data, i, f, b, v) ==
    LET k == consumeVarint(data, i)
        next == i + k.n
        w == k.v % 8
        done == i + Len(b) =< Len(data)
        skipped == skipField(data, next, w)
        inBytes == Packable(f) \/ f.type = "message"
    IN  /\ k.n = 0 => ~done
        /\ k.n # 0 =>
              /\ k.v \div 8 = f.num /\ w \notin {6, 7}
              /\ skipped.err = (IF done THEN "nil" ELSE "ErrTruncated")
              /\ done => skipped.i = i + Len(b)
              /\ w = IF inBytes THEN 2 ELSE wireTypeFor(f.type)
              /\ (IF inBytes THEN readBytes(data, next) ELSE decodeProtoScalar(data, next, f.type))
                     = IF done THEN Read(v, i + Len(b)) ELSE Truncated

LEMMA BytesPieceRead ==
    ASSUME NEW t \in Type, NEW n \in Nums(t), NEW f, f = lookupNum(t, n),
           Packable(f) \/ f.type = "message",
           NEW data \in Seq(Byte), NEW i \in 0..Len(data), NEW v \in Seq(Byte), HasRoom(v),
           NEW b, b = appendKey(f, 2) \o appendBytes(v), Has(data, i, b)
    PROVE  PieceIsRead(data, i, f, b, v)
<1> DEFINE k == consumeVarint(data, i)
           l == Len(appendKey(f, 2))
           c == appendBytes(v)
<1>1. c \in Seq(Byte)
    BY appendBytesIs
<1>2. KeyIsRead(data, i, f, 2, c)
    <2>1. Has(data, i, appendKey(f, 2) \o c) /\ 2 \in 0..7
        OBVIOUS
    <2> HIDE DEF c
    <2> QED BY <1>1, <2>1, KeyRead
<1>3. Len(data) \in Nat /\ i \in Nat
    BY LenProperties
<1>4. l \in Nat /\ l >= 1 /\ Len(b) = l + Len(c) /\ Len(c) \in Nat
    BY <1>2 DEF KeyIsRead
<1> HIDE DEF c
<1>5. CASE i + l =< Len(data)
    <2>1. k.n = l /\ k.v \div 8 = f.num /\ k.v % 8 = 2 /\ Has(data, i + l, c) /\ i + l \in 0..Len(data)
        BY <1>2, <1>5 DEF KeyIsRead
    <2> HIDE DEF l, k
    <2>2. Decodes(readBytes(data, i + l), v, data, i + l, c)
        BY <2>1, BytesDecode DEF c
    <2>3. (i + l) + Len(c) = i + Len(b)
        <3> DEFINE lc == Len(c)
                   lb == Len(b)
        <3>1. i \in Nat /\ l \in Nat /\ lc \in Nat /\ lb = l + lc
            BY <1>3, <1>4
        <3> HIDE DEF lc, lb
        <3>2. (i + l) + lc = i + lb
            BY <3>1
        <3> QED BY <3>2 DEF lc, lb
    <2>4. readBytes(data, i + l) = IF i + Len(b) =< Len(data) THEN Read(v, i + Len(b)) ELSE Truncated
        BY <2>2, <2>3 DEF Decodes
    <2>5. skipField(data, i + l, 2) = readBytes(data, i + l)
        BY DEF skipField
    <2>6. l # 0
        BY <1>4
    <2> DEFINE done == i + Len(b) =< Len(data)
               rb == readBytes(data, i + l)
    <2>7. rb.err = (IF done THEN "nil" ELSE "ErrTruncated") /\ (done => rb.i = i + Len(b))
        BY <2>4 DEF Read, Truncated
    <2> HIDE DEF done, rb
    <2>8. rb = IF done THEN Read(v, i + Len(b)) ELSE Truncated
        BY <2>4 DEF done, rb
    <2>9. skipField(data, i + k.n, k.v % 8) = rb /\ readBytes(data, i + k.n) = rb
        BY <2>1, <2>5 DEF rb
    <2>10. 2 \notin {6, 7}
        OBVIOUS
    <2> QED BY <2>1, <2>6, <2>7, <2>8, <2>9, <2>10 DEF PieceIsRead, k, done
<1>6. CASE ~(i + l =< Len(data))
    <2>1. k.n = 0
        BY <1>2, <1>6 DEF KeyIsRead
    <2>2. ~(i + Len(b) =< Len(data))
        BY <1>3, <1>4, <1>6
    <2> HIDE DEF k
    <2> QED BY <2>1, <2>2 DEF PieceIsRead, k
<1> QED BY <1>5, <1>6

LEMMA ScalarPieceRead ==
    ASSUME NEW t \in Type, NEW n \in Nums(t), NEW f, f = lookupNum(t, n),
           ~Packable(f), f.type # "message",
           NEW data \in Seq(Byte), NEW i \in 0..Len(data), NEW v, FitsOne(f, v), Short(f, v),
           NEW b, b = appendKey(f, wireTypeFor(f.type)) \o appendScalar(f.type, v), Has(data, i, b)
    PROVE  PieceIsRead(data, i, f, b, v)
<1> DEFINE k == consumeVarint(data, i)
           wf == wireTypeFor(f.type)
           l == Len(appendKey(f, wf))
           c == appendScalar(f.type, v)
<1>0. f \in FieldSchema
    BY LookupIs
<1>1. c \in Seq(Byte)
    BY <1>0, ScalarBytes
<1>2. wf \in {0, 1, 2, 5}
    BY <1>0, WireTypes
<1>3. KeyIsRead(data, i, f, wf, c)
    <2>1. Has(data, i, appendKey(f, wf) \o c) /\ wf \in 0..7
        BY <1>2
    <2> HIDE DEF c, wf
    <2> QED BY <1>1, <2>1, KeyRead
<1>4. Len(data) \in Nat /\ i \in Nat
    BY LenProperties
<1>5. l \in Nat /\ l >= 1 /\ Len(b) = l + Len(c) /\ Len(c) \in Nat
    BY <1>3 DEF KeyIsRead
<1> HIDE DEF c, wf
<1>6. CASE i + l =< Len(data)
    <2>1. k.n = l /\ k.v \div 8 = f.num /\ k.v % 8 = wf /\ Has(data, i + l, c) /\ i + l \in 0..Len(data)
        BY <1>3, <1>6 DEF KeyIsRead
    <2> HIDE DEF l, k
    <2>2. Decodes(decodeProtoScalar(data, i + l, f.type), v, data, i + l, c)
        BY <1>0, <2>1, ScalarDecodes DEF c
    <2>3. (i + l) + Len(c) = i + Len(b)
        BY <1>4, <1>5
    <2> DEFINE done == i + Len(b) =< Len(data)
               rb == decodeProtoScalar(data, i + l, f.type)
               sk == skipField(data, i + l, wf)
    <2>4. rb = IF done THEN Read(v, i + Len(b)) ELSE Truncated
        BY <2>2, <2>3 DEF Decodes
    <2>5. sk.err = rb.err /\ (rb.err = "nil" => sk.i = rb.i)
        BY <1>0, SameEnd DEF wf
    <2>6. l # 0
        BY <1>5
    <2> HIDE DEF done, rb, sk
    <2>7. rb.err = (IF done THEN "nil" ELSE "ErrTruncated") /\ (done => rb.i = i + Len(b))
        BY <2>4 DEF Read, Truncated
    <2>8. sk.err = (IF done THEN "nil" ELSE "ErrTruncated") /\ (done => sk.i = i + Len(b))
        BY <2>5, <2>7
    <2>9. skipField(data, i + k.n, k.v % 8) = sk /\ decodeProtoScalar(data, i + k.n, f.type) = rb
        BY <2>1 DEF rb, sk
    <2>10. wf \notin {6, 7}
        BY <1>2
    <2> QED BY <2>1, <2>4, <2>6, <2>8, <2>9, <2>10 DEF PieceIsRead, k, done, wf
<1>7. CASE ~(i + l =< Len(data))
    <2>1. k.n = 0
        BY <1>3, <1>7 DEF KeyIsRead
    <2>2. ~(i + Len(b) =< Len(data))
        BY <1>4, <1>5, <1>7
    <2> HIDE DEF k
    <2> QED BY <2>1, <2>2 DEF PieceIsRead, k
<1> QED BY <1>6, <1>7

\* What follows the key of the piece x, or its length.
IsPayload(inner, p, m, x, v) ==
    LET f == lookupNum(p.type, x.num)
    IN  \/ IsPacked(p, m, x) /\ x.v # <<>> /\ v = packedBody(f, x.v)[Len(x.v)]
        \/ \E e : /\ IsSingle(inner, p, m, x, e)
                  /\ IF f.type = "message" THEN e # NoMessage /\ v = inner[Msg(f.schema, e)] ELSE v = e

LEMMA LengthRoom ==
    ASSUME NEW k \in Seq(Byte), NEW b \in Seq(Byte), HasRoom(k \o appendBytes(b))
    PROVE  HasRoom(b)
<1> DEFINE c == appendBytes(b)
<1>1. c \in Seq(Byte) /\ Len(c) \in Nat /\ Len(c) > Len(b)
    BY appendBytesIs
<1>2. Size64 \in Nat /\ Len(b) \in Nat
    BY GroupWeightBelow, LenProperties
<1>3. Len(k \o c) < Size64
    BY DEF HasRoom
<1> HIDE DEF c
<1>4. Len(k \o c) = Len(k) + Len(c) /\ Len(k) \in Nat
    BY <1>1, BytesJoined
<1>5. Len(b) < Size64
    BY <1>1, <1>2, <1>3, <1>4
<1> QED BY <1>5 DEF HasRoom

LEMMA PieceRead ==
    ASSUME NEW inner, NEW p, IsMessage(p), \A q \in nested(p) : inner[q] \in Seq(Byte),
           NEW m, NEW x, PieceOf(inner, p, m, x), x.bytes # <<>>, HasRoom(x.bytes),
           NEW data \in Seq(Byte), NEW i \in 0..Len(data), Has(data, i, x.bytes)
    PROVE  \E v : /\ IsPayload(inner, p, m, x, v)
                  /\ PieceIsRead(data, i, lookupNum(p.type, x.num), x.bytes, v)
                  /\ lookupNum(p.type, x.num).type = "message" => HasRoom(v)
<1> DEFINE n == x.num
           t == p.type
           f == lookupNum(t, n)
           b == x.bytes
<1>1. n \in DOMAIN p.msg /\ (IsPacked(p, m, x) \/ \E e : IsSingle(inner, p, m, x, e))
    BY PieceKinds
<1>2. f \in FieldSchema /\ n \in Nums(t) /\ t \in Type
    BY <1>1, ValueIs
<1>3. CASE IsPacked(p, m, x)
    <2> DEFINE v == x.v
               body == packedBody(f, v)[Len(v)]
    <2>1. Packable(f) /\ IsList(v) /\ (\A j \in DOMAIN v : FitsOne(f, v[j])) /\ b = appendPacked(f, v)
        BY <1>3 DEF IsPacked
    <2> HIDE DEF f, v, b
    <2>2. v = <<>> => appendPacked(f, v) = <<>>
        BY <1>2, <2>1, PackedBytes
    <2>3. v # <<>> => body \in Seq(Byte) /\ appendPacked(f, v) = appendKey(f, 2) \o appendBytes(body)
        BY <1>2, <2>1, PackedBytes
    <2>4. v # <<>> /\ body \in Seq(Byte) /\ b = appendKey(f, 2) \o appendBytes(body)
        BY <2>1, <2>2, <2>3 DEF b
    <2> HIDE DEF body
    <2>5. appendKey(f, 2) \in Seq(Byte)
        BY <1>2, KeyBytes
    <2>6. HasRoom(body)
        BY <2>4, <2>5, LengthRoom DEF b
    <2>7. Has(data, i, b)
        BY DEF b
    <2>8. PieceIsRead(data, i, f, b, body)
        BY <1>2, <2>1, <2>4, <2>6, <2>7, BytesPieceRead DEF f
    <2>9. IsPayload(inner, p, m, x, body)
        BY <1>3, <2>4 DEF IsPayload, body, v, f
    <2>10. f.type # "message"
        BY <2>1 DEF Packable
    <2> QED BY <2>8, <2>9, <2>10 DEF f, b
<1>4. ASSUME NEW e, IsSingle(inner, p, m, x, e)
      PROVE  \E v : /\ IsPayload(inner, p, m, x, v)
                    /\ PieceIsRead(data, i, f, b, v)
                    /\ f.type = "message" => HasRoom(v)
    <2>1. /\ ~Packable(f) /\ b = appendProtoSingle(inner, f, e)
          /\ f.type # "message" => FitsOne(f, e)
          /\ f.type = "message" /\ e # NoMessage => Msg(f.schema, e) \in nested(p)
        BY <1>4 DEF IsSingle
    <2>2. Has(data, i, b) /\ b # <<>>
        OBVIOUS
    <2>3. CASE f.type = "message"
        <3> DEFINE v == inner[Msg(f.schema, e)]
        <3>1. e # NoMessage
            BY <2>1, <2>2, <2>3 DEF appendProtoSingle
        <3>2. v \in Seq(Byte)
            BY <2>1, <2>3, <3>1
        <3>3. b = appendKey(f, 2) \o appendBytes(v)
            BY <2>1, <2>3, <3>1 DEF appendProtoSingle
        <3>4. IsPayload(inner, p, m, x, v)
            BY <1>4, <2>3, <3>1 DEF IsPayload
        <3> HIDE DEF f, v
        <3>5. appendKey(f, 2) \in Seq(Byte)
            BY <1>2, KeyBytes
        <3>6. HasRoom(v)
            BY <3>2, <3>3, <3>5, LengthRoom
        <3> HIDE DEF b
        <3>7. PieceIsRead(data, i, f, b, v)
            BY <1>2, <2>2, <2>3, <3>2, <3>3, <3>6, BytesPieceRead DEF f
        <3> QED BY <3>4, <3>6, <3>7
    <2>4. CASE f.type # "message"
        <3>1. b = appendKey(f, wireTypeFor(f.type)) \o appendScalar(f.type, e)
            BY <2>1, <2>4 DEF appendProtoSingle
        <3>2. IsPayload(inner, p, m, x, e)
            BY <1>4, <2>4 DEF IsPayload
        <3> HIDE DEF f
        <3>3. Short(f, e)
            <4> SUFFICES ASSUME f.type = "bytes" PROVE HasRoom(e)
                BY DEF Short
            <4> DEFINE k == appendKey(f, wireTypeFor(f.type))
            <4>1. wireTypeFor(f.type) \in 0..7
                BY <1>2, WireTypes
            <4>2. k \in Seq(Byte)
                BY <1>2, <4>1, KeyBytes
            <4>3. e \in Seq(Byte)
                BY <2>1, <2>4 DEF FitsOne
            <4>4. appendScalar(f.type, e) = appendBytes(e)
                BY DEF appendScalar
            <4>5. HasRoom(k \o appendBytes(e))
                BY <3>1, <4>4
            <4> HIDE DEF k
            <4> QED BY <4>2, <4>3, <4>5, LengthRoom
        <3> HIDE DEF b
        <3>4. PieceIsRead(data, i, f, b, e)
            BY <1>2, <2>1, <2>2, <2>4, <3>1, <3>3, ScalarPieceRead DEF f
        <3> QED BY <2>4, <3>2, <3>4
    <2> QED BY <2>3, <2>4
<1> QED BY <1>1, <1>3, <1>4

-----------------------------------------------------------------------------
(* The calls that decode what was sent *)

IsSent(s) == \A p \in parts(s) : IsMessage(p)

\* The frame fr decodes the beginning of the encoding of the part p of s.
SentPart(s, p, fr) ==
    LET b == encodings(s)[Depth][p]
    IN  /\ p \in parts(s) /\ Reads(p.type, fr.type)
        /\ HasRoom(b) /\ Has(fr.data, 0, b) /\ Len(fr.data) =< Len(b)

\* It is before the piece k + 1 and has what the ones before it carry.
AtPiece(s, p, fr) ==
    LET ps == pieces(encodings(s)[Depth], p)
    IN  /\ fr.end = 0
        /\ \E k \in 0..Len(ps) : fr.i = Len(joined(ps)[k]) /\ fr.msg = Got(s, p, fr.type, k)

\* It has read j elements of the packed list of the piece k, whose bytes begin at from.
PackedAt(s, p, fr, k, from, j) ==
    LET e == encodings(s)[Depth]
        ps == pieces(e, p)
        x == ps[k]
        body == packedBody(lookupNum(p.type, x.num), x.v)
    IN  /\ IsPacked(p, carried(p.type, ps)[k - 1].msg, x) /\ x.num \in Nums(fr.type) /\ x.bytes # <<>>
        /\ fr.num = x.num /\ fr.end = Len(joined(ps)[k]) /\ fr.end # 0
        /\ j =< Len(x.v) /\ fr.i = from + Len(body[j]) /\ fr.end = from + Len(body[Len(x.v)])
        /\ Has(fr.data, from, body[Len(x.v)])
        /\ fr.msg = With(Got(s, p, fr.type, k - 1), x.num, SubSeq(x.v, 1, j))

InPacked(s, p, fr) ==
    \E k \in 1..Len(pieces(encodings(s)[Depth], p)), from \in Nat, j \in Nat : PackedAt(s, p, fr, k, from, j)

\* Its callee decodes the message q of the piece k, from all of its bytes.
InNested(s, p, fr, q, callee) ==
    LET e == encodings(s)[Depth]
        ps == pieces(e, p)
        C == carried(p.type, ps)
    IN  \E k \in 1..Len(ps) : \E y :
            LET x == ps[k]
                f == lookupNum(p.type, x.num)
            IN  /\ IsSingle(e, p, C[k - 1].msg, x, y) /\ x.num \in Nums(fr.type) /\ x.bytes # <<>>
                /\ f.type = "message" /\ y # NoMessage /\ q = Msg(f.schema, y) /\ callee.data = e[q]
                /\ fr.num = x.num /\ fr.i = Len(joined(ps)[k])
                /\ fr.msg = MakeList(Got(s, p, fr.type, k - 1), lookupNum(fr.type, x.num))

\* The calls of the stack st decode the parts S of s, the first of them s itself.
SentFrames(s, S, st) ==
    /\ S[1] = s
    /\ \A k \in 1..Len(st) : SentPart(s, S[k], st[k])
    /\ \A k \in 1..(Len(st) - 1) : InNested(s, S[k], st[k], S[k + 1], st[k + 1])
    /\ AtPiece(s, S[Len(st)], st[Len(st)]) \/ InPacked(s, S[Len(st)], st[Len(st)])

-----------------------------------------------------------------------------
(* The next piece *)

\* The piece k of p is next for fr; v follows its key, or its length.
NextRead(s, p, fr, k, v) ==
    LET e == encodings(s)[Depth]
        ps == pieces(e, p)
        m == carried(p.type, ps)[k - 1].msg
        x == ps[k]
        f == lookupNum(p.type, x.num)
    IN  /\ k \in 1..Len(ps) /\ PieceOf(e, p, m, x)
        /\ x.bytes # <<>> /\ x.bytes \in Seq(Byte) /\ Has(fr.data, fr.i, x.bytes)
        /\ fr.i = Len(joined(ps)[k - 1]) /\ fr.i + Len(x.bytes) = Len(joined(ps)[k])
        /\ fr.msg = Got(s, p, fr.type, k - 1)
        /\ Adds(e, receivedParts(s)[Depth], p, m, x, fr.type, fr.msg, Got(s, p, fr.type, k))
        /\ IsPayload(e, p, m, x, v) /\ PieceIsRead(fr.data, fr.i, f, x.bytes, v)
        /\ f.type = "message" => HasRoom(v)

LEMMA NextIsRead ==
    ASSUME NEW s, IsSent(s), NEW p, NEW fr, SentPart(s, p, fr), AtPiece(s, p, fr),
           fr.data \in Seq(Byte), fr.i \in 0..Len(fr.data), fr.i < Len(fr.data)
    PROVE  \E k, v : NextRead(s, p, fr, k, v)
<1> DEFINE e == encodings(s)[Depth]
           ps == pieces(e, p)
           N == Len(ps)
           J == joined(ps)
           B == BytesOf(ps)
           C == carried(p.type, ps)
           t == fr.type
<1>1. /\ p \in parts(s) /\ Reads(p.type, t) /\ HasRoom(e[p]) /\ Has(fr.data, 0, e[p])
      /\ Len(fr.data) =< Len(e[p])
    BY DEF SentPart
<1>2. Encoded(e, p, ps, e[p])
    BY <1>1, PartEncoded DEF IsSent
<1>3. IsMessage(p) /\ \A q \in nested(p) : e[q] \in Seq(Byte)
    BY <1>1, EncodingBytes, PartIs DEF IsSent
<1>4. PICK i \in 0..N : fr.i = Len(J[i]) /\ fr.msg = Got(s, p, t, i)
    BY DEF AtPiece
<1>5. /\ IsList(ps) /\ N \in Nat /\ Built(J, B, N) /\ e[p] = J[N]
      /\ \A k \in 1..N : PieceOf(e, p, C[k - 1].msg, ps[k])
    BY <1>2 DEF Encoded
<1>6. \A k \in 1..N : B[k] = ps[k].bytes
    BY DEF BytesOf
<1>7. \A k, l \in 0..N : k =< l /\ Len(J[k]) = Len(J[l]) => Got(s, p, t, k) = Got(s, p, t, l)
    BY <1>1, GotSame DEF IsSent
<1>8. \A k \in 1..N : Adds(e, receivedParts(s)[Depth], p, C[k - 1].msg, ps[k], t,
                           Got(s, p, t, k - 1), Got(s, p, t, k))
    BY <1>1, GotNext DEF IsSent
<1> HIDE DEF J, B
<1>9. InOrder(J, B, N)
    BY <1>5, BuiltInOrder
<1>10. Len(J[i]) < Len(J[N])
    <2>1. N \in 0..N
        BY <1>5
    <2>2. Len(J[i]) \in Nat /\ Len(J[N]) \in Nat
        BY <1>9, <2>1 DEF InOrder
    <2>3. Len(fr.data) \in Nat
        BY LenProperties
    <2> QED BY <1>1, <1>4, <1>5, <2>2, <2>3
<1>11. PICK k \in 1..N : /\ i =< k - 1 /\ k - 1 \in 0..N
                         /\ Len(J[k - 1]) = Len(J[i]) /\ Len(B[k]) >= 1 /\ B[k] \in Seq(Byte)
    BY <1>5, <1>10, NextPiece
<1> DEFINE x == ps[k]
           m == C[k - 1].msg
           f == lookupNum(p.type, x.num)
<1>12. x.bytes = B[k] /\ PieceOf(e, p, m, x)
    BY <1>5, <1>6
<1>13. fr.msg = Got(s, p, t, k - 1)
    BY <1>4, <1>7, <1>11
<1>14. Adds(e, receivedParts(s)[Depth], p, m, x, t, fr.msg, Got(s, p, t, k))
    BY <1>8, <1>13
<1>15. Has(fr.data, fr.i, B[k])
    <2>1. Has(fr.data, 0, J[N])
        BY <1>1, <1>5
    <2>2. Has(fr.data, 0 + Len(J[k - 1]), B[k])
        BY <1>5, <2>1, BuiltHas
    <2>3. 0 + Len(J[k - 1]) = fr.i
        BY <1>4, <1>11
    <2> QED BY <2>2, <2>3
<1>16. fr.i + Len(B[k]) = Len(J[k])
    BY <1>4, <1>9, <1>11 DEF InOrder
<1>17. HasRoom(B[k])
    <2>1. Len(B[k]) =< Len(J[k]) /\ Len(J[k]) =< Len(J[N]) /\ Len(B[k]) \in Nat /\ Len(J[k]) \in Nat /\ Len(J[N]) \in Nat
        <3>1. k \in 0..N /\ N \in 0..N /\ k =< N
            BY <1>5
        <3>2. Len(J[k]) = Len(J[k - 1]) + Len(B[k]) /\ Len(B[k]) \in Nat /\ Len(J[k - 1]) \in Nat
            BY <1>9, <1>11 DEF InOrder
        <3>3. Len(J[k]) =< Len(J[N]) /\ Len(J[k]) \in Nat /\ Len(J[N]) \in Nat
            BY <1>9, <3>1 DEF InOrder
        <3>4. \A a, b, c \in Nat : a = b + c => c =< a
            OBVIOUS
        <3> QED BY <3>2, <3>3, <3>4
    <2>2. Size64 \in Nat /\ Len(J[N]) < Size64
        BY <1>1, <1>5, GroupWeightBelow DEF HasRoom
    <2> QED BY <2>1, <2>2 DEF HasRoom
<1>18. B[k] # <<>>
    <2>1. ~(Len(<<>>) >= 1)
        OBVIOUS
    <2> QED BY <1>11, <2>1
<1> HIDE DEF m, x, C, ps, e, t
<1>19. PICK v : /\ IsPayload(e, p, m, x, v)
                /\ PieceIsRead(fr.data, fr.i, f, x.bytes, v)
                /\ f.type = "message" => HasRoom(v)
    <2>1. x.bytes # <<>> /\ HasRoom(x.bytes) /\ Has(fr.data, fr.i, x.bytes)
        BY <1>12, <1>15, <1>17, <1>18
    <2> QED BY <1>3, <1>12, <2>1, PieceRead
<1>20. NextRead(s, p, fr, k, v)
    <2>1. /\ x.bytes # <<>> /\ x.bytes \in Seq(Byte) /\ Has(fr.data, fr.i, x.bytes)
          /\ fr.i = Len(J[k - 1]) /\ fr.i + Len(x.bytes) = Len(J[k])
        BY <1>4, <1>11, <1>12, <1>15, <1>16, <1>18
    <2> QED BY <1>11, <1>12, <1>13, <1>14, <1>19, <2>1 DEF NextRead, m, x, C, ps, e, t, J
<1> QED BY <1>20

\* What the loop of DecodeProto does with the piece k.
StepIs(s, p, k, v) ==
    LET ps == pieces(encodings(s)[Depth], p)
        x == ps[k]
        f == lookupNum(p.type, x.num)
        end == Len(joined(ps)[k])
        done == end =< Len(top.data)
    IN  /\ stepErr = IF done THEN "nil" ELSE "ErrTruncated"
        /\ done => /\ fieldNum = x.num
                   /\ ~Known => skipField(top.data, at, wt).i = end
                   /\ Known => /\ fs = lookupNum(top.type, x.num) /\ fs.type = f.type
                               /\ Packed <=> Packable(f)
                               /\ payload = Read(v, end)

LEMMA StepReads ==
    ASSUME NEW s, NEW p, IsMessage(p), Reads(p.type, top.type), NEW k, NEW v, NextRead(s, p, top, k, v)
    PROVE  StepIs(s, p, k, v)
<1> DEFINE e == encodings(s)[Depth]
           ps == pieces(e, p)
           x == ps[k]
           f == lookupNum(p.type, x.num)
           b == x.bytes
           end == Len(joined(ps)[k])
           done == end =< Len(top.data)
           inBytes == Packable(f) \/ f.type = "message"
<1>1. /\ PieceOf(e, p, carried(p.type, ps)[k - 1].msg, x) /\ top.i + Len(b) = end
      /\ PieceIsRead(top.data, top.i, f, b, v)
    BY DEF NextRead
<1>2. x.num \in DOMAIN p.msg
    BY <1>1 DEF PieceOf
<1>3. f \in FieldSchema /\ x.num \in Nums(p.type) /\ f.num = x.num /\ f.num # 0
    <2>1. f \in FieldSchema /\ x.num \in Nums(p.type) /\ f.num = x.num
        BY <1>2, ValueIs
    <2> QED BY <2>1 DEF FieldSchema
<1>4. x.num \in Nums(top.type) =>
          LET g == lookupNum(top.type, x.num)
          IN  g.type = f.type /\ g.repeated = f.repeated
    BY <1>3, ReadsIs
<1> HIDE DEF e, ps, x, f
<1>5. /\ key.n = 0 => ~done
      /\ key.n # 0 =>
            /\ fieldNum = f.num /\ wt \notin {6, 7}
            /\ skipField(top.data, at, wt).err = (IF done THEN "nil" ELSE "ErrTruncated")
            /\ done => skipField(top.data, at, wt).i = end
            /\ wt = IF inBytes THEN 2 ELSE wireTypeFor(f.type)
            /\ (IF inBytes THEN readBytes(top.data, at) ELSE decodeProtoScalar(top.data, at, f.type))
                   = IF done THEN Read(v, end) ELSE Truncated
    BY <1>1, Zenon DEF PieceIsRead, key, at, wt, fieldNum
<1> HIDE DEF done, end, inBytes
<1>6. CASE key.n = 0
    <2>1. stepErr = "ErrTruncated" /\ ~done
        BY <1>5, <1>6 DEF stepErr
    <2> QED BY <2>1 DEF StepIs, done, end, ps, e
<1>7. CASE key.n # 0 /\ ~Known
    <2>1. /\ fieldNum = x.num /\ fieldNum # 0 /\ wt \notin {6, 7}
          /\ skipField(top.data, at, wt).err = (IF done THEN "nil" ELSE "ErrTruncated")
          /\ done => skipField(top.data, at, wt).i = end
        BY <1>3, <1>5, <1>7
    <2>2. stepErr = IF done THEN "nil" ELSE "ErrTruncated"
        BY <1>7, <2>1, Zenon DEF stepErr
    <2> QED BY <1>7, <2>1, <2>2 DEF StepIs, done, end, x, ps, e
<1>8. CASE key.n # 0 /\ Known
    <2>1. /\ fieldNum = x.num /\ fieldNum # 0 /\ wt \notin {6, 7}
          /\ wt = IF inBytes THEN 2 ELSE wireTypeFor(f.type)
          /\ (IF inBytes THEN readBytes(top.data, at) ELSE decodeProtoScalar(top.data, at, f.type))
                 = IF done THEN Read(v, end) ELSE Truncated
        BY <1>3, <1>5, <1>8
    <2>2. fs = lookupNum(top.type, x.num) /\ fs.type = f.type /\ fs.repeated = f.repeated
        <3>1. x.num \in Nums(top.type)
            BY <1>8, <2>1 DEF Known
        <3> QED BY <1>4, <2>1, <3>1 DEF fs
    <2>3. Packable(fs) <=> Packable(f)
        BY <2>2 DEF Packable
    <2>4. Packed <=> Packable(f)
        BY <2>1, <2>3 DEF Packed, inBytes
    <2>5. ~Packed => wt = wireTypeFor(fs.type)
        <3>1. f.type = "message" => wireTypeFor(f.type) = 2
            BY DEF wireTypeFor
        <3> QED BY <2>1, <2>2, <2>4, <3>1 DEF inBytes
    <2>6. payload = IF done THEN Read(v, end) ELSE Truncated
        BY <2>1, <2>2, <2>4 DEF payload, inBytes
    <2>7. stepErr = payload.err
        BY <1>8, <2>1, <2>5, Zenon DEF stepErr
    <2>8. stepErr = IF done THEN "nil" ELSE "ErrTruncated"
        BY <2>6, <2>7 DEF Read, Truncated
    <2>9. done => payload = Read(v, end)
        BY <2>6
    <2> QED BY <1>8, <2>1, <2>2, <2>4, <2>8, <2>9 DEF StepIs, done, end, f, x, ps, e
<1> QED BY <1>6, <1>7, <1>8

\* The pieces of a part, in order.
LEMMA PartInOrder ==
    ASSUME NEW s, IsSent(s), NEW p \in parts(s)
    PROVE  LET e == encodings(s)[Depth]
               ps == pieces(e, p)
               N == Len(ps)
           IN  /\ IsMessage(p) /\ IsList(ps) /\ N \in Nat /\ Built(joined(ps), BytesOf(ps), N)
               /\ InOrder(joined(ps), BytesOf(ps), N) /\ joined(ps)[0] = <<>>
               /\ e[p] = joined(ps)[N] /\ e[p] \in Seq(Byte)
<1> DEFINE e == encodings(s)[Depth]
           ps == pieces(e, p)
           N == Len(ps)
<1>1. Encoded(e, p, ps, e[p])
    BY PartEncoded DEF IsSent
<1>2. /\ IsList(ps) /\ N \in Nat /\ Built(joined(ps), BytesOf(ps), N)
      /\ e[p] = joined(ps)[N] /\ e[p] \in Seq(Byte)
    BY <1>1 DEF Encoded
<1>3. InOrder(joined(ps), BytesOf(ps), N)
    <2> HIDE DEF N, ps
    <2> QED BY <1>2, BuiltInOrder
<1>4. joined(ps)[0] = <<>>
    BY <1>2 DEF Built
<1>5. IsMessage(p)
    BY DEF IsSent
<1> QED BY <1>2, <1>3, <1>4, <1>5

\* The call in progress, before a key.
LEMMA TopIsAt ==
    ASSUME DecodeInv, NEW s, IsSent(s), NEW S, SentFrames(s, S, stack)
    PROVE  /\ Len(stack) \in Nat /\ Len(stack) >= 1
           /\ SentPart(s, S[Len(stack)], top) /\ S[Len(stack)] \in parts(s) /\ IsMessage(S[Len(stack)])
           /\ Reads(S[Len(stack)].type, top.type)
           /\ top.end = 0 => AtPiece(s, S[Len(stack)], top)
           /\ top.end # 0 => InPacked(s, S[Len(stack)], top)
           /\ FrameOK(top) /\ top.data \in Seq(Byte) /\ Len(top.data) \in Nat /\ top.i \in 0..Len(top.data)
           /\ Len(stack) > 1 => top.data = encodings(s)[Depth][S[Len(stack)]]
<1> DEFINE n == Len(stack)
           p == S[n]
<1>1. n \in Nat /\ n >= 1 /\ FrameOK(top)
    BY StackIs
<1>2. top = stack[n]
    BY DEF top
<1>3. SentPart(s, p, top) /\ (AtPiece(s, p, top) \/ InPacked(s, p, top))
    BY <1>1, <1>2 DEF SentFrames
<1>4. p \in parts(s) /\ Reads(p.type, top.type)
    BY <1>3 DEF SentPart
<1>5. AtPiece(s, p, top) => top.end = 0
    BY DEF AtPiece
<1>6. InPacked(s, p, top) => top.end # 0
    BY DEF InPacked, PackedAt
<1>7. top.data \in Seq(Byte) /\ Len(top.data) \in Nat /\ top.i \in 0..Len(top.data)
    BY <1>1, LenProperties DEF FrameOK
<1>8. ASSUME n > 1 PROVE top.data = encodings(s)[Depth][p]
    <2>1. n - 1 \in 1..(n - 1) /\ (n - 1) + 1 = n
        BY <1>1, <1>8
    <2>2. InNested(s, S[n - 1], stack[n - 1], S[(n - 1) + 1], stack[(n - 1) + 1])
        BY <2>1 DEF SentFrames
    <2>3. InNested(s, S[n - 1], stack[n - 1], p, top)
        BY <1>2, <2>1, <2>2
    <2> QED BY <2>3 DEF InNested
<1>9. IsMessage(p)
    BY <1>4 DEF IsSent
<1> HIDE DEF n, p
<1> QED BY <1>1, <1>3, <1>4, <1>5, <1>6, <1>7, <1>8, <1>9 DEF n, p

LEMMA KeyReads ==
    ASSUME DecodeInv, AtKey, NEW s, IsSent(s), NEW S, SentFrames(s, S, stack)
    PROVE  \E k, v : NextRead(s, S[Len(stack)], top, k, v) /\ StepIs(s, S[Len(stack)], k, v)
<1> DEFINE p == S[Len(stack)]
<1>1. /\ SentPart(s, p, top) /\ IsMessage(p) /\ Reads(p.type, top.type)
      /\ top.end = 0 => AtPiece(s, p, top)
      /\ top.data \in Seq(Byte) /\ top.i \in 0..Len(top.data)
    BY TopIsAt
<1>2. top.end = 0 /\ top.i < Len(top.data)
    BY DEF AtKey
<1> HIDE DEF p
<1>3. PICK k, v : NextRead(s, p, top, k, v)
    BY <1>1, <1>2, NextIsRead
<1>4. StepIs(s, p, k, v)
    BY <1>1, <1>3, StepReads
<1> QED BY <1>3, <1>4 DEF p

\* A nested call has all the bytes of its message.
LEMMA NestedIsWhole ==
    ASSUME DecodeInv, NEW s, IsSent(s), NEW S, SentFrames(s, S, stack), Len(stack) > 1,
           NEW k, NEW v, NextRead(s, S[Len(stack)], top, k, v)
    PROVE  Len(joined(pieces(encodings(s)[Depth], S[Len(stack)]))[k]) =< Len(top.data)
<1> DEFINE p == S[Len(stack)]
           e == encodings(s)[Depth]
           ps == pieces(e, p)
           J == joined(ps)
           N == Len(ps)
<1>1. p \in parts(s) /\ top.data = e[p]
    BY TopIsAt
<1>2. N \in Nat /\ InOrder(J, BytesOf(ps), N) /\ e[p] = J[N]
    BY <1>1, PartInOrder
<1>3. k \in 1..N
    BY DEF NextRead
<1> HIDE DEF J, N
<1>4. Len(J[k]) =< Len(J[N])
    <2>1. k \in 0..N /\ N \in 0..N /\ k =< N
        BY <1>2, <1>3
    <2> QED BY <1>2, <2>1 DEF InOrder
<1> QED BY <1>1, <1>2, <1>4 DEF J, N

\* The call in progress goes on.
LEMMA FramesUpdate ==
    ASSUME DecodeInv, NEW s, NEW S, SentFrames(s, S, stack), NEW f, Update(f),
           f.type = top.type, f.data = top.data,
           AtPiece(s, S[Len(stack)], f) \/ InPacked(s, S[Len(stack)], f)
    PROVE  SentFrames(s, S, stack')
<1> DEFINE n == Len(stack)
<1>1. n \in Nat /\ n >= 1 /\ n \in DOMAIN stack /\ DOMAIN stack = 1..n /\ IsList(stack)
    BY StackIs DEF DecodeInv
<1>2. stack' = [stack EXCEPT ![n] = f]
    BY DEF Update
<1>3. Len(stack') = n /\ \A k \in 1..n : stack'[k] = IF k = n THEN f ELSE stack[k]
    BY <1>1, <1>2, ChangeInList, ZenonT(40)
<1>4. top = stack[n]
    BY DEF top
<1> HIDE DEF n
<1>5. S[1] = s /\ (\A k \in 1..n : SentPart(s, S[k], stack[k]))
      /\ \A k \in 1..(n - 1) : InNested(s, S[k], stack[k], S[k + 1], stack[k + 1])
    BY DEF SentFrames, n
<1>6. \A k \in 1..n : SentPart(s, S[k], stack'[k])
    <2> SUFFICES ASSUME NEW k \in 1..n PROVE SentPart(s, S[k], stack'[k])
        OBVIOUS
    <2>1. SentPart(s, S[k], stack[k])
        BY <1>5
    <2>2. stack'[k].type = stack[k].type /\ stack'[k].data = stack[k].data
        BY <1>3, <1>4
    <2> QED BY <2>1, <2>2 DEF SentPart
<1>7. \A k \in 1..(n - 1) : InNested(s, S[k], stack'[k], S[k + 1], stack'[k + 1])
    <2> SUFFICES ASSUME NEW k \in 1..(n - 1) PROVE InNested(s, S[k], stack'[k], S[k + 1], stack'[k + 1])
        OBVIOUS
    <2>1. InNested(s, S[k], stack[k], S[k + 1], stack[k + 1])
        BY <1>5
    <2>2. k \in 1..n /\ k # n /\ k + 1 \in 1..n
        BY <1>1
    <2>3. stack'[k] = stack[k] /\ stack'[k + 1].data = stack[k + 1].data
        BY <1>3, <1>4, <2>2
    <2> QED BY <2>1, <2>3, Zenon DEF InNested
<1>8. stack'[n] = f
    BY <1>1, <1>3
<1>9. AtPiece(s, S[n], f) \/ InPacked(s, S[n], f)
    BY DEF n
<1> QED BY <1>3, <1>5, <1>6, <1>7, <1>8, <1>9 DEF SentFrames

-----------------------------------------------------------------------------
(* The steps of the calls that decode what was sent *)

LEMMA SkipFrames ==
    ASSUME DecodeInv, SkipField, NEW s, IsSent(s), NEW S, SentFrames(s, S, stack)
    PROVE  SentFrames(s, S, stack')
<1> DEFINE p == S[Len(stack)]
           ps == pieces(encodings(s)[Depth], p)
<1>1. AtKey /\ stepErr = "nil" /\ ~Known
    BY DEF SkipField
<1>2. FrameOK(top) /\ top.end = 0
    BY <1>1, TopIsAt DEF AtKey
<1>3. PICK k, v : NextRead(s, p, top, k, v) /\ StepIs(s, p, k, v)
    BY <1>1, KeyReads
<1> DEFINE end == Len(joined(ps)[k])
           f == [top EXCEPT !.i = skipField(top.data, at, wt).i]
<1>4. fieldNum = ps[k].num /\ skipField(top.data, at, wt).i = end
    BY <1>1, <1>3 DEF StepIs
<1>5. k \in 1..Len(ps) /\ Got(s, p, top.type, k) = top.msg
    <2>1. ps[k].num \notin Nums(top.type)
        BY <1>1, <1>4 DEF Known
    <2> QED BY <1>3, <2>1 DEF NextRead, Adds
<1>6. f.type = top.type /\ f.data = top.data /\ f.i = end /\ f.msg = top.msg /\ f.end = 0
    BY <1>2, <1>4 DEF FrameOK
<1>7. Update(f)
    BY DEF SkipField
<1> HIDE DEF f
<1>8. AtPiece(s, p, f)
    <2>1. k \in 0..Len(ps)
        BY <1>5
    <2> QED BY <1>5, <1>6, <2>1 DEF AtPiece
<1> QED BY <1>6, <1>7, <1>8, FramesUpdate

LEMMA ScalarFrames ==
    ASSUME DecodeInv, DecodeScalar, NEW s, IsSent(s), NEW S, SentFrames(s, S, stack)
    PROVE  SentFrames(s, S, stack')
<1> DEFINE p == S[Len(stack)]
           e == encodings(s)[Depth]
           ps == pieces(e, p)
           G == receivedParts(s)[Depth]
<1>1. AtKey /\ stepErr = "nil" /\ Known /\ ~Packed /\ fs.type # "message"
    BY DEF DecodeScalar, AtField
<1>2. FrameOK(top) /\ top.end = 0
    BY <1>1, TopIsAt DEF AtKey
<1>3. PICK k, v : NextRead(s, p, top, k, v) /\ StepIs(s, p, k, v)
    BY <1>1, KeyReads
<1> DEFINE end == Len(joined(ps)[k])
           x == ps[k]
           m == carried(p.type, ps)[k - 1].msg
           g == lookupNum(p.type, x.num)
           f == [top EXCEPT !.i = payload.i, !.msg = Store(top.msg, fs, payload.v)]
<1>4. /\ fieldNum = x.num /\ fs = lookupNum(top.type, x.num) /\ fs.type = g.type
      /\ ~Packable(g) /\ payload = Read(v, end)
    BY <1>1, <1>3 DEF StepIs
<1>5. x.num \in Nums(top.type)
    BY <1>1, <1>4 DEF Known
<1>6. k \in 1..Len(ps) /\ x.bytes # <<>> /\ IsPayload(e, p, m, x, v)
      /\ Adds(e, G, p, m, x, top.type, top.msg, Got(s, p, top.type, k))
    BY <1>3 DEF NextRead
<1>7. IsSingle(e, p, m, x, v)
    <2>1. ~IsPacked(p, m, x)
        BY <1>4 DEF IsPacked
    <2> QED BY <1>1, <1>4, <1>6, <2>1 DEF IsPayload
<1>8. Got(s, p, top.type, k) = Store(top.msg, fs, receivedOne(G, g, fs, v))
    BY <1>4, <1>5, <1>6, <1>7 DEF Adds
<1>9. receivedOne(G, g, fs, v) = v
    BY <1>1, <1>4 DEF receivedOne
<1>10. payload.i = end /\ payload.v = v
    BY <1>4 DEF Read
<1> HIDE DEF g, m, x, end
<1>11. f.type = top.type /\ f.data = top.data /\ f.i = end /\ f.msg = Got(s, p, top.type, k) /\ f.end = 0
    BY <1>2, <1>8, <1>9, <1>10 DEF FrameOK
<1>12. Update(f)
    BY DEF DecodeScalar
<1> HIDE DEF f
<1>13. AtPiece(s, p, f)
    <2>1. k \in 0..Len(ps)
        BY <1>6
    <2> QED BY <1>11, <2>1 DEF AtPiece, end
<1> QED BY <1>11, <1>12, <1>13, FramesUpdate

LEMMA EnterPackedFrames ==
    ASSUME DecodeInv, EnterPacked, NEW s, IsSent(s), NEW S, SentFrames(s, S, stack)
    PROVE  SentFrames(s, S, stack')
<1> DEFINE p == S[Len(stack)]
           e == encodings(s)[Depth]
           ps == pieces(e, p)
           G == receivedParts(s)[Depth]
           t == top.type
<1>1. AtKey /\ stepErr = "nil" /\ Known /\ Packed
    BY DEF EnterPacked, AtField
<1>2. /\ FrameOK(top) /\ top.end = 0 /\ IsMessage(p)
      /\ top.data \in Seq(Byte) /\ Len(top.data) \in Nat /\ top.i \in 0..Len(top.data)
    BY <1>1, TopIsAt DEF AtKey
<1>3. PICK k, v : NextRead(s, p, top, k, v) /\ StepIs(s, p, k, v)
    BY <1>1, KeyReads
<1> DEFINE end == Len(joined(ps)[k])
           x == ps[k]
           m == carried(p.type, ps)[k - 1].msg
           g == lookupNum(p.type, x.num)
           b == x.v
           body == packedBody(g, b)
           f == [top EXCEPT !.i = payload.i - Len(payload.v), !.end = payload.i,
                            !.num = fs.num, !.msg = MakeList(top.msg, fs)]
<1>4. /\ fieldNum = x.num /\ fs = lookupNum(t, x.num) /\ Packable(g) /\ payload = Read(v, end)
    BY <1>1, <1>3 DEF StepIs
<1>5. x.num \in Nums(t)
    BY <1>1, <1>4 DEF Known
<1>6. /\ k \in 1..Len(ps) /\ x.bytes # <<>> /\ IsPayload(e, p, m, x, v) /\ x.bytes \in Seq(Byte)
      /\ Adds(e, G, p, m, x, t, top.msg, Got(s, p, t, k)) /\ top.msg = Got(s, p, t, k - 1)
      /\ top.i + Len(x.bytes) = end /\ Has(top.data, top.i, x.bytes) /\ PieceOf(e, p, m, x)
    BY <1>3, Zenon DEF NextRead
<1>7. IsPacked(p, m, x) /\ b # <<>> /\ v = body[Len(b)]
    <2>1. \A y : ~IsSingle(e, p, m, x, y)
        BY <1>4 DEF IsSingle
    <2> QED BY <1>6, <2>1, Zenon DEF IsPayload
<1>8. x.num \notin DOMAIN top.msg
    BY <1>5, <1>6, <1>7, Zenon DEF Adds
<1>9. x.num \in Nums(p.type) /\ g \in FieldSchema
    <2>1. x.num \in DOMAIN p.msg
        BY <1>6, Zenon DEF PieceOf
    <2> QED BY <1>2, <2>1, ValueIs
<1>10. fs.num = x.num /\ fs.repeated
    <2>1. Reads(p.type, t)
        BY TopIsAt
    <2>2. g.repeated
        BY <1>4 DEF Packable
    <2> QED BY <1>4, <1>5, <1>9, <2>1, <2>2, ReadsIs
<1>11. payload.i = end /\ payload.v = v
    BY <1>4 DEF Read
<1>12. MakeList(top.msg, fs) = With(top.msg, x.num, <<>>)
    BY <1>8, <1>10 DEF MakeList
<1>13. IsList(b) /\ (\A j \in DOMAIN b : FitsOne(g, b[j])) /\ x.bytes = appendPacked(g, b)
    BY <1>7 DEF IsPacked
<1> HIDE DEF g, m, x, end, b
<1>14. v \in Seq(Byte) /\ x.bytes = appendKey(g, 2) \o appendBytes(v)
    BY <1>4, <1>7, <1>9, <1>13, PackedBytes
<1>15. Built(body, PackedElements(g, b), Len(b))
    BY <1>4, <1>9, <1>13, PackedBuilt
<1>16. body[0] = <<>> /\ Len(b) \in Nat
    BY <1>15 DEF Built
<1> DEFINE from == end - Len(v)
<1>17. /\ from \in Nat /\ Len(v) \in Nat /\ end \in Nat /\ end # 0 /\ end = from + Len(v)
       /\ Has(top.data, from, v)
    <2> DEFINE a == appendKey(g, 2)
               l == appendVarint(Len(v))
    <2>1. a \in Seq(Byte) /\ Len(a) \in Nat /\ Len(a) >= 1 /\ Len(v) \in Nat
        BY <1>9, <1>14, KeyBytes, LenProperties
    <2>2. l \in Seq(Byte) /\ Len(l) \in Nat
        <3>1. l \in Seq(Byte)
            BY <2>1, appendVarintIs
        <3> QED BY <3>1, LenProperties
    <2>3. x.bytes = a \o (l \o v)
        BY <1>14 DEF appendBytes
    <2> HIDE DEF a, l
    <2>4. l \o v \in Seq(Byte) /\ Len(l \o v) = Len(l) + Len(v)
        BY <1>14, <2>2, BytesJoined
    <2> DEFINE y == l \o v
    <2>5. y \in Seq(Byte) /\ Len(y) = Len(l) + Len(v) /\ x.bytes = a \o y
        BY <2>3, <2>4
    <2>6. top.i \in Nat /\ top.i + Len(a) \in Nat
        BY <1>2, <2>1
    <2> HIDE DEF y
    <2>7. Has(top.data, top.i + Len(a), y)
        <3>1. Has(top.data, top.i, a \o y)
            BY <1>6, <2>5
        <3> QED BY <1>2, <2>1, <2>5, <2>6, <3>1, JoinedHas
    <2>8. Has(top.data, (top.i + Len(a)) + Len(l), v)
        <3>1. Has(top.data, top.i + Len(a), l \o v)
            BY <2>7 DEF y
        <3> QED BY <1>2, <1>14, <2>2, <2>6, <3>1, JoinedHas
    <2>9. Len(x.bytes) = Len(a) + (Len(l) + Len(v))
        <3>1. Len(a \o y) = Len(a) + Len(y)
            BY <2>1, <2>5, BytesJoined
        <3> QED BY <2>5, <3>1
    <2> DEFINE la == Len(a)
               ll == Len(l)
               lv == Len(v)
               ti == top.i
    <2>10. la \in Nat /\ ll \in Nat /\ lv \in Nat /\ la >= 1 /\ ti \in Nat /\ end = ti + (la + (ll + lv))
        BY <1>6, <2>1, <2>2, <2>6, <2>9
    <2>11. Has(top.data, (ti + la) + ll, v)
        BY <2>8
    <2>12. Len(v) = lv
        OBVIOUS
    <2> HIDE DEF la, ll, lv, ti
    <2>13. end = ((ti + la) + ll) + lv /\ (ti + la) + ll \in Nat /\ (ti + la) + ll >= 1
        BY <2>10
    <2>14. \A c, d \in Nat : c >= 1 => (c + d) - d = c /\ c + d \in Nat /\ c + d # 0
        OBVIOUS
    <2>15. from = (ti + la) + ll /\ end \in Nat /\ end # 0
        BY <2>10, <2>12, <2>13, <2>14
    <2>16. end = from + Len(v) /\ from \in Nat
        BY <2>12, <2>13, <2>15
    <2> HIDE DEF from
    <2> QED BY <2>1, <2>11, <2>15, <2>16
<1>18. SubSeq(b, 1, 0) = <<>>
    <2>1. IsList(SubSeq(b, 1, 0)) /\ Len(SubSeq(b, 1, 0)) = 0
        BY <1>13, <1>16, FrontOfList
    <2> QED BY <2>1, EmptyList
<1> HIDE DEF from
<1>19. /\ f.type = t /\ f.data = top.data /\ f.i = from /\ f.end = end /\ f.num = x.num
       /\ f.msg = With(top.msg, x.num, SubSeq(b, 1, 0))
    BY <1>2, <1>10, <1>11, <1>12, <1>18 DEF FrameOK, from
<1>20. Update(f)
    BY DEF EnterPacked
<1> HIDE DEF f
<1>21. InPacked(s, p, f)
    <2>1. f.i = from + Len(body[0])
        BY <1>16, <1>17, <1>19
    <2>2. 0 \in Nat /\ 0 =< Len(b)
        BY <1>16
    <2>3. Has(f.data, from, body[Len(b)]) /\ end = from + Len(body[Len(b)])
        BY <1>7, <1>17, <1>19
    <2> HIDE DEF body
    <2>4. /\ IsPacked(p, m, x) /\ x.num \in Nums(f.type) /\ x.bytes # <<>>
          /\ f.num = x.num /\ f.end = end /\ f.end # 0
          /\ f.msg = With(Got(s, p, f.type, k - 1), x.num, SubSeq(b, 1, 0))
        BY <1>5, <1>6, <1>7, <1>17, <1>19
    <2>5. f.end = from + Len(body[Len(b)])
        BY <1>19, <2>3
    <2>6. PackedAt(s, p, f, k, from, 0)
        BY <2>1, <2>2, <2>3, <2>4, <2>5, Zenon DEF PackedAt, body, g, m, x, end, b
    <2> QED BY <1>6, <1>17, <2>2, <2>6 DEF InPacked
<1> QED BY <1>19, <1>20, <1>21, FramesUpdate

\* The loop over a packed field reads the elements that were sent.
ElementComes(s, p, k, from, j) ==
    LET x == pieces(encodings(s)[Depth], p)[k]
        body == packedBody(lookupNum(p.type, x.num), x.v)
    IN  /\ IsList(x.v) /\ Len(x.v) \in Nat /\ j + 1 =< Len(x.v)
        /\ element = Read(x.v[j + 1], from + Len(body[j + 1]))
        /\ lookupNum(top.type, x.num).repeated /\ lookupNum(top.type, x.num).num = x.num

LEMMA ElementReads ==
    ASSUME DecodeInv, AtElement, NEW s, IsSent(s), NEW S, SentFrames(s, S, stack),
           NEW k \in 1..Len(pieces(encodings(s)[Depth], S[Len(stack)])), NEW from \in Nat, NEW j \in Nat,
           PackedAt(s, S[Len(stack)], top, k, from, j)
    PROVE  ElementComes(s, S[Len(stack)], k, from, j)
<1> DEFINE p == S[Len(stack)]
           e == encodings(s)[Depth]
           ps == pieces(e, p)
           x == ps[k]
           m == carried(p.type, ps)[k - 1].msg
           g == lookupNum(p.type, x.num)
           body == packedBody(g, x.v)
           L == Len(x.v)
           P == PackedElements(g, x.v)
<1>1. /\ p \in parts(s) /\ IsMessage(p) /\ Reads(p.type, top.type) /\ FrameOK(top)
      /\ top.data \in Seq(Byte) /\ Len(top.data) \in Nat /\ top.i \in 0..Len(top.data)
    BY TopIsAt DEF SentPart
<1>2. /\ IsPacked(p, m, x) /\ x.num \in Nums(top.type) /\ top.num = x.num
      /\ j =< L /\ top.i = from + Len(body[j]) /\ top.end = from + Len(body[L])
      /\ Has(top.data, from, body[L])
    BY DEF PackedAt
<1>3. Packable(g) /\ IsList(x.v) /\ \A i \in DOMAIN x.v : FitsOne(g, x.v[i])
    BY <1>2, Zenon DEF IsPacked
<1>4. x.num \in Nums(p.type) /\ g \in FieldSchema
    <2>1. Encoded(e, p, ps, e[p])
        BY <1>1, PartEncoded DEF IsSent
    <2>2. PieceOf(e, p, m, x)
        BY <2>1 DEF Encoded
    <2>3. x.num \in DOMAIN p.msg
        BY <2>2, Zenon DEF PieceOf
    <2> QED BY <1>1, <2>3, ValueIs
<1>5. LET h == lookupNum(top.type, x.num) IN h.num = x.num /\ h.type = g.type /\ h.repeated = g.repeated
    <2> DEFINE u == p.type
               t == top.type
               n == x.num
    <2>1. Reads(u, t) /\ n \in Nums(u) /\ n \in Nums(t)
        BY <1>1, <1>2, <1>4
    <2> HIDE DEF u, t, n
    <2>2. /\ lookupNum(t, n).num = n /\ lookupNum(t, n).type = lookupNum(u, n).type
          /\ lookupNum(t, n).repeated = lookupNum(u, n).repeated
        BY <2>1, ReadsIs
    <2> QED BY <2>2 DEF u, t, n
<1>6. /\ Built(body, P, L) /\ L \in Nat
      /\ \A i \in 1..L : P[i] = appendScalar(g.type, x.v[i]) /\ P[i] \in Seq(Byte) /\ Len(P[i]) \in Nat
    <2> DEFINE v == x.v
    <2>1. IsList(v) /\ \A i \in DOMAIN v : FitsOne(g, v[i])
        BY <1>3
    <2> HIDE DEF g, v
    <2>2. /\ Built(packedBody(g, v), PackedElements(g, v), Len(v))
          /\ \A i \in 1..Len(v) : PackedElements(g, v)[i] = appendScalar(g.type, v[i])
               /\ PackedElements(g, v)[i] \in Seq(Byte) /\ Len(PackedElements(g, v)[i]) \in Nat
        BY <1>3, <1>4, <2>1, PackedBuilt
    <2> QED BY <2>2, <2>1, ListLen, Zenon DEF v, g
<1> HIDE DEF L, P, body, g, m, x, ps, e, p
<1>7. InOrder(body, P, L)
    BY <1>6, BuiltInOrder
<1>8. top.i < top.end /\ top.end \in Nat /\ top.end =< Len(top.data)
    BY <1>1 DEF AtElement, FrameOK
<1>9. j < L
    <2>1. L \in 0..L /\ j \in 0..L
        BY <1>2, <1>6
    <2>2. Len(body[j]) \in Nat /\ Len(body[L]) \in Nat
        BY <1>7, <2>1 DEF InOrder
    <2>3. j # L
        BY <1>2, <1>8, <2>2
    <2> QED BY <1>2, <1>6, <2>3
<1>10. j + 1 \in 1..L /\ j + 1 \in 0..L /\ L \in 0..L /\ (j + 1) - 1 = j /\ j \in 0..L
    BY <1>6, <1>9
<1>11. /\ Len(body[j + 1]) = Len(body[j]) + Len(P[j + 1]) /\ Len(body[j + 1]) =< Len(body[L])
       /\ Len(body[j]) \in Nat /\ Len(body[j + 1]) \in Nat /\ Len(body[L]) \in Nat
    <2>1. Len(body[(j + 1)]) = Len(body[(j + 1) - 1]) + Len(P[(j + 1)])
        BY <1>7, <1>10 DEF InOrder
    <2>2. Len(body[j + 1]) =< Len(body[L])
        BY <1>7, <1>10 DEF InOrder
    <2>3. Len(body[j]) \in Nat /\ Len(body[j + 1]) \in Nat /\ Len(body[L]) \in Nat
        BY <1>7, <1>10 DEF InOrder
    <2> QED BY <1>10, <2>1, <2>2, <2>3
<1>12. Has(top.data, top.i, P[j + 1])
    <2>1. Has(top.data, from + Len(body[(j + 1) - 1]), P[j + 1])
        BY <1>1, <1>2, <1>6, <1>10, BuiltHas
    <2> QED BY <1>2, <1>10, <2>1
<1> DEFINE w == x.v[j + 1]
<1>13. FitsOne(g, w) /\ Short(g, w) /\ P[j + 1] = appendScalar(g.type, w) /\ g.type # "message"
    <2>1. g.type \notin {"bytes", "message"}
        BY <1>3 DEF Packable
    <2>2. j + 1 \in DOMAIN x.v
        BY <1>3, <1>10, ListLen DEF L
    <2> QED BY <1>3, <1>6, <1>10, <2>1, <2>2 DEF Short
<1> HIDE DEF w
<1>14. Decodes(decodeProtoScalar(top.data, top.i, g.type), w, top.data, top.i, P[j + 1])
    BY <1>1, <1>4, <1>12, <1>13, ScalarDecodes
<1>15. top.i + Len(P[j + 1]) = from + Len(body[j + 1]) /\ from + Len(body[j + 1]) =< Len(top.data)
    <2>1. Len(P[j + 1]) \in Nat
        BY <1>6, <1>10
    <2> DEFINE bj == Len(body[j])
               bn == Len(body[j + 1])
               bl == Len(body[L])
               pl == Len(P[j + 1])
    <2>2. bn = bj + pl /\ bn =< bl /\ bj \in Nat /\ bn \in Nat /\ bl \in Nat /\ pl \in Nat
        BY <1>11, <2>1
    <2>3. top.i = from + bj /\ top.end = from + bl
        BY <1>2
    <2> HIDE DEF bj, bn, bl, pl
    <2>4. top.i + pl = from + bn /\ from + bn =< Len(top.data)
        BY <1>1, <1>8, <2>2, <2>3
    <2> QED BY <2>4 DEF bn, pl
<1>16. element = decodeProtoScalar(top.data, top.i, g.type)
    BY <1>2, <1>5 DEF element
<1>17. element = Read(w, from + Len(body[j + 1]))
    BY <1>14, <1>15, <1>16 DEF Decodes
<1>18. g.repeated
    BY <1>3 DEF Packable
<1>19. /\ IsList(x.v) /\ Len(x.v) \in Nat /\ j + 1 =< Len(x.v)
       /\ element = Read(x.v[j + 1], from + Len(body[j + 1]))
       /\ lookupNum(top.type, x.num).repeated /\ lookupNum(top.type, x.num).num = x.num
    <2>1. L \in Nat /\ j + 1 =< L
        BY <1>6, <1>10
    <2> QED BY <1>3, <1>5, <1>17, <1>18, <2>1 DEF L, w
<1>20. ElementComes(s, p, k, from, j)
    BY <1>19, Zenon DEF ElementComes, body, g, x, ps, e
<1> QED BY <1>20 DEF p

LEMMA ElementFrames ==
    ASSUME DecodeInv, PackedElement, NEW s, IsSent(s), NEW S, SentFrames(s, S, stack)
    PROVE  SentFrames(s, S, stack')
<1> DEFINE p == S[Len(stack)]
           ps == pieces(encodings(s)[Depth], p)
<1>1. AtElement
    BY DEF PackedElement
<1>2. FrameOK(top) /\ InPacked(s, p, top)
    <2>1. top.end # 0
        <3>1. ~(0 > 0)
            OBVIOUS
        <3> QED BY <1>1, <3>1 DEF AtElement
    <2> QED BY <2>1, TopIsAt
<1>3. PICK k \in 1..Len(ps), from \in Nat, j \in Nat : PackedAt(s, p, top, k, from, j)
    BY <1>2 DEF InPacked
<1> DEFINE x == ps[k]
           v == x.v
           n == x.num
           body == packedBody(lookupNum(p.type, x.num), x.v)
           r == Got(s, p, top.type, k - 1)
           g == lookupNum(top.type, top.num)
           f == [top EXCEPT !.i = element.i, !.msg = Store(top.msg, g, element.v)]
<1>4. /\ IsList(v) /\ Len(v) \in Nat /\ j + 1 =< Len(v)
      /\ element = Read(v[j + 1], from + Len(body[j + 1]))
      /\ lookupNum(top.type, n).repeated /\ lookupNum(top.type, n).num = n
    BY <1>1, <1>3, ElementReads, Zenon DEF ElementComes
<1>5. /\ IsPacked(p, carried(p.type, ps)[k - 1].msg, x) /\ n \in Nums(top.type) /\ x.bytes # <<>>
      /\ top.num = n /\ top.end = Len(joined(ps)[k]) /\ top.end # 0
      /\ top.end = from + Len(body[Len(v)]) /\ Has(top.data, from, body[Len(v)])
      /\ top.msg = With(r, n, SubSeq(v, 1, j))
    BY <1>3 DEF PackedAt
<1>6. element.v = v[j + 1] /\ element.i = from + Len(body[j + 1])
    BY <1>4 DEF Read
<1>7. g.repeated /\ g.num = n
    BY <1>4, <1>5, Zenon
<1> HIDE DEF body, r, g, n, v, x
<1>8. Store(top.msg, g, v[j + 1]) = With(r, n, SubSeq(v, 1, j + 1))
    <2> DEFINE w == SubSeq(v, 1, j)
    <2>1. Append(w, v[j + 1]) = SubSeq(v, 1, j + 1)
        BY <1>4, FrontAndLast
    <2> HIDE DEF w
    <2>2. top.msg = With(r, n, w)
        BY <1>5 DEF w
    <2>3. n \in DOMAIN top.msg /\ top.msg[n] = w
        BY <2>2, WithIs
    <2>4. Store(top.msg, g, v[j + 1]) = With(top.msg, n, Append(w, v[j + 1]))
        BY <1>7, <2>3, StoreIs
    <2>5. With(top.msg, n, Append(w, v[j + 1])) = With(r, n, Append(w, v[j + 1]))
        BY <2>2, WithIs
    <2> QED BY <2>1, <2>4, <2>5
<1>9. /\ f.type = top.type /\ f.data = top.data /\ f.i = from + Len(body[j + 1])
      /\ f.msg = With(r, n, SubSeq(v, 1, j + 1)) /\ f.end = top.end /\ f.num = top.num
    BY <1>2, <1>6, <1>8 DEF FrameOK
<1>10. Update(f)
    BY DEF PackedElement, g
<1> HIDE DEF f
<1>11. j + 1 \in Nat
    OBVIOUS
<1>12. PackedAt(s, p, f, k, from, j + 1)
    BY <1>4, <1>5, <1>9, Zenon DEF PackedAt, body, r, n, v, x
<1>13. InPacked(s, p, f)
    BY <1>11, <1>12 DEF InPacked
<1> QED BY <1>9, <1>10, <1>13, FramesUpdate

\* The elements that were sent are no error.
LEMMA NoPackedFail ==
    ASSUME DecodeInv, PackedFail, NEW s, IsSent(s), NEW S, SentFrames(s, S, stack)
    PROVE  FALSE
<1> DEFINE p == S[Len(stack)]
           ps == pieces(encodings(s)[Depth], p)
<1>1. AtElement /\ element.err # "nil"
    BY DEF PackedFail
<1>2. InPacked(s, p, top)
    <2>1. top.end # 0
        <3>1. ~(0 > 0)
            OBVIOUS
        <3> QED BY <1>1, <3>1 DEF AtElement
    <2> QED BY <2>1, TopIsAt
<1>3. PICK k \in 1..Len(ps), from \in Nat, j \in Nat : PackedAt(s, p, top, k, from, j)
    BY <1>2 DEF InPacked
<1> DEFINE x == ps[k]
           body == packedBody(lookupNum(p.type, x.num), x.v)
<1>4. element = Read(x.v[j + 1], from + Len(body[j + 1]))
    BY <1>1, <1>3, ElementReads DEF ElementComes
<1>5. element.err = "nil"
    BY <1>4 DEF Read
<1> QED BY <1>1, <1>5

LEMMA LeavePackedFrames ==
    ASSUME DecodeInv, LeavePacked, NEW s, IsSent(s), NEW S, SentFrames(s, S, stack)
    PROVE  SentFrames(s, S, stack')
<1> DEFINE p == S[Len(stack)]
           e == encodings(s)[Depth]
           ps == pieces(e, p)
           t == top.type
           f == [top EXCEPT !.i = top.end, !.num = 0, !.end = 0]
<1>1. top.end > 0 /\ top.i >= top.end
    BY DEF LeavePacked
<1>2. /\ FrameOK(top) /\ InPacked(s, p, top) /\ p \in parts(s) /\ IsMessage(p) /\ Reads(p.type, t)
      /\ top.i \in Nat /\ top.end \in Nat
    <2>1. top.end # 0
        <3>1. ~(0 > 0)
            OBVIOUS
        <3> QED BY <1>1, <3>1
    <2>2. FrameOK(top) /\ top.data \in Seq(Byte) /\ Len(top.data) \in Nat
        BY TopIsAt
    <2> QED BY <2>1, <2>2, TopIsAt DEF FrameOK
<1>3. PICK k \in 1..Len(ps), from \in Nat, j \in Nat : PackedAt(s, p, top, k, from, j)
    BY <1>2 DEF InPacked
<1> DEFINE x == ps[k]
           v == x.v
           n == x.num
           m == carried(p.type, ps)[k - 1].msg
           g == lookupNum(p.type, n)
           L == Len(v)
           body == packedBody(g, v)
           B == PackedElements(g, v)
           r == Got(s, p, t, k - 1)
<1>4. /\ IsPacked(p, m, x) /\ n \in Nums(t) /\ x.bytes # <<>>
      /\ top.num = n /\ top.end = Len(joined(ps)[k]) /\ top.i = from + Len(body[j])
      /\ top.end = from + Len(body[L]) /\ j =< L
      /\ top.msg = With(r, n, SubSeq(v, 1, j))
    BY <1>3 DEF PackedAt
<1>5. Packable(g) /\ IsList(v) /\ \A i \in DOMAIN v : FitsOne(g, v[i])
    BY <1>4 DEF IsPacked
<1>6. g \in FieldSchema
    <2>1. Encoded(e, p, ps, e[p])
        BY <1>2, PartEncoded DEF IsSent
    <2>2. PieceOf(e, p, m, x)
        BY <2>1 DEF Encoded
    <2>3. n \in DOMAIN p.msg
        BY <2>2 DEF PieceOf
    <2> QED BY <1>2, <2>3, ValueIs
<1>7. Got(s, p, t, k) = With(r, n, v)
    <2>1. Adds(e, receivedParts(s)[Depth], p, m, x, t, r, Got(s, p, t, k))
        BY <1>2, GotNext DEF IsSent
    <2> QED BY <1>4, <2>1 DEF Adds
<1> HIDE DEF g, v
<1>8. Built(body, B, L) /\ L \in Nat /\ \A i \in 1..L : Len(B[i]) \in Nat /\ Len(B[i]) >= 1
    BY <1>5, <1>6, PackedBuilt, ListLen
<1> HIDE DEF B, body, L
<1>9. InOrder(body, B, L)
    BY <1>8, BuiltInOrder
<1>10. j = L
    <2>1. SUFFICES ASSUME j + 1 \in 1..L PROVE FALSE
        BY <1>4, <1>8
    <2>2. (j + 1) - 1 = j /\ j + 1 \in 0..L /\ j \in 0..L /\ L \in 0..L /\ j + 1 =< L
        BY <1>8, <2>1
    <2>3. Len(body[(j + 1)]) = Len(body[(j + 1) - 1]) + Len(B[(j + 1)]) /\ Len(B[j + 1]) \in Nat /\ Len(B[j + 1]) >= 1
        BY <1>8, <1>9, <2>1 DEF InOrder
    <2>4. Len(body[j + 1]) =< Len(body[L])
        BY <1>9, <2>2 DEF InOrder
    <2>5. Len(body[j]) \in Nat /\ Len(body[j + 1]) \in Nat /\ Len(body[L]) \in Nat
        BY <1>9, <2>2 DEF InOrder
    <2>6. from + Len(body[j]) >= from + Len(body[L])
        BY <1>1, <1>4
    <2>7. Len(body[j + 1]) = Len(body[j]) + Len(B[j + 1])
        BY <2>2, <2>3
    <2> DEFINE c == Len(B[j + 1])
               lj == Len(body[j])
               ln == Len(body[j + 1])
               lL == Len(body[L])
    <2>8. c \in Nat /\ c >= 1 /\ ln =< lL /\ lj \in Nat /\ ln \in Nat /\ lL \in Nat
          /\ from + lj >= from + lL /\ ln = lj + c
        BY <2>3, <2>4, <2>5, <2>6, <2>7
    <2> HIDE DEF c, lj, ln, lL
    <2> QED BY <2>8
<1>11. top.msg = Got(s, p, t, k)
    <2>1. SubSeq(v, 1, L) = v
        BY <1>5, WholeList DEF L
    <2> QED BY <1>4, <1>7, <1>10, <2>1
<1> HIDE DEF x, n, m, r
<1>12. f.type = top.type /\ f.data = top.data /\ f.i = Len(joined(ps)[k]) /\ f.msg = Got(s, p, t, k) /\ f.end = 0
    BY <1>2, <1>4, <1>11 DEF FrameOK
<1>13. Update(f)
    BY DEF LeavePacked
<1> HIDE DEF f
<1>14. AtPiece(s, p, f)
    <2>1. k \in 0..Len(ps)
        OBVIOUS
    <2> QED BY <1>12, <2>1 DEF AtPiece
<1> QED BY <1>12, <1>13, <1>14, FramesUpdate

\* Of a callee, its caller is about the bytes.
LEMMA NestedData ==
    ASSUME NEW s, NEW p, NEW fr, NEW q, NEW a, NEW b, InNested(s, p, fr, q, a), b.data = a.data
    PROVE  InNested(s, p, fr, q, b)
BY DEF InNested

\* A call begins.
LEMMA FramesPush ==
    ASSUME NEW s, NEW S, NEW st, SentFrames(s, S, st), NEW n \in Nat, n >= 1, n = Len(st),
           NEW f, f.type = st[n].type, f.data = st[n].data,
           NEW q, NEW g, InNested(s, S[n], f, q, g), SentPart(s, q, g), AtPiece(s, q, g),
           NEW z, Len(z) = n + 1, z[n + 1] = g, \A k \in 1..n : z[k] = IF k = n THEN f ELSE st[k]
    PROVE  \E S2 : SentFrames(s, S2, z)
<1> DEFINE S2 == [k \in 1..(n + 1) |-> IF k = n + 1 THEN q ELSE S[k]]
<1>1. S[1] = s /\ (\A k \in 1..n : SentPart(s, S[k], st[k]))
      /\ \A k \in 1..(n - 1) : InNested(s, S[k], st[k], S[k + 1], st[k + 1])
    BY DEF SentFrames
<1>2. S2[n + 1] = q /\ \A k \in 1..n : S2[k] = S[k]
    OBVIOUS
<1> HIDE DEF S2
<1>3. 1 \in 1..n /\ S2[1] = s
    BY <1>1, <1>2
<1>4. \A k \in 1..(n + 1) : SentPart(s, S2[k], z[k])
    <2> SUFFICES ASSUME NEW k \in 1..(n + 1) PROVE SentPart(s, S2[k], z[k])
        OBVIOUS
    <2>1. CASE k = n + 1
        BY <1>2, <2>1
    <2>2. CASE k # n + 1
        <3>1. k \in 1..n
            BY <2>2
        <3>2. SentPart(s, S[k], st[k])
            BY <1>1, <3>1
        <3>3. z[k].type = st[k].type /\ z[k].data = st[k].data
            BY <3>1
        <3>4. SentPart(s, S[k], z[k])
            BY <3>2, <3>3 DEF SentPart
        <3> QED BY <1>2, <3>1, <3>4
    <2> QED BY <2>1, <2>2
<1>5. \A k \in 1..n : InNested(s, S2[k], z[k], S2[k + 1], z[k + 1])
    <2> SUFFICES ASSUME NEW k \in 1..n PROVE InNested(s, S2[k], z[k], S2[k + 1], z[k + 1])
        OBVIOUS
    <2>1. CASE k = n
        <3>1. S2[n] = S[n] /\ z[n] = f
            BY <1>2
        <3> QED BY <1>2, <2>1, <3>1
    <2>2. CASE k # n
        <3>1. k \in 1..(n - 1) /\ k + 1 \in 1..n
            BY <2>2
        <3>2. InNested(s, S[k], st[k], S[k + 1], st[k + 1])
            BY <1>1, <3>1
        <3>3. z[k] = st[k] /\ z[k + 1].data = st[k + 1].data
            BY <2>2, <3>1
        <3>4. InNested(s, S[k], z[k], S[k + 1], z[k + 1])
            BY <3>2, <3>3, NestedData
        <3> QED BY <1>2, <3>1, <3>4
    <2> QED BY <2>1, <2>2
<1>6. (n + 1) - 1 = n
    OBVIOUS
<1>7. AtPiece(s, S2[n + 1], z[n + 1])
    BY <1>2
<1>8. SentFrames(s, S2, z)
    BY <1>3, <1>4, <1>5, <1>6, <1>7 DEF SentFrames
<1> QED BY <1>8

\* A call returns.
LEMMA FramesPop ==
    ASSUME NEW s, NEW S, NEW st, SentFrames(s, S, st), NEW n \in Nat, n >= 1, n + 1 = Len(st),
           NEW f, f.type = st[n].type, f.data = st[n].data, AtPiece(s, S[n], f),
           NEW z, Len(z) = n, z[n] = f, \A k \in 1..(n - 1) : z[k] = st[k]
    PROVE  SentFrames(s, S, z)
<1>1. /\ S[1] = s /\ (\A k \in 1..(n + 1) : SentPart(s, S[k], st[k]))
      /\ \A k \in 1..((n + 1) - 1) : InNested(s, S[k], st[k], S[k + 1], st[k + 1])
    BY DEF SentFrames
<1>2. \A k \in 1..n : SentPart(s, S[k], z[k])
    <2> SUFFICES ASSUME NEW k \in 1..n PROVE SentPart(s, S[k], z[k])
        OBVIOUS
    <2>1. SentPart(s, S[k], st[k])
        BY <1>1
    <2>2. z[k].type = st[k].type /\ z[k].data = st[k].data
        <3>1. k = n \/ k \in 1..(n - 1)
            OBVIOUS
        <3> QED BY <3>1
    <2> QED BY <2>1, <2>2 DEF SentPart
<1>3. \A k \in 1..(n - 1) : InNested(s, S[k], z[k], S[k + 1], z[k + 1])
    <2> SUFFICES ASSUME NEW k \in 1..(n - 1) PROVE InNested(s, S[k], z[k], S[k + 1], z[k + 1])
        OBVIOUS
    <2>1. k \in 1..((n + 1) - 1) /\ (k + 1 = n \/ k + 1 \in 1..(n - 1))
        OBVIOUS
    <2>2. InNested(s, S[k], st[k], S[k + 1], st[k + 1])
        BY <1>1, <2>1
    <2>3. z[k] = st[k] /\ z[k + 1].data = st[k + 1].data
        BY <2>1
    <2> QED BY <2>2, <2>3, NestedData
<1> QED BY <1>1, <1>2, <1>3 DEF SentFrames

LEMMA EnterMessageFrames ==
    ASSUME DecodeInv, EnterMessage, NEW s, IsSent(s), NEW S, SentFrames(s, S, stack)
    PROVE  \E S2 : SentFrames(s, S2, stack')
<1> DEFINE n == Len(stack)
           p == S[n]
           e == encodings(s)[Depth]
           ps == pieces(e, p)
           t == top.type
           mm == MakeList(top.msg, fs)
           f == [top EXCEPT !.i = payload.i, !.num = fs.num, !.msg = mm]
           g == Frame(fs.schema, payload.v, <<>>)
           c == [stack EXCEPT ![n] = f]
<1>1. AtKey /\ stepErr = "nil" /\ Known /\ fs.type = "message" /\ AtField
    BY DEF EnterMessage, AtField
<1>2. /\ FrameOK(top) /\ top.end = 0 /\ IsMessage(p) /\ p \in parts(s) /\ Reads(p.type, t)
    BY <1>1, TopIsAt DEF AtKey
<1>3. /\ IsList(stack) /\ n \in Nat /\ n >= 1 /\ DOMAIN stack = 1..n /\ n \in DOMAIN stack
    BY StackIs DEF DecodeInv
<1>4. PICK k, v : NextRead(s, p, top, k, v) /\ StepIs(s, p, k, v)
    BY <1>1, KeyReads
<1> DEFINE end == Len(joined(ps)[k])
           x == ps[k]
           m == carried(p.type, ps)[k - 1].msg
           h == lookupNum(p.type, x.num)
<1>5. /\ fieldNum = x.num /\ fs = lookupNum(t, x.num) /\ h.type = "message" /\ payload = Read(v, end)
    BY <1>1, <1>4 DEF StepIs
<1>6. x.num \in Nums(t)
    BY <1>1, <1>5 DEF Known
<1>7. /\ k \in 1..Len(ps) /\ x.bytes # <<>> /\ IsPayload(e, p, m, x, v)
      /\ top.msg = Got(s, p, t, k - 1) /\ PieceOf(e, p, m, x) /\ HasRoom(v)
    BY <1>4, <1>5 DEF NextRead
<1>8. PICK y : IsSingle(e, p, m, x, y) /\ y # NoMessage /\ v = e[Msg(h.schema, y)]
    <2>1. ~IsPacked(p, m, x)
        BY <1>5 DEF IsPacked, Packable
    <2> QED BY <1>5, <1>7, <2>1, Zenon DEF IsPayload
<1> DEFINE q == Msg(h.schema, y)
<1>9. q \in nested(p) /\ q \in parts(s)
    <2>1. q \in nested(p)
        BY <1>5, <1>8, Zenon DEF IsSingle
    <2> QED BY <1>2, <2>1, PartIs DEF IsSent
<1>10. Reads(h.schema, fs.schema) /\ fs.num = x.num
    <2>1. x.num \in Nums(p.type)
        <3>1. x.num \in DOMAIN p.msg
            BY <1>7, Zenon DEF PieceOf
        <3> QED BY <1>2, <3>1 DEF IsMessage
    <2> DEFINE i == x.num
               u == p.type
    <2>2. Reads(u, t) /\ i \in Nums(u) /\ i \in Nums(t)
        BY <1>2, <1>6, <2>1
    <2> HIDE DEF i, u, t
    <2>3. lookupNum(t, i).num = i
          /\ (lookupNum(u, i).type = "message" => Reads(lookupNum(u, i).schema, lookupNum(t, i).schema))
        BY <2>2, ReadsIs
    <2> QED BY <1>5, <2>3 DEF i, u, t
<1>11. payload.v = v /\ payload.i = end
    BY <1>5 DEF Read
<1>12. stack' = Append([stack EXCEPT ![n].i = payload.i, ![n].num = fs.num, ![n].msg = mm], g)
    BY DEF EnterMessage
<1> HIDE DEF mm
<1>13. [stack EXCEPT ![n].i = payload.i, ![n].num = fs.num, ![n].msg = mm] = c
    BY <1>3 DEF top
<1>14. f.type = t /\ f.data = top.data /\ f.i = end /\ f.num = x.num /\ f.msg = mm
    BY <1>2, <1>10, <1>11 DEF FrameOK
<1> HIDE DEF f
<1>15. g.type = fs.schema /\ g.data = v /\ g.i = 0 /\ g.msg = <<>> /\ g.end = 0
    BY <1>11 DEF Frame
<1> HIDE DEF g
<1>16. /\ IsList(c) /\ Len(c) = n /\ DOMAIN c = 1..n
       /\ \A j \in 1..n : c[j] = IF j = n THEN f ELSE stack[j]
    BY <1>3, ChangeInList
<1>17. stack' = Append(c, g)
    BY <1>12, <1>13
<1>18. top = stack[n]
    BY DEF top
<1> HIDE DEF c
<1>19. /\ Len(stack') = n + 1 /\ stack'[n + 1] = g
       /\ \A j \in 1..n : stack'[j] = IF j = n THEN f ELSE stack[j]
    <2> HIDE DEF n
    <2> QED BY <1>16, <1>17, AppendToList
<1>20. q.type = h.schema
    BY DEF Msg
<1>21. mm = MakeList(Got(s, p, f.type, k - 1), lookupNum(f.type, x.num))
    BY <1>5, <1>7, <1>14 DEF mm
<1>22. v = e[q]
    BY <1>8
<1> HIDE DEF q
<1>23. e[q] \in Seq(Byte)
    BY <1>9, EncodingBytes DEF IsSent
<1>24. SentPart(s, q, g)
    <2>1. Has(v, 0, v)
        BY DEF Has
    <2>2. Len(v) \in Nat
        BY <1>22, <1>23, LenProperties
    <2> QED BY <1>7, <1>9, <1>10, <1>15, <1>20, <1>22, <2>1, <2>2 DEF SentPart
<1>25. AtPiece(s, q, g)
    <2> DEFINE qs == pieces(e, q)
    <2>1. Len(qs) \in Nat /\ joined(qs)[0] = <<>>
        BY <1>9, PartInOrder
    <2>2. g.type \in Type
        BY <1>10, <1>15 DEF Reads
    <2>3. Got(s, q, g.type, 0) = <<>>
        BY <1>9, <2>2, GotEnds DEF IsSent
    <2>4. 0 \in 0..Len(qs) /\ g.i = Len(joined(qs)[0])
        BY <1>15, <2>1
    <2> QED BY <1>15, <2>3, <2>4 DEF AtPiece
<1>26. InNested(s, p, f, q, g)
    <2>1. /\ IsSingle(e, p, m, x, y) /\ x.num \in Nums(f.type) /\ x.bytes # <<>>
          /\ h.type = "message" /\ y # NoMessage /\ q = Msg(h.schema, y) /\ g.data = e[q]
          /\ f.num = x.num /\ f.i = end
          /\ f.msg = MakeList(Got(s, p, f.type, k - 1), lookupNum(f.type, x.num))
        BY <1>5, <1>6, <1>7, <1>8, <1>14, <1>15, <1>21, <1>22, Zenon DEF q
    <2>2. k \in 1..Len(ps)
        BY <1>7
    <2> QED BY <2>1, <2>2, Zenon DEF InNested
<1> QED
    <2> DEFINE z == stack'
    <2>1. Len(z) = n + 1 /\ z[n + 1] = g /\ \A j \in 1..n : z[j] = IF j = n THEN f ELSE stack[j]
        BY <1>19
    <2>2. f.type = stack[n].type /\ f.data = stack[n].data
        BY <1>14, <1>18
    <2>3. n \in Nat /\ n >= 1 /\ n = Len(stack)
        BY <1>3
    <2>4. InNested(s, S[n], f, q, g) /\ SentPart(s, q, g) /\ AtPiece(s, q, g)
        BY <1>24, <1>25, <1>26
    <2> HIDE DEF n, z
    <2>5. \E S2 : SentFrames(s, S2, z)
        BY <2>1, <2>2, <2>3, <2>4, FramesPush
    <2> QED BY <2>5 DEF z

\* A nested call that is at the end of its bytes has all of its message.
LEMMA NestedGot ==
    ASSUME DecodeInv, NEW s, IsSent(s), NEW S, SentFrames(s, S, stack),
           Len(stack) > 1, top.end = 0, top.i >= Len(top.data)
    PROVE  top.msg = receivedParts(s)[Depth][S[Len(stack)]][top.type]
<1> DEFINE q == S[Len(stack)]
           e == encodings(s)[Depth]
           ps == pieces(e, q)
           N == Len(ps)
           J == joined(ps)
           t == top.type
<1>1. /\ q \in parts(s) /\ Reads(q.type, t) /\ AtPiece(s, q, top) /\ top.data = e[q]
    BY TopIsAt
<1>2. N \in Nat /\ InOrder(J, BytesOf(ps), N) /\ e[q] = J[N]
    BY <1>1, PartInOrder
<1>3. PICK k \in 0..N : top.i = Len(J[k]) /\ top.msg = Got(s, q, t, k)
    BY <1>1 DEF AtPiece
<1>4. t \in Type
    BY <1>1 DEF Reads
<1>5. Got(s, q, t, N) = receivedParts(s)[Depth][q][t]
    BY <1>1, <1>4, GotEnds DEF IsSent
<1>6. Len(J[k]) >= Len(J[N])
    BY <1>1, <1>2, <1>3
<1>7. N \in 0..N /\ k =< N
    BY <1>2
<1>8. Len(J[k]) = Len(J[N])
    <2> HIDE DEF J, N
    <2>1. Len(J[k]) =< Len(J[N]) /\ Len(J[k]) \in Nat /\ Len(J[N]) \in Nat
        BY <1>2, <1>7 DEF InOrder
    <2> QED BY <1>6, <2>1
<1>9. \A i, l \in 0..N : i =< l /\ Len(J[i]) = Len(J[l]) => Got(s, q, t, i) = Got(s, q, t, l)
    BY <1>1, GotSame DEF IsSent
<1>10. Got(s, q, t, k) = Got(s, q, t, N)
    BY <1>7, <1>8, <1>9
<1> QED BY <1>3, <1>5, <1>10

LEMMA LeaveMessageFrames ==
    ASSUME DecodeInv, LeaveMessage, NEW s, IsSent(s), NEW S, SentFrames(s, S, stack)
    PROVE  SentFrames(s, S, stack')
<1> DEFINE n == Len(stack) - 1
           c == stack[n]
           p == S[n]
           q == S[n + 1]
           e == encodings(s)[Depth]
           G == receivedParts(s)[Depth]
           ps == pieces(e, p)
           t == c.type
           g == lookupNum(t, c.num)
           f == [c EXCEPT !.msg = Store(c.msg, g, top.msg), !.num = 0]
           r == SubSeq(stack, 1, n - 1)
<1>1. /\ IsList(stack) /\ Len(stack) \in Nat /\ DOMAIN stack = 1..Len(stack)
      /\ \A k \in 1..Len(stack) : FrameOK(stack[k])
    BY StackIs DEF DecodeInv
<1>2. Len(stack) > 1 /\ top.end = 0 /\ top.i >= Len(top.data)
    BY DEF LeaveMessage
<1>3. n \in Nat /\ n >= 1 /\ n + 1 = Len(stack) /\ n \in 1..Len(stack) /\ n - 1 \in 0..Len(stack) /\ n \in 1..(Len(stack) - 1)
    BY <1>1, <1>2
<1>4. stack' = Append(r, f)
    BY DEF LeaveMessage
<1>5. top = stack[n + 1]
    BY <1>3 DEF top
<1>6. FrameOK(c) /\ c.end = 0 /\ g.schema = top.type
    BY <1>1, <1>3, <1>5 DEF DecodeInv, Calls
<1>7. top.msg = G[q][g.schema]
    BY <1>2, <1>3, <1>6, NestedGot
<1>8. SentPart(s, p, c) /\ InNested(s, p, c, q, top)
    <2>1. SentPart(s, S[n], stack[n])
        BY <1>3 DEF SentFrames
    <2>2. InNested(s, S[n], stack[n], S[n + 1], stack[n + 1])
        BY <1>3 DEF SentFrames
    <2> QED BY <1>5, <2>1, <2>2
<1>9. p \in parts(s) /\ Reads(p.type, t)
    BY <1>8 DEF SentPart
<1> HIDE DEF p, q, G, c
<1>10. PICK k, y :
           /\ k \in 1..Len(ps)
           /\ IsSingle(e, p, carried(p.type, ps)[k - 1].msg, ps[k], y) /\ ps[k].num \in Nums(t) /\ ps[k].bytes # <<>>
           /\ lookupNum(p.type, ps[k].num).type = "message" /\ q = Msg(lookupNum(p.type, ps[k].num).schema, y)
           /\ c.num = ps[k].num /\ c.i = Len(joined(ps)[k])
           /\ c.msg = MakeList(Got(s, p, t, k - 1), lookupNum(t, ps[k].num))
    BY <1>8, Zenon DEF InNested
<1> DEFINE x == ps[k]
           m == carried(p.type, ps)[k - 1].msg
           h == lookupNum(p.type, x.num)
<1>11. Adds(e, G, p, m, x, t, Got(s, p, t, k - 1), Got(s, p, t, k))
    BY <1>9, <1>10, GotNext DEF IsSent, G
<1>12. Got(s, p, t, k) = Store(Got(s, p, t, k - 1), g, receivedOne(G, h, g, y))
    BY <1>10, <1>11, Zenon DEF Adds
<1>13. receivedOne(G, h, g, y) = top.msg
    BY <1>7, <1>10 DEF receivedOne
<1>14. Store(c.msg, g, top.msg) = Got(s, p, t, k)
    <2>1. c.msg = MakeList(Got(s, p, t, k - 1), g)
        BY <1>10
    <2> QED BY <1>12, <1>13, <2>1, StoreIs
<1> HIDE DEF g
<1>15. f.type = c.type /\ f.data = c.data /\ f.i = Len(joined(ps)[k]) /\ f.msg = Got(s, p, t, k) /\ f.end = 0
    BY <1>6, <1>10, <1>14 DEF FrameOK
<1> HIDE DEF f
<1>16. AtPiece(s, p, f)
    <2>1. k \in 0..Len(ps)
        BY <1>10
    <2> QED BY <1>15, <2>1 DEF AtPiece
<1>17. IsList(r) /\ Len(r) = n - 1 /\ \A i \in 1..(n - 1) : r[i] = stack[i]
    BY <1>1, <1>3, FrontOfList
<1> HIDE DEF r, n
<1> DEFINE z == stack'
<1>18. Len(z) = n /\ z[n] = f /\ \A i \in 1..(n - 1) : z[i] = stack[i]
    <2>1. (n - 1) + 1 = n
        BY <1>3
    <2>2. Len(z) = (n - 1) + 1 /\ z[(n - 1) + 1] = f /\ \A i \in 1..(n - 1) : z[i] = r[i]
        BY <1>4, <1>17, AppendToList
    <2> QED BY <1>17, <2>1, <2>2
<1> HIDE DEF z
<1>19. SentFrames(s, S, z)
    <2>1. f.type = stack[n].type /\ f.data = stack[n].data /\ AtPiece(s, S[n], f)
        BY <1>15, <1>16 DEF c, p
    <2> QED BY <1>3, <1>18, <2>1, FramesPop
<1> QED BY <1>19 DEF z

-----------------------------------------------------------------------------
(* The beginning and the end *)

\* The call that will decode s.
Waits(s) == Len(stack) = 1 /\ SentPart(s, s, stack[1]) /\ stack[1].i = 0 /\ stack[1].end = 0

LEMMA StartFrames ==
    ASSUME DecodeInv, Start, NEW s, IsSent(s), Waits(s)
    PROVE  \E S : SentFrames(s, S, stack')
<1> DEFINE f == [stack[1] EXCEPT !.msg = <<>>]
           e == encodings(s)[Depth]
           ps == pieces(e, s)
           S == [k \in 1..1 |-> s]
<1>1. /\ IsList(stack) /\ 1 \in DOMAIN stack /\ FrameOK(stack[1]) /\ Len(stack) = 1
    BY StackIs DEF DecodeInv, Waits
<1>2. stack' = [stack EXCEPT ![1] = f]
    BY <1>1 DEF Start
<1>3. f.type = stack[1].type /\ f.data = stack[1].data /\ f.i = 0 /\ f.msg = <<>> /\ f.end = 0
    BY <1>1 DEF FrameOK, Waits
<1> HIDE DEF f
<1>4. Len(stack') = 1 /\ stack'[1] = f
    BY <1>1, <1>2, ChangeInList, ZenonT(40)
<1>5. SentPart(s, s, f)
    BY <1>3 DEF Waits, SentPart
<1>6. s \in parts(s) /\ f.type \in Type
    BY <1>5 DEF SentPart, Reads
<1>7. AtPiece(s, s, f)
    <2>1. Len(ps) \in Nat /\ joined(ps)[0] = <<>>
        BY <1>6, PartInOrder
    <2>2. Got(s, s, f.type, 0) = <<>>
        BY <1>6, GotEnds DEF IsSent
    <2>3. 0 \in 0..Len(ps) /\ f.i = Len(joined(ps)[0])
        BY <1>3, <2>1
    <2> QED BY <1>3, <2>2, <2>3 DEF AtPiece
<1>8. S[1] = s
    OBVIOUS
<1> HIDE DEF S
<1>9. SentFrames(s, S, stack')
    BY <1>4, <1>5, <1>7, <1>8 DEF SentFrames
<1> QED BY <1>9

\* The call has returned d after a beginning of the encoding of s arrived: it has what the
\* pieces before the cut carry, and any more that no byte tells.
Outcome(s, fr, d) ==
    LET ps == pieces(encodings(s)[Depth], s)
        J == joined(ps)
        cut == Len(fr.data)
    IN  /\ s \in parts(s) /\ Reads(s.type, fr.type)
        /\ \E k \in 0..Len(ps) :
              /\ fr.msg = Got(s, s, fr.type, k) /\ Len(J[k]) =< cut
              /\ \A l \in 0..Len(ps) : k =< l /\ Len(J[l]) =< cut => Len(J[l]) = Len(J[k])
              /\ d = IF Len(J[k]) = cut THEN "nil" ELSE "ErrTruncated"

LEMMA FailOutcome ==
    ASSUME DecodeInv, Fail, NEW s, IsSent(s), NEW S, SentFrames(s, S, stack)
    PROVE  Outcome(s, stack'[1], err')
<1> DEFINE p == S[Len(stack)]
           ps == pieces(encodings(s)[Depth], s)
           J == joined(ps)
           N == Len(ps)
           cut == Len(top.data)
<1>1. AtKey /\ stepErr # "nil" /\ stack' = <<stack[1]>> /\ err' = stepErr
    BY DEF Fail, Return
<1>2. /\ Len(stack) \in Nat /\ Len(stack) >= 1 /\ FrameOK(top)
      /\ p \in parts(s) /\ Reads(p.type, top.type) /\ cut \in Nat /\ top.i \in 0..cut
    BY TopIsAt
<1>3. PICK k, v : NextRead(s, p, top, k, v) /\ StepIs(s, p, k, v)
    BY <1>1, KeyReads
<1>4. ~(Len(joined(pieces(encodings(s)[Depth], p))[k]) =< cut) /\ stepErr = "ErrTruncated"
    BY <1>1, <1>3 DEF StepIs
<1>5. Len(stack) = 1
    <2>1. ~(Len(stack) > 1)
        BY <1>3, <1>4, NestedIsWhole
    <2>2. \A a \in Nat : a >= 1 /\ ~(a > 1) => a = 1
        OBVIOUS
    <2> QED BY <1>2, <2>1, <2>2
<1>6. p = s /\ top = stack[1]
    BY <1>5 DEF SentFrames, top
<1>7. k \in 1..N /\ top.i = Len(J[k - 1]) /\ top.msg = Got(s, s, top.type, k - 1)
    BY <1>3, <1>6 DEF NextRead
<1>8. N \in Nat /\ InOrder(J, BytesOf(ps), N)
    BY <1>2, <1>6, PartInOrder
<1>9. ~(Len(J[k]) =< cut) /\ top.i < cut
    BY <1>1, <1>4, <1>6 DEF AtKey
<1>10. stack'[1] = top /\ err' = "ErrTruncated" /\ s \in parts(s) /\ Reads(s.type, top.type)
    BY <1>1, <1>2, <1>4, <1>6
<1> HIDE DEF J, N, cut
<1>11. \A l \in 0..N : k - 1 =< l /\ Len(J[l]) =< cut => Len(J[l]) = Len(J[k - 1])
    <2> SUFFICES ASSUME NEW l \in 0..N, k - 1 =< l, Len(J[l]) =< cut PROVE l = k - 1
        OBVIOUS
    <2>1. SUFFICES ASSUME k =< l PROVE FALSE
        BY <1>7
    <2>2. k \in 0..N
        BY <1>7
    <2>3. Len(J[k]) =< Len(J[l]) /\ Len(J[k]) \in Nat /\ Len(J[l]) \in Nat
        BY <1>8, <2>1, <2>2 DEF InOrder
    <2> QED BY <1>2, <1>9, <2>3
<1>12. k - 1 \in 0..N /\ Len(J[k - 1]) =< cut /\ Len(J[k - 1]) # cut
    BY <1>2, <1>7, <1>8, <1>9
<1>13. Outcome(s, top, "ErrTruncated")
    BY <1>7, <1>10, <1>11, <1>12 DEF Outcome, J, N, cut
<1> QED BY <1>10, <1>13

LEMMA FinishOutcome ==
    ASSUME DecodeInv, Finish, NEW s, IsSent(s), NEW S, SentFrames(s, S, stack)
    PROVE  Outcome(s, stack'[1], err')
<1> DEFINE p == S[Len(stack)]
           ps == pieces(encodings(s)[Depth], s)
           J == joined(ps)
           N == Len(ps)
           cut == Len(top.data)
<1>1. top.end = 0 /\ Len(stack) = 1 /\ top.i >= cut /\ stack' = stack /\ err' = "nil"
    BY DEF Finish
<1>2. /\ p \in parts(s) /\ Reads(p.type, top.type) /\ cut \in Nat /\ top.i \in 0..cut /\ AtPiece(s, p, top)
    BY <1>1, TopIsAt
<1>3. p = s /\ top = stack[1]
    BY <1>1 DEF SentFrames, top
<1>4. PICK k \in 0..N : top.i = Len(J[k]) /\ top.msg = Got(s, s, top.type, k)
    BY <1>2, <1>3 DEF AtPiece
<1>5. N \in Nat /\ InOrder(J, BytesOf(ps), N)
    BY <1>2, <1>3, PartInOrder
<1>6. stack'[1] = top /\ s \in parts(s) /\ Reads(s.type, top.type)
    BY <1>1, <1>2, <1>3
<1> HIDE DEF J, N, cut
<1>7. Len(J[k]) = cut
    BY <1>1, <1>2, <1>4
<1>8. \A l \in 0..N : k =< l /\ Len(J[l]) =< cut => Len(J[l]) = Len(J[k])
    <2> SUFFICES ASSUME NEW l \in 0..N, k =< l, Len(J[l]) =< cut PROVE Len(J[l]) = cut
        BY <1>7
    <2>1. Len(J[k]) =< Len(J[l]) /\ Len(J[l]) \in Nat
        BY <1>5 DEF InOrder
    <2> QED BY <1>2, <1>7, <2>1
<1>9. Len(J[k]) =< cut
    BY <1>2, <1>7
<1>10. Outcome(s, top, "nil")
    BY <1>4, <1>6, <1>7, <1>8, <1>9 DEF Outcome, J, N, cut
<1> QED BY <1>1, <1>6, <1>10

LEMMA MaxIs ==
    ASSUME NEW n \in Nat, NEW W \in SUBSET (0..n), NEW k \in W
    PROVE  Max(W) \in W /\ \A y \in W : y =< Max(W)
<1> DEFINE V == {d \in Nat : n - d \in W}
<1>1. n - k \in V
    BY DEF V
<1>2. PICK d \in V : \A c \in V : d =< c
    BY <1>1, LeastNat
<1>3. n - d \in W /\ \A y \in W : n - d >= y
    <2> SUFFICES ASSUME NEW y \in W PROVE n - d >= y
        BY <1>2
    <2>1. n - y \in V
        OBVIOUS
    <2> QED BY <1>2, <2>1
<1>4. Max(W) \in W /\ \A y \in W : Max(W) >= y
    BY <1>3 DEF Max
<1> QED BY <1>4

\* The properties of a call that has returned.
LEMMA OutcomeIs ==
    ASSUME IsSent(sent), Outcome(sent, stack[1], err)
    PROVE  RoundTrip /\ CutIsFound
<1> DEFINE fr == stack[1]
           t == fr.type
           ps == pieces(encodings(sent)[Depth], sent)
           J == joined(ps)
           N == Len(ps)
           cut == Len(fr.data)
           W == {l \in 0..N : Len(J[l]) =< cut}
           w == Max(W)
<1>1. sent \in parts(sent) /\ Reads(sent.type, t)
    BY DEF Outcome
<1>2. PICK k \in 0..N :
          /\ fr.msg = Got(sent, sent, t, k) /\ Len(J[k]) =< cut
          /\ \A l \in 0..N : k =< l /\ Len(J[l]) =< cut => Len(J[l]) = Len(J[k])
          /\ err = IF Len(J[k]) = cut THEN "nil" ELSE "ErrTruncated"
    BY DEF Outcome
<1>3. N \in Nat
    BY <1>1, PartInOrder
<1>4. \A i, l \in 0..N : i =< l /\ Len(J[i]) = Len(J[l]) => Got(sent, sent, t, i) = Got(sent, sent, t, l)
    BY <1>1, GotSame DEF IsSent
<1> HIDE DEF J, N, cut
<1>5. k \in W /\ W \in SUBSET (0..N)
    BY <1>2
<1>6. w \in W /\ k =< w
    <2> HIDE DEF W
    <2> QED BY <1>3, <1>5, MaxIs
<1>7. w \in 0..N /\ Len(J[w]) =< cut
    BY <1>6
<1> HIDE DEF W, w
<1>8. Len(J[w]) = Len(J[k]) /\ Got(sent, sent, t, k) = Got(sent, sent, t, w)
    BY <1>2, <1>4, <1>6, <1>7
<1>9. wholePieces = w
    BY DEF wholePieces, sentPieces, arrived, w, W, J, N, cut
<1>10. RoundTrip
    <2>1. Received(sent, t, w) = Got(sent, sent, t, w)
        BY DEF Received, Got
    <2> QED BY <1>2, <1>8, <1>9, <2>1 DEF RoundTrip
<1>11. CutIsFound
    <2>1. Len(joined(sentPieces)[wholePieces]) = Len(J[k]) /\ arrived = cut
        BY <1>8, <1>9 DEF sentPieces, arrived, J, cut
    <2> QED BY <1>2, <2>1 DEF CutIsFound
<1> QED BY <1>10, <1>11

-----------------------------------------------------------------------------
(* Messages that can be sent on *)

LEMMA NestedFrom ==
    ASSUME NEW p, NEW q \in nested(p)
    PROVE  \E n \in DOMAIN p.msg : \E v \in held(lookupNum(p.type, n), p.msg[n]) :
               lookupNum(p.type, n).type = "message" /\ v # NoMessage /\ q = Msg(lookupNum(p.type, n).schema, v)
BY DEF nested

\* A message whose parts are messages has parts whose parts are.
LEMMA SentIs ==
    ASSUME NEW p
    PROVE  IsSent(p) <=> IsMessage(p) /\ \A q \in nested(p) : IsSent(q)
<1>1. ASSUME IsSent(p) PROVE IsMessage(p) /\ \A q \in nested(p) : IsSent(q)
    <2>1. p \in parts(p) /\ \A x \in parts(p) : nested(x) \subseteq parts(p)
        BY <1>1, PartsClose DEF IsSent
    <2>2. ASSUME NEW q \in nested(p) PROVE IsSent(q)
        <3>1. q \in parts(p)
            BY <2>1, <2>2
        <3>2. parts(q) \subseteq parts(p)
            BY <2>1, <3>1, PartsIn
        <3> QED BY <1>1, <3>2 DEF IsSent
    <2> QED BY <1>1, <2>1, <2>2 DEF IsSent
<1>2. ASSUME IsMessage(p), \A q \in nested(p) : IsSent(q) PROVE IsSent(p)
    <2> DEFINE G == {p} \cup UNION {parts(q) : q \in nested(p)}
    <2>1. \A q \in nested(p) : q \in parts(q) /\ \A x \in parts(q) : nested(x) \subseteq parts(q)
        BY <1>2, PartsClose DEF IsSent
    <2>2. \A x \in G : nested(x) \subseteq G
        <3> SUFFICES ASSUME NEW x \in G PROVE nested(x) \subseteq G
            OBVIOUS
        <3>1. CASE x = p
            BY <2>1, <3>1
        <3>2. CASE x # p
            <4>1. PICK q \in nested(p) : x \in parts(q)
                BY <3>2
            <4>2. nested(x) \subseteq parts(q)
                BY <2>1, <4>1
            <4> QED BY <4>2
        <3> QED BY <3>1, <3>2
    <2>3. p \in G
        OBVIOUS
    <2>4. \A x \in G : IsMessage(x)
        BY <1>2 DEF IsSent
    <2> HIDE DEF G
    <2>5. parts(p) \subseteq G
        BY <2>2, <2>3, PartsIn
    <2> QED BY <2>4, <2>5 DEF IsSent
<1> QED BY <1>1, <1>2

LEMMA NoFieldsSent ==
    ASSUME NEW t \in Type
    PROVE  IsSent(Msg(t, <<>>))
<1> DEFINE p == Msg(t, <<>>)
<1>1. p.type = t /\ p.msg = <<>> /\ DOMAIN p.msg = {}
    BY DEF Msg
<1> HIDE DEF p
<1>2. IsMessage(p)
    BY <1>1 DEF IsMessage
<1>3. \A q \in nested(p) : FALSE
    BY <1>1, NestedFrom
<1>4. IsSent(p)
    BY <1>2, <1>3, SentIs
<1> QED BY <1>4 DEF p

\* A field gets a value.
Keeps(f, w) == /\ Holds(f, w)
               /\ f.type = "message" => \A u \in held(f, w) : u # NoMessage => IsSent(Msg(f.schema, u))

LEMMA KeptValue ==
    ASSUME NEW p, IsSent(p), NEW n \in DOMAIN p.msg
    PROVE  Keeps(lookupNum(p.type, n), p.msg[n])
<1> DEFINE f == lookupNum(p.type, n)
           w == p.msg[n]
<1>1. IsMessage(p) /\ \A q \in nested(p) : IsSent(q)
    BY SentIs
<1>2. Holds(f, w)
    BY <1>1 DEF IsMessage
<1>3. ASSUME f.type = "message", NEW u \in held(f, w), u # NoMessage PROVE IsSent(Msg(f.schema, u))
    BY <1>1, <1>3, HeldIsNested
<1> QED BY <1>2, <1>3 DEF Keeps

LEMMA WithSent ==
    ASSUME NEW t \in Type, NEW m, IsSent(Msg(t, m)), NEW n \in Nums(t), NEW w, Keeps(lookupNum(t, n), w)
    PROVE  IsSent(Msg(t, With(m, n, w)))
<1> DEFINE z == With(m, n, w)
           p == Msg(t, m)
           q == Msg(t, z)
<1>1. p.type = t /\ p.msg = m /\ q.type = t /\ q.msg = z
    BY DEF Msg
<1>2. /\ n \in DOMAIN z /\ z[n] = w /\ DOMAIN z = DOMAIN m \cup {n}
      /\ \A k \in DOMAIN m : k # n => z[k] = m[k]
    BY DEF With
<1> HIDE DEF p, q, z
<1>3. IsSent(p) /\ IsMessage(p)
    BY SentIs DEF p
<1>4. \A k \in DOMAIN z : Keeps(lookupNum(t, k), z[k])
    <2> SUFFICES ASSUME NEW k \in DOMAIN z PROVE Keeps(lookupNum(t, k), z[k])
        OBVIOUS
    <2>1. CASE k = n
        BY <1>2, <2>1
    <2>2. CASE k # n
        <3>1. k \in DOMAIN p.msg /\ z[k] = p.msg[k]
            BY <1>1, <1>2, <2>2
        <3> QED BY <1>1, <1>3, <3>1, KeptValue
    <2> QED BY <2>1, <2>2
<1>5. IsMessage(q)
    <2>1. DOMAIN m \subseteq Nums(t)
        BY <1>1, <1>3 DEF IsMessage
    <2>2. \A k \in DOMAIN z : Holds(lookupNum(t, k), z[k])
        BY <1>4 DEF Keeps
    <2> QED BY <1>1, <1>2, <2>1, <2>2 DEF IsMessage
<1>6. ASSUME NEW x \in nested(q) PROVE IsSent(x)
    <2>1. PICK k \in DOMAIN z : \E v \in held(lookupNum(t, k), z[k]) :
              lookupNum(t, k).type = "message" /\ v # NoMessage /\ x = Msg(lookupNum(t, k).schema, v)
        BY <1>1, <1>6, NestedFrom
    <2> QED BY <1>4, <2>1 DEF Keeps
<1>7. IsSent(q)
    BY <1>5, <1>6, SentIs
<1> QED BY <1>7 DEF q, z

LEMMA ListSent ==
    ASSUME NEW t \in Type, NEW m, IsSent(Msg(t, m)), NEW n \in Nums(t), NEW f, f = lookupNum(t, n)
    PROVE  IsSent(Msg(t, MakeList(m, f)))
<1>1. f.num = n
    BY LookupIs
<1>2. CASE f.repeated /\ n \notin DOMAIN m
    <2>1. MakeList(m, f) = With(m, n, <<>>)
        BY <1>1, <1>2 DEF MakeList
    <2>2. Keeps(f, <<>>)
        BY <1>2, NoElements DEF Keeps, Holds, held
    <2> QED BY <2>1, <2>2, WithSent
<1>3. CASE ~(f.repeated /\ n \notin DOMAIN m)
    BY <1>1, <1>3 DEF MakeList
<1> QED BY <1>2, <1>3

LEMMA StoreSent ==
    ASSUME NEW t \in Type, NEW m, IsSent(Msg(t, m)), NEW n \in Nums(t), NEW f, f = lookupNum(t, n),
           NEW v, HoldsOne(f, v), f.type = "message" => IsSent(Msg(f.schema, v))
    PROVE  IsSent(Msg(t, Store(m, f, v)))
<1> DEFINE made == MakeList(m, f)
<1>1. f.num = n
    BY LookupIs
<1>2. IsSent(Msg(t, made))
    BY ListSent
<1>3. CASE ~f.repeated
    <2>1. Store(m, f, v) = With(made, n, v)
        BY <1>1, <1>3 DEF Store
    <2>2. Keeps(f, v)
        BY <1>3 DEF Keeps, Holds, held
    <2> HIDE DEF made
    <2> QED BY <1>2, <2>1, <2>2, WithSent
<1>4. CASE f.repeated
    <2> DEFINE l == made[n]
               w == Append(l, v)
               p == Msg(t, made)
    <2>1. Store(m, f, v) = With(made, n, w)
        BY <1>1, <1>4 DEF Store
    <2>2. n \in DOMAIN made
        BY <1>1, <1>4, WithIs DEF MakeList
    <2> HIDE DEF made
    <2>3. p.type = t /\ p.msg = made
        BY DEF Msg
    <2> HIDE DEF p
    <2>4. Keeps(f, l)
        BY <1>2, <2>2, <2>3, KeptValue DEF p
    <2> HIDE DEF l
    <2>5. IsList(l) /\ \A j \in DOMAIN l : (f.type = "message" /\ l[j] = NoMessage) \/ HoldsOne(f, l[j])
        BY <1>4, <2>4 DEF Keeps, Holds
    <2>6. Len(l) \in Nat /\ DOMAIN l = 1..Len(l)
        BY <2>5, ListLen
    <2>7. /\ IsList(w) /\ DOMAIN w = 1..(Len(l) + 1) /\ w[Len(l) + 1] = v
          /\ \A k \in 1..Len(l) : w[k] = l[k]
        BY <2>5, AppendToList
    <2> HIDE DEF w
    <2>8. \A j \in DOMAIN w : (j \in DOMAIN l /\ w[j] = l[j]) \/ w[j] = v
        BY <2>6, <2>7
    <2>9. Holds(f, w)
        BY <1>4, <2>5, <2>7, <2>8 DEF Holds
    <2>10. ASSUME f.type = "message", NEW u \in held(f, w), u # NoMessage PROVE IsSent(Msg(f.schema, u))
        <3>1. PICK j \in DOMAIN w : u = w[j]
            BY <1>4, <2>10 DEF held
        <3>2. CASE u = v
            BY <2>10, <3>2
        <3>3. CASE u # v
            <4>1. u \in held(f, l)
                BY <1>4, <2>8, <3>1, <3>3 DEF held
            <4> QED BY <2>4, <2>10, <4>1 DEF Keeps
        <3> QED BY <3>2, <3>3
    <2>11. Keeps(f, w)
        BY <2>9, <2>10 DEF Keeps
    <2> QED BY <1>2, <2>1, <2>11, WithSent
<1> QED BY <1>3, <1>4

-----------------------------------------------------------------------------
(* What a decoder has, whatever the bytes, is a message that can be sent *)

Content(fr) == Msg(fr.type, fr.msg)
Kept == err # "idle" => \A k \in DOMAIN stack : IsSent(Content(stack[k]))

LEMMA UpdateKept ==
    ASSUME DecodeInv, Kept, NEW f, Update(f), UNCHANGED err, err = "running", IsSent(Content(f))
    PROVE  Kept'
<1> DEFINE n == Len(stack)
<1>1. n \in DOMAIN stack /\ IsList(stack)
    BY StackIs DEF DecodeInv
<1>2. stack' = [stack EXCEPT ![n] = f]
    BY DEF Update
<1>3. DOMAIN stack' = DOMAIN stack /\ \A k \in DOMAIN stack : stack'[k] = IF k = n THEN f ELSE stack[k]
    BY <1>1, <1>2, ChangeInList, ZenonT(40)
<1>4. \A k \in DOMAIN stack : IsSent(Content(stack[k]))
    BY DEF Kept
<1>5. \A k \in DOMAIN stack' : IsSent(Content(stack'[k]))
    <2> SUFFICES ASSUME NEW k \in DOMAIN stack' PROVE IsSent(Content(stack'[k]))
        OBVIOUS
    <2>1. stack'[k] = f \/ stack'[k] = stack[k]
        BY <1>3
    <2> QED BY <1>3, <1>4, <2>1
<1> QED BY <1>5 DEF Kept

LEMMA TopKept ==
    ASSUME DecodeInv, Kept, err = "running"
    PROVE  top.type \in Type /\ IsSent(Msg(top.type, top.msg)) /\ FrameOK(top)
<1>1. Len(stack) \in DOMAIN stack /\ FrameOK(top)
    BY StackIs
<1> QED BY <1>1 DEF Kept, Content, top, FrameOK

LEMMA ReturnKept ==
    ASSUME DecodeInv, Kept, err = "running", NEW e, Return(e)
    PROVE  Kept'
<1>1. 1 \in DOMAIN stack
    BY StackIs
<1>2. IsSent(Content(stack[1]))
    BY <1>1 DEF Kept
<1> DEFINE f == stack[1]
<1>3. stack' = <<f>>
    BY DEF Return
<1> HIDE DEF f
<1>4. \A k \in DOMAIN stack' : stack'[k] = f
    BY <1>3
<1> QED BY <1>2, <1>4 DEF Kept, f

LEMMA StartKept ==
    ASSUME DecodeInv, Start, Len(stack) = 1
    PROVE  Kept'
<1> DEFINE f == [stack[1] EXCEPT !.msg = <<>>]
<1>1. IsList(stack) /\ DOMAIN stack = 1..1 /\ 1 \in DOMAIN stack /\ FrameOK(stack[1])
    BY StackIs DEF DecodeInv
<1>2. stack' = [stack EXCEPT ![1] = f]
    BY <1>1 DEF Start
<1>3. f.type \in Type /\ f.msg = <<>>
    BY <1>1 DEF FrameOK
<1> HIDE DEF f
<1>4. DOMAIN stack' = 1..1 /\ stack'[1] = f
    BY <1>1, <1>2, ChangeInList, ZenonT(40)
<1>5. IsSent(Content(f))
    BY <1>3, NoFieldsSent DEF Content
<1> QED BY <1>4, <1>5 DEF Kept

LEMMA SkipKept ==
    ASSUME DecodeInv, Kept, SkipField
    PROVE  Kept'
<1> DEFINE f == [top EXCEPT !.i = skipField(top.data, at, wt).i]
<1>1. err = "running" /\ Update(f) /\ UNCHANGED err
    BY DEF SkipField, AtKey
<1>2. IsSent(Msg(top.type, top.msg)) /\ FrameOK(top)
    BY <1>1, TopKept
<1>3. f.type = top.type /\ f.msg = top.msg
    BY <1>2 DEF FrameOK
<1> HIDE DEF f
<1> QED BY <1>1, <1>2, <1>3, UpdateKept DEF Content

LEMMA ScalarKept ==
    ASSUME DecodeInv, Kept, DecodeScalar
    PROVE  Kept'
<1> DEFINE m == Store(top.msg, fs, payload.v)
           f == [top EXCEPT !.i = payload.i, !.msg = m]
<1>1. err = "running" /\ Update(f) /\ UNCHANGED err /\ AtField /\ ~Packed /\ fs.type # "message"
    BY DEF DecodeScalar, AtField, AtKey
<1>2. top.type \in Type /\ IsSent(Msg(top.type, top.msg)) /\ FrameOK(top)
    BY <1>1, TopKept
<1>3. fs.num \in Nums(top.type) /\ fs = lookupNum(top.type, fs.num) /\ HoldsOne(fs, payload.v)
    BY <1>1, FieldIs DEF HoldsOne
<1>4. IsSent(Msg(top.type, m))
    BY <1>1, <1>2, <1>3, StoreSent
<1> HIDE DEF m
<1>5. f.type = top.type /\ f.msg = m
    BY <1>2 DEF FrameOK
<1> HIDE DEF f
<1> QED BY <1>1, <1>4, <1>5, UpdateKept DEF Content

LEMMA EnterPackedKept ==
    ASSUME DecodeInv, Kept, EnterPacked
    PROVE  Kept'
<1> DEFINE m == MakeList(top.msg, fs)
           f == [top EXCEPT !.i = payload.i - Len(payload.v), !.end = payload.i,
                            !.num = fs.num, !.msg = m]
<1>1. err = "running" /\ Update(f) /\ UNCHANGED err /\ AtField
    BY DEF EnterPacked, AtField, AtKey
<1>2. top.type \in Type /\ IsSent(Msg(top.type, top.msg)) /\ FrameOK(top)
    BY <1>1, TopKept
<1>3. fs.num \in Nums(top.type) /\ fs = lookupNum(top.type, fs.num)
    BY <1>1, FieldIs
<1>4. IsSent(Msg(top.type, m))
    BY <1>2, <1>3, ListSent
<1> HIDE DEF m
<1>5. f.type = top.type /\ f.msg = m
    BY <1>2 DEF FrameOK
<1> HIDE DEF f
<1> QED BY <1>1, <1>4, <1>5, UpdateKept DEF Content

LEMMA ElementKept ==
    ASSUME DecodeInv, Kept, PackedElement
    PROVE  Kept'
<1> DEFINE g == lookupNum(top.type, top.num)
           m == Store(top.msg, g, element.v)
           f == [top EXCEPT !.i = element.i, !.msg = m]
<1>1. err = "running" /\ Update(f) /\ UNCHANGED err /\ AtElement /\ element.err = "nil"
    BY DEF PackedElement, AtElement
<1>2. top.type \in Type /\ IsSent(Msg(top.type, top.msg)) /\ FrameOK(top)
    BY <1>1, TopKept
<1>3. top.num \in Nums(top.type) /\ FitsOne(g, element.v)
    BY <1>1, ElementIs
<1>4. g.type # "message"
    <2>1. top.end # 0
        BY <1>1, <1>2 DEF AtElement, FrameOK
    <2> QED BY <1>2, <2>1 DEF FrameOK, Packable
<1>5. HoldsOne(g, element.v)
    BY <1>3, <1>4 DEF HoldsOne
<1>6. IsSent(Msg(top.type, m))
    <2> DEFINE v == element.v
               i == top.num
    <2>1. HoldsOne(g, v) /\ i \in Nums(top.type) /\ g = lookupNum(top.type, i)
        BY <1>3, <1>5
    <2> HIDE DEF g, v, i
    <2>2. IsSent(Msg(top.type, Store(top.msg, g, v)))
        BY <1>2, <1>4, <2>1, StoreSent
    <2> QED BY <2>2 DEF v
<1> HIDE DEF m
<1>7. f.type = top.type /\ f.msg = m
    BY <1>2 DEF FrameOK
<1> HIDE DEF f
<1> QED BY <1>1, <1>6, <1>7, UpdateKept DEF Content

LEMMA LeavePackedKept ==
    ASSUME DecodeInv, Kept, LeavePacked
    PROVE  Kept'
<1> DEFINE f == [top EXCEPT !.i = top.end, !.num = 0, !.end = 0]
<1>1. err = "running" /\ Update(f) /\ UNCHANGED err
    BY DEF LeavePacked
<1>2. IsSent(Msg(top.type, top.msg)) /\ FrameOK(top)
    BY <1>1, TopKept
<1>3. f.type = top.type /\ f.msg = top.msg
    BY <1>2 DEF FrameOK
<1> HIDE DEF f
<1> QED BY <1>1, <1>2, <1>3, UpdateKept DEF Content

LEMMA EnterMessageKept ==
    ASSUME DecodeInv, Kept, EnterMessage
    PROVE  Kept'
<1> DEFINE n == Len(stack)
           m == MakeList(top.msg, fs)
           f == [top EXCEPT !.i = payload.i, !.num = fs.num, !.msg = m]
           g == Frame(fs.schema, payload.v, <<>>)
           c == [stack EXCEPT ![n] = f]
<1>1. err = "running" /\ UNCHANGED err /\ AtField /\ fs.type = "message"
    BY DEF EnterMessage, AtField, AtKey
<1>2. top.type \in Type /\ IsSent(Msg(top.type, top.msg)) /\ FrameOK(top)
    BY <1>1, TopKept
<1>3. fs.num \in Nums(top.type) /\ fs = lookupNum(top.type, fs.num) /\ fs.schema \in Type
    BY <1>1, FieldIs
<1>4. IsSent(Msg(top.type, m))
    BY <1>2, <1>3, ListSent
<1>5. IsList(stack) /\ n \in Nat /\ DOMAIN stack = 1..n /\ n \in DOMAIN stack
    BY StackIs DEF DecodeInv
<1>6. stack' = Append([stack EXCEPT ![n].i = payload.i, ![n].num = fs.num, ![n].msg = m], g)
    BY DEF EnterMessage
<1> HIDE DEF m
<1>7. [stack EXCEPT ![n].i = payload.i, ![n].num = fs.num, ![n].msg = m] = c
    BY <1>5 DEF top
<1>8. f.type = top.type /\ f.msg = m
    BY <1>2 DEF FrameOK
<1> HIDE DEF f
<1>9. g.type = fs.schema /\ g.msg = <<>>
    BY DEF Frame
<1> HIDE DEF g
<1>10. IsSent(Content(f)) /\ IsSent(Content(g))
    BY <1>3, <1>4, <1>8, <1>9, NoFieldsSent DEF Content
<1>11. IsList(c) /\ Len(c) = n /\ \A k \in 1..n : c[k] = f \/ c[k] = stack[k]
    BY <1>5, ChangeInList
<1>12. stack' = Append(c, g)
    BY <1>6, <1>7
<1>13. \A k \in DOMAIN stack : IsSent(Content(stack[k]))
    BY <1>1 DEF Kept
<1> HIDE DEF n, c
<1>14. /\ DOMAIN stack' = 1..(n + 1) /\ stack'[n + 1] = g
       /\ \A k \in 1..n : stack'[k] = c[k]
    BY <1>11, <1>12, AppendToList
<1>15. \A k \in DOMAIN stack' : IsSent(Content(stack'[k]))
    <2> SUFFICES ASSUME NEW k \in DOMAIN stack' PROVE IsSent(Content(stack'[k]))
        OBVIOUS
    <2>1. k = n + 1 \/ k \in 1..n
        BY <1>5, <1>14
    <2>2. stack'[k] = g \/ stack'[k] = f \/ (k \in DOMAIN stack /\ stack'[k] = stack[k])
        BY <1>5, <1>11, <1>14, <2>1
    <2> QED BY <1>10, <1>13, <2>2
<1> QED BY <1>15 DEF Kept

LEMMA LeaveMessageKept ==
    ASSUME DecodeInv, Kept, LeaveMessage
    PROVE  Kept'
<1> DEFINE n == Len(stack) - 1
           c == stack[n]
           g == lookupNum(c.type, c.num)
           m == Store(c.msg, g, top.msg)
           f == [c EXCEPT !.msg = m, !.num = 0]
           s == SubSeq(stack, 1, n - 1)
<1>1. /\ IsList(stack) /\ Len(stack) \in Nat /\ DOMAIN stack = 1..Len(stack)
      /\ FrameOK(top) /\ (\A k \in 1..Len(stack) : FrameOK(stack[k])) /\ err = "running"
      /\ \A k \in DOMAIN stack : IsSent(Content(stack[k]))
    BY StackIs DEF DecodeInv, Kept, LeaveMessage
<1>2. n \in Nat \ {0} /\ n + 1 = Len(stack) /\ n \in 1..Len(stack) /\ n - 1 \in 0..Len(stack)
    BY <1>1 DEF LeaveMessage
<1>3. stack' = Append(s, f)
    BY DEF LeaveMessage
<1>4. FrameOK(c) /\ c.num \in Nums(c.type) /\ g.type = "message" /\ g.schema = top.type
    BY <1>1, <1>2 DEF DecodeInv, Calls, top
<1>5. IsSent(Msg(c.type, c.msg)) /\ c.type \in Type
    BY <1>1, <1>2, <1>4 DEF Content, FrameOK
<1>6. IsSent(Msg(top.type, top.msg))
    BY <1>1, TopKept
<1>7. HoldsOne(g, top.msg)
    <2>1. top.type \in Type /\ DOMAIN top.msg \subseteq Nums(top.type)
        BY <1>1 DEF FrameOK, MessageOK
    <2>2. top.msg # NoMessage
        BY <2>1, NilAssumption
    <2> QED BY <1>4, <2>1, <2>2 DEF HoldsOne, FitsOne
<1>8. IsSent(Msg(c.type, m))
    <2> DEFINE v == top.msg
               i == c.num
    <2>1. HoldsOne(g, v) /\ i \in Nums(c.type) /\ g = lookupNum(c.type, i) /\ IsSent(Msg(g.schema, v))
        BY <1>4, <1>6, <1>7
    <2> HIDE DEF g, v, i, c
    <2>2. IsSent(Msg(c.type, Store(c.msg, g, v)))
        BY <1>5, <2>1, StoreSent
    <2> QED BY <2>2 DEF v
<1> HIDE DEF m
<1>9. f.type = c.type /\ f.msg = m
    BY <1>4 DEF FrameOK
<1> HIDE DEF f
<1>10. IsSent(Content(f))
    BY <1>8, <1>9 DEF Content
<1>11. IsList(s) /\ Len(s) = n - 1 /\ \A k \in 1..(n - 1) : s[k] = stack[k]
    BY <1>1, <1>2, FrontOfList
<1> HIDE DEF s, n
<1>12. DOMAIN stack' = 1..n /\ stack'[n] = f /\ \A k \in 1..(n - 1) : stack'[k] = stack[k]
    <2>1. (n - 1) + 1 = n
        BY <1>2
    <2> QED BY <1>3, <1>11, <2>1, AppendToList
<1>13. \A k \in DOMAIN stack' : IsSent(Content(stack'[k]))
    <2> SUFFICES ASSUME NEW k \in DOMAIN stack' PROVE IsSent(Content(stack'[k]))
        OBVIOUS
    <2>1. k = n \/ (k \in 1..(n - 1) /\ k \in DOMAIN stack)
        BY <1>1, <1>2, <1>12
    <2> QED BY <1>1, <1>10, <1>12, <2>1
<1> QED BY <1>13 DEF Kept

-----------------------------------------------------------------------------
(* The invariant of sender and receiver *)

\* A call of DecodeProto that has not begun, for bytes that were sent.
SentInv ==
    sent # NothingSent =>
        /\ IsSent(sent)
        /\ err = "idle" => Waits(sent)
        /\ err = "running" => \E S : SentFrames(sent, S, stack)
        /\ err \in Errors => Outcome(sent, stack[1], err)

WireInv == /\ DecodeInv /\ Kept /\ SentInv
           /\ err = "idle" => Len(stack) = 1

LEMMA FrameIs ==
    ASSUME NEW t, NEW data, NEW m
    PROVE  LET g == Frame(t, data, m)
           IN  g.type = t /\ g.data = data /\ g.i = 0 /\ g.msg = m /\ g.end = 0
BY DEF Frame

LEMMA WaitsFor ==
    ASSUME NEW s, IsSent(s), NEW t, Reads(s.type, t), NEW data, NEW m,
           HasRoom(encodeProtoBytes(s)), Has(data, 0, encodeProtoBytes(s)),
           Len(data) =< Len(encodeProtoBytes(s))
    PROVE  SentPart(s, s, Frame(t, data, m))
<1>1. s \in parts(s)
    BY PartsClose DEF IsSent
<1> DEFINE g == Frame(t, data, m)
<1>2. g.type = t /\ g.data = data
    BY FrameIs
<1> HIDE DEF g
<1>3. SentPart(s, s, g)
    BY <1>1, <1>2 DEF SentPart, encodeProtoBytes
<1> QED BY <1>3 DEF g

LEMMA WireInvInit == WireInit => WireInv
<1>1. ASSUME Init, sent = NothingSent PROVE WireInv
    <2>1. DecodeInv
        BY <1>1, DecodeInvInit
    <2>2. Len(stack) = 1 /\ err = "idle"
        BY <1>1 DEF Init
    <2> QED BY <1>1, <2>1, <2>2 DEF WireInv, Kept, SentInv
<1>2. ASSUME NEW s \in Sent, NEW n \in 0..Len(encodeProtoBytes(s)),
             stack = <<Frame(Receiver[s.type], SubSeq(encodeProtoBytes(s), 1, n), Before[Receiver[s.type]])>>,
             sent = s, err = "idle"
      PROVE  WireInv
    <2> DEFINE bytes == encodeProtoBytes(s)
               data == SubSeq(bytes, 1, n)
               t == Receiver[s.type]
               m == Before[t]
    <2>1. IsSent(s) /\ HasRoom(bytes)
        BY SentAssumption DEF IsSent
    <2>2. s \in parts(s) /\ IsMessage(s)
        BY <2>1, PartsClose DEF IsSent
    <2>3. bytes \in Seq(Byte)
        BY <2>1, <2>2, EncodingBytes DEF IsSent, encodeProtoBytes
    <2>4. s.type \in Type /\ t \in Type /\ Reads(s.type, t)
        BY <2>2, ReceiverAssumption DEF IsMessage, Reads
    <2>5. MessageOK(t, m)
        BY <2>4, BeforeAssumption DEF MessageOK
    <2> HIDE DEF bytes
    <2>6. Len(bytes) \in Nat /\ n \in 0..Len(bytes)
        BY <2>3, LenProperties DEF bytes
    <2>7. data \in Seq(Byte) /\ Len(data) = n /\ \A j \in 1..n : data[j] = bytes[j]
        BY <2>3, <2>6, SubSeqProperties
    <2>8. stack = <<Frame(t, data, m)>>
        BY <1>2 DEF bytes
    <2> HIDE DEF data, t, m
    <2>9. Has(data, 0, bytes) /\ Len(data) =< Len(bytes)
        BY <2>6, <2>7 DEF Has
    <2>10. SentPart(s, s, Frame(t, data, m))
        BY <2>1, <2>4, <2>9, WaitsFor DEF bytes
    <2>11. DecodeInv
        BY <1>2, <2>4, <2>5, <2>7, <2>8, IdleIs
    <2>12. stack[1] = Frame(t, data, m) /\ Len(stack) = 1
        BY <2>8
    <2>13. Waits(s)
        BY <2>10, <2>12, FrameIs DEF Waits
    <2>14. err # "running" /\ err \notin Errors
        BY <1>2 DEF Errors
    <2> QED BY <1>2, <2>1, <2>11, <2>12, <2>13, <2>14 DEF WireInv, Kept, SentInv
<1> QED BY <1>1, <1>2 DEF WireInit

LEMMA RelayKeeps ==
    ASSUME WireInv, Relay
    PROVE  WireInv'
<1>0. PICK t, m : t = stack[1].type /\ m = stack[1].msg
    OBVIOUS
<1> DEFINE s == Msg(t, m)
           bytes == encodeProtoBytes(s)
<1>1. err = "nil" /\ sent' = s /\ HasRoom(bytes) /\ stack' = <<Frame(t, bytes, m)>> /\ err' = "idle"
    BY <1>0 DEF Relay
<1>2. t \in Type /\ MessageOK(t, m) /\ IsSent(s)
    <2>1. 1 \in DOMAIN stack /\ FrameOK(stack[1])
        BY StackIs DEF WireInv
    <2> QED BY <1>0, <1>1, <2>1 DEF WireInv, Kept, Content, FrameOK
<1>3. s.type = t
    BY DEF Msg
<1> HIDE DEF s
<1>4. s \in parts(s)
    BY <1>2, PartsClose DEF IsSent
<1>5. bytes \in Seq(Byte)
    BY <1>2, <1>4, EncodingBytes DEF IsSent, encodeProtoBytes
<1>6. Reads(s.type, t)
    BY <1>2, <1>3 DEF Reads
<1>7. SentPart(s, s, Frame(t, bytes, m))
    <2>1. Has(bytes, 0, bytes)
        BY DEF Has
    <2>2. Len(bytes) \in Nat
        BY <1>5, LenProperties
    <2>3. Len(bytes) =< Len(bytes)
        BY <2>2
    <2> QED BY <1>1, <1>2, <1>6, <2>1, <2>3, WaitsFor
<1> HIDE DEF bytes
<1> DEFINE st == stack'
<1>8. IsList(st) /\ Len(st) = 1 /\ st # <<>> /\ st[1] = Frame(t, bytes, m) /\ \A k \in DOMAIN st : FrameOK(st[k])
    <2>1. st = <<Frame(t, bytes, m)>>
        BY <1>1
    <2> HIDE DEF st
    <2> QED BY <1>2, <1>5, <2>1, IdleOK
<1>9. DecodeInv'
    BY <1>1, <1>8 DEF DecodeInv, Calls
<1>10. Waits(s)'
    <2>1. SentPart(s, s, st[1]) /\ st[1].i = 0 /\ st[1].end = 0
        BY <1>7, <1>8, FrameIs
    <2> QED BY <1>8, <2>1 DEF Waits
<1>11. err' # "running" /\ err' \notin Errors
    BY <1>1 DEF Errors
<1>12. SentInv'
    BY <1>1, <1>2, <1>10, <1>11 DEF SentInv
<1>13. Kept'
    BY <1>1 DEF Kept
<1> QED BY <1>8, <1>9, <1>12, <1>13 DEF WireInv

LEMMA DecodeKept ==
    ASSUME WireInv, Decode
    PROVE  Kept'
<1>1. DecodeInv /\ Kept /\ (err = "idle" => Len(stack) = 1)
    BY DEF WireInv
<1>2. CASE Start
    BY <1>1, <1>2, StartKept DEF Start
<1>3. CASE Fail
    BY <1>1, <1>3, ReturnKept DEF Fail, AtKey
<1>4. CASE SkipField
    BY <1>1, <1>4, SkipKept
<1>5. CASE DecodeScalar
    BY <1>1, <1>5, ScalarKept
<1>6. CASE EnterMessage
    BY <1>1, <1>6, EnterMessageKept
<1>7. CASE LeaveMessage
    BY <1>1, <1>7, LeaveMessageKept
<1>8. CASE EnterPacked
    BY <1>1, <1>8, EnterPackedKept
<1>9. CASE PackedElement
    BY <1>1, <1>9, ElementKept
<1>10. CASE PackedFail
    BY <1>1, <1>10, ReturnKept DEF PackedFail, AtElement
<1>11. CASE LeavePacked
    BY <1>1, <1>11, LeavePackedKept
<1>12. CASE Finish
    BY <1>1, <1>12 DEF Finish, Kept
<1> QED BY <1>2, <1>3, <1>4, <1>5, <1>6, <1>7, <1>8, <1>9, <1>10, <1>11, <1>12 DEF Decode

\* Of the bytes that were sent, every step reads what the encoder wrote.
Goes(s) == \/ err' = "running" /\ \E S : SentFrames(s, S, stack')
           \/ err' \in Errors /\ Outcome(s, stack'[1], err')

LEMMA DecodeGoes ==
    ASSUME WireInv, Decode, sent # NothingSent
    PROVE  Goes(sent)
<1>1. DecodeInv /\ IsSent(sent)
    BY DEF WireInv, SentInv
<1>2. CASE Start
    <2>1. Waits(sent)
        BY <1>2 DEF WireInv, SentInv, Start
    <2> QED BY <1>1, <1>2, <2>1, StartFrames DEF Start, Goes
<1>3. ASSUME err = "running" PROVE Goes(sent)
    <2>1. PICK S : SentFrames(sent, S, stack)
        BY <1>3 DEF WireInv, SentInv
    <2>2. CASE Fail
        <3>1. err' \in Errors
            BY <1>1, <2>2, StepErrIs DEF Fail, Return
        <3> QED BY <1>1, <2>1, <2>2, <3>1, FailOutcome DEF Goes
    <2>3. ASSUME \E Z : SentFrames(sent, Z, stack'), UNCHANGED err PROVE Goes(sent)
        BY <1>3, <2>3 DEF Goes
    <2>4. CASE SkipField
        BY <1>1, <2>1, <2>3, <2>4, SkipFrames DEF SkipField
    <2>5. CASE DecodeScalar
        BY <1>1, <2>1, <2>3, <2>5, ScalarFrames DEF DecodeScalar
    <2>6. CASE EnterMessage
        BY <1>1, <2>1, <2>3, <2>6, EnterMessageFrames DEF EnterMessage
    <2>7. CASE LeaveMessage
        BY <1>1, <2>1, <2>3, <2>7, LeaveMessageFrames DEF LeaveMessage
    <2>8. CASE EnterPacked
        BY <1>1, <2>1, <2>3, <2>8, EnterPackedFrames DEF EnterPacked
    <2>9. CASE PackedElement
        BY <1>1, <2>1, <2>3, <2>9, ElementFrames DEF PackedElement
    <2>10. CASE PackedFail
        BY <1>1, <2>1, <2>10, NoPackedFail
    <2>11. CASE LeavePacked
        BY <1>1, <2>1, <2>3, <2>11, LeavePackedFrames DEF LeavePacked
    <2>12. CASE Finish
        <3>1. err' \in Errors
            BY <2>12 DEF Finish, Errors
        <3> QED BY <1>1, <2>1, <2>12, <3>1, FinishOutcome DEF Goes
    <2>13. ~Start
        BY <1>3 DEF Start
    <2> QED BY <2>2, <2>4, <2>5, <2>6, <2>7, <2>8, <2>9, <2>10, <2>11, <2>12, <2>13 DEF Decode
<1>4. ASSUME ~Start PROVE err = "running"
    BY <1>4 DEF Decode, Fail, SkipField, DecodeScalar, EnterMessage, LeaveMessage, EnterPacked,
               PackedElement, PackedFail, LeavePacked, Finish, AtField, AtKey, AtElement
<1> QED BY <1>2, <1>3, <1>4

LEMMA WireInvNext == WireInv /\ [WireNext]_wireVars => WireInv'
<1> SUFFICES ASSUME WireInv, [WireNext]_wireVars
             PROVE  WireInv'
    OBVIOUS
<1>1. CASE Decode /\ UNCHANGED sent
    <2>1. DecodeInv'
        BY <1>1, DecodeInvNext DEF WireInv
    <2>2. Kept'
        BY <1>1, DecodeKept
    <2>3. err' # "idle"
        <3>1. ASSUME ~Start PROVE err = "running"
            BY <1>1, <3>1 DEF Decode, Fail, SkipField, DecodeScalar, EnterMessage, LeaveMessage, EnterPacked,
                       PackedElement, PackedFail, LeavePacked, Finish, AtField, AtKey, AtElement
        <3>2. CASE Fail
            <4>1. stepErr \in Errors /\ err' = stepErr
                BY <3>2, StepErrIs DEF Fail, WireInv, Return
            <4> QED BY <4>1 DEF Errors
        <3>3. CASE PackedFail
            <4>1. element.err \in Errors /\ err' = element.err
                BY <3>3, ElementIs DEF PackedFail, WireInv, Return, Ends
            <4> QED BY <4>1 DEF Errors
        <3>4. CASE ~Fail /\ ~PackedFail
            <4>1. err' = err \/ err' = "running" \/ err' = "nil"
                BY <1>1, <3>4 DEF Decode, Start, SkipField, DecodeScalar, EnterMessage, LeaveMessage,
                       EnterPacked, PackedElement, LeavePacked, Finish
            <4>2. Start => err' = "running"
                BY DEF Start
            <4> QED BY <3>1, <4>1, <4>2
        <3> QED BY <3>2, <3>3, <3>4
    <2>4. SentInv'
        <3> SUFFICES ASSUME sent # NothingSent
                     PROVE  /\ IsSent(sent)
                            /\ err' = "running" => \E S : SentFrames(sent, S, stack')
                            /\ err' \in Errors => Outcome(sent, stack'[1], err')
            BY <1>1, <2>3 DEF SentInv
        <3>1. IsSent(sent)
            BY DEF WireInv, SentInv
        <3>2. Goes(sent)
            BY <1>1, DecodeGoes
        <3>3. "running" \notin Errors
            BY DEF Errors
        <3> QED BY <3>1, <3>2, <3>3 DEF Goes
    <2> QED BY <2>1, <2>2, <2>3, <2>4 DEF WireInv
<1>2. CASE Relay
    BY <1>2, RelayKeeps
<1>3. CASE UNCHANGED wireVars
    <2>1. stack' = stack /\ err' = err /\ sent' = sent
        BY <1>3 DEF wireVars
    <2>2. DecodeInv'
        BY <2>1, DecodeInvNext DEF WireInv, protoVars
    <2>3. Kept' /\ SentInv'
        BY <2>1 DEF WireInv, Kept, SentInv, Waits
    <2> QED BY <2>1, <2>2, <2>3 DEF WireInv
<1> QED BY <1>1, <1>2, <1>3 DEF WireNext

\* Sender and receiver: the decoder's invariant; what it has can be sent on, in all its
\* parts; and its calls are in the parts of the message that was sent, at a piece or in a
\* packed list of each, with what the pieces before carry.
THEOREM WireInvariance == WireSpec => []WireInv
<1>1. WireInit => WireInv
    BY WireInvInit
<1>2. WireInv /\ [WireNext]_wireVars => WireInv'
    BY WireInvNext
<1> QED BY <1>1, <1>2, PTL DEF WireSpec

\* Whatever messages are encoded, cut and decoded, the decoder keeps its positions, its
\* types and its step.
THEOREM WireDecodes == WireSpec => [](TypeOK /\ OnBoundary)
<1>1. WireInv => TypeOK /\ OnBoundary
    BY DEF WireInv, DecodeInv, TypeOK, OnBoundary, FrameOK, MessageOK
<1> QED BY <1>1, WireInvariance, PTL

LEMMA InvEnded ==
    ASSUME WireInv
    PROVE  RoundTrip /\ CutIsFound
<1>1. CASE Ended
    <2>1. IsSent(sent) /\ Outcome(sent, stack[1], err)
        BY <1>1 DEF Ended, WireInv, SentInv
    <2> QED BY <2>1, OutcomeIs
<1>2. CASE ~Ended
    BY <1>2 DEF RoundTrip, CutIsFound
<1> QED BY <1>1, <1>2

\* Of every message, whatever its schema, the sizes of the encoding and the fields that the
\* receiver knows, cut at whatever byte, what DecodeProto stores is what the fields
\* and elements that arrived as a whole carry.
THEOREM MessagesArrive == WireSpec => []RoundTrip
<1>1. WireInv => RoundTrip
    BY InvEnded
<1> QED BY <1>1, WireInvariance, PTL

\* And DecodeProto returns nil where the bytes end between two fields, ErrTruncated where
\* they do not, and no other error.
THEOREM CutsAreFound == WireSpec => []CutIsFound
<1>1. WireInv => CutIsFound
    BY InvEnded
<1> QED BY <1>1, WireInvariance, PTL
=============================================================================
