-------------------------------- MODULE Path --------------------------------
(***************************************************************************)
(* The parser of field paths, path.go, and what the readme means by one.   *)
(*                                                                         *)
(* A path is a sequence of characters.  Those that matter are ".", "[",    *)
(* "]" and the decimal digits.  Positions count from 0, as in the code.    *)
(***************************************************************************)
EXTENDS Naturals, Sequences, FiniteSets

CONSTANTS
    Digit,             \* the digits, a function to their values
    MaxIndex           \* the largest int

ASSUME PathAssumption ==
    /\ Digit \in [DOMAIN Digit -> 0..9] /\ DOMAIN Digit \cap {".", "[", "]"} = {}
    /\ MaxIndex \in Nat

NoIndex == [has |-> FALSE, idx |-> 0]
Index(v) == [has |-> TRUE, idx |-> v]
Seg(name, index) == [field |-> name, index |-> index]

-----------------------------------------------------------------------------
(* The parser *)

Digits(content) == \A i \in DOMAIN content : content[i] \in DOMAIN Digit

\* The number that digits stand for.
Decimal(content) ==
    LET value[i \in 0..Len(content)] ==
            IF i = 0 THEN 0 ELSE 10 * value[i - 1] + Digit[content[i]]
    IN  value[Len(content)]

\* Mutant: an index that does not fit counts as no index.
parseIndexContent_Overflow(content) ==
    IF content = <<>> \/ ~Digits(content) THEN [err |-> "ErrIndexOutOfRange", index |-> NoIndex]
    ELSE [err |-> "nil", index |-> IF Decimal(content) > MaxIndex THEN NoIndex
                                   ELSE Index(Decimal(content))]

\* strconv.Atoi fails when the number does not fit.
parseIndexContent(content) ==
    IF content = <<>> \/ ~Digits(content) \/ Decimal(content) > MaxIndex
    THEN [err |-> "ErrIndexOutOfRange", index |-> NoIndex]
    ELSE [err |-> "nil", index |-> Index(Decimal(content))]

\* Where the first of these characters is at or behind pos, or the end.
Until(path, pos, stops) ==
    LET found == {i \in pos..(Len(path) - 1) : path[i + 1] \in stops}
    IN  IF found = {} THEN Len(path) ELSE CHOOSE i \in found : \A j \in found : i =< j

\* One iteration of the loop: the segment at pos and where it ends, or an error.
segment(path, pos) ==
    LET n == Len(path)
        bracket == Until(path, pos, {".", "["})
        name == SubSeq(path, pos + 1, bracket)
        close == Until(path, bracket + 1, {"]"})
        content == parseIndexContent(SubSeq(path, bracket + 2, close))
        Fail(e) == [err |-> e, seg |-> Seg(name, NoIndex), next |-> n]
        Done(index, next) == [err |-> "nil", seg |-> Seg(name, index), next |-> next]
    IN  IF name = <<>> THEN Fail("ErrFieldNotFound")
        ELSE IF bracket = n \/ path[bracket + 1] = "." THEN Done(NoIndex, bracket)
        ELSE IF close = n THEN Fail("ErrFieldNotFound")
        ELSE IF content.err # "nil" THEN Fail(content.err)
        ELSE IF close + 1 < n /\ path[close + 2] # "." THEN Fail("ErrFieldNotFound")
        ELSE Done(content.index, close + 1)

Failed(e) == [err |-> e, segs |-> <<>>]

\* The loop, from each position on.  A dot has to be followed by a segment.
parsePathBuf(path) ==
    LET n == Len(path)
        from[pos \in 0..n] ==
            IF pos = n THEN [err |-> "nil", segs |-> <<>>]
            ELSE LET s == segment(path, pos)
                     rest == from[IF s.next < n THEN s.next + 1 ELSE n]
                 IN  IF s.err # "nil" THEN Failed(s.err)
                     ELSE IF s.next = n - 1 THEN Failed("ErrFieldNotFound")
                     ELSE IF rest.err # "nil" THEN rest
                     ELSE [rest EXCEPT !.segs = <<s.seg>> \o rest.segs]
    IN  from[0]

-----------------------------------------------------------------------------
(* What a path is *)

\* The parts between the dots; the empty path has none.
Parts(path) ==
    LET dots == {0, Len(path) + 1} \cup {i \in DOMAIN path : path[i] = "."}
        dot(k) == CHOOSE d \in dots : Cardinality({e \in dots : e < d}) = k
    IN  IF path = <<>> THEN <<>>
        ELSE [k \in 1..(Cardinality(dots) - 1) |-> SubSeq(path, dot(k - 1) + 1, dot(k) - 1)]

IsIndex(content) == content # <<>> /\ Digits(content) /\ Decimal(content) =< MaxIndex
IsName(part) == part # <<>> /\ \A i \in DOMAIN part : part[i] # "["

\* A part is a name, or a name with an index in brackets.
IsElement(part, i) ==
    /\ i > 1 /\ i < Len(part) /\ part[i] = "[" /\ part[Len(part)] = "]"
    /\ IsName(SubSeq(part, 1, i - 1))
    /\ IsIndex(SubSeq(part, i + 1, Len(part) - 1))
IsPart(part) == IsName(part) \/ \E i \in DOMAIN part : IsElement(part, i)

Means(part) ==
    IF IsName(part) THEN Seg(part, NoIndex)
    ELSE LET i == CHOOSE i \in DOMAIN part : IsElement(part, i)
         IN  Seg(SubSeq(part, 1, i - 1), Index(Decimal(SubSeq(part, i + 1, Len(part) - 1))))

IsPath(path) == \A k \in DOMAIN Parts(path) : IsPart(Parts(path)[k])

\* An index is wrong: behind parts that are right, brackets hold something else.
WrongIndex(path) == \E i, j \in DOMAIN path :
    /\ i < j /\ path[i] = "[" /\ path[j] = "]"
    /\ \A k \in (i + 1)..(j - 1) : path[k] # "]"
    /\ ~IsIndex(SubSeq(path, i + 1, j - 1))
    /\ LET before == Parts(SubSeq(path, 1, i - 1))
       IN  /\ before # <<>> /\ IsName(before[Len(before)])
           /\ \A k \in DOMAIN before : IsPart(before[k])

PathMeans(path) ==
    IF IsPath(path) THEN [err |-> "nil", segs |-> [k \in DOMAIN Parts(path) |-> Means(Parts(path)[k])]]
    ELSE Failed(IF WrongIndex(path) THEN "ErrIndexOutOfRange" ELSE "ErrFieldNotFound")
=============================================================================
