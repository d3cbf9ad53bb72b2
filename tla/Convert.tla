------------------------------- MODULE Convert -------------------------------
(***************************************************************************)
(* The conversion of the scalars that Set and Append are given, convert.go.*)
(*                                                                         *)
(* An argument is a Go value of a basic type, or of a named type with such *)
(* an underlying type.  Reflection finds the value of a named type, and    *)
(* the same is done with it, except where the kinds whose names begin with *)
(* named, and bytesOfNamed, are told apart below.  int, int8 and int16 go  *)
(* the way of int64 and int32, and the unsigned ones likewise.             *)
(***************************************************************************)
EXTENDS Numbers

CONSTANT Exponent      \* halves: numbers from here on are formatted with an exponent

\* Every integer, and every float32, is far below the largest double.
ASSUME ConvertAssumption ==
    /\ Exponent \in Nat
    /\ 2 * MaxUint(64) =< Largest[64] /\ 2 * Largest[32] =< Largest[64]

\* The widths of the kinds of numbers.
IntKind == [int32 |-> 32, int64 |-> 64]
UintKind == [uint32 |-> 32, uint64 |-> 64]
FloatKind == [float32 |-> 32, float64 |-> 64, namedFloat32 |-> 32]
NumberKind == DOMAIN IntKind \cup DOMAIN UintKind \cup DOMAIN FloatKind
StringKind == {"string", "namedString"}
Kind == NumberKind \cup StringKind \cup {"bytes", "bytesOfNamed", "bool", "other"}

\* A Go value; namedFloat32 and namedString are named types, bytesOfNamed is a slice whose
\* elements have one, []B with type B byte, and other is any value of no kind listed, like
\* a nil interface.
Arg(kind, v) == [kind |-> kind, v |-> v]

\* A text is a number as strconv reads it, or no number.  Its sign may be a plus;
\* digits tells whether it has digits only behind the sign.
Numeral(f, sign, digits) == <<"numeral", [f |-> f, sign |-> sign, digits |-> digits]>>
Word(w) == <<"word", w>>
IsNumeral(text) == text[1] = "numeral"

\* Digits only are a whole number; a minus is there for a number below zero, and only for
\* it and for zero.
IsText(text) ==
    IsNumeral(text) =>
        LET t == text[2] IN
        /\ t.digits \in BOOLEAN /\ t.sign \in {"", "+", "-"}
        /\ IF IsFinite(t.f)
           THEN /\ t.f = Finite(t.f[2]) /\ t.f[2] \in Int
                /\ t.digits => t.f[2] % 2 = 0
                /\ t.f[2] < 0 => t.sign = "-"
                /\ t.f[2] > 0 => t.sign # "-"
           ELSE t.f \in {NaN, Inf(1), Inf(-1)} /\ ~t.digits

IsArg(arg) ==
    /\ arg.kind \in Kind
    /\ arg.kind \in DOMAIN IntKind => arg.v \in IntOf(IntKind[arg.kind])
    /\ arg.kind \in DOMAIN UintKind => arg.v \in UintOf(UintKind[arg.kind])
    /\ arg.kind \in DOMAIN FloatKind => arg.v \in FloatOf[FloatKind[arg.kind]]
    /\ arg.kind \in StringKind => IsText(arg.v)
    /\ arg.kind = "bool" => arg.v \in BOOLEAN

Converted(v) == [err |-> "nil", v |-> v]
Mismatch == [err |-> "ErrTypeMismatch", v |-> 0]
Panic == [err |-> "panic", v |-> 0]
When(ok, v) == IF ok THEN Converted(v) ELSE Mismatch

-----------------------------------------------------------------------------
(* To integers *)

\* math.Trunc, of halves.
Trunc(h) == IF h < 0 THEN -(-h \div 2) ELSE h \div 2

checkInt(n, w) == When(n >= MinInt(w) /\ n =< MaxInt(w), n)
checkUintToInt(u, w) == When(u =< MaxInt(w), u)
checkIntToUint(n, w) == When(n >= 0 /\ n =< MaxUint(w), n)
checkUintRange(u, w) == When(u =< MaxUint(w), u)

\* Mutant: compares with the largest int64, which is rounded up when it becomes a float.
checkFloatToInt_Closed(f, w) ==
    IF ~IsFinite(f) THEN Mismatch
    ELSE LET t == Trunc(f[2])
         IN  IF w = 32 THEN When(t >= MinInt(32) /\ t =< MaxInt(32), t)
             ELSE When(t >= MinInt(64) /\ 2 * t =< Rounded(2 * MaxInt(64), 64)[2], t)

\* For 32 bits the bounds are floats themselves; for 64 the upper one is not, and the
\* next power of two is compared with.
checkFloatToInt(f, w) ==
    IF ~IsFinite(f) THEN Mismatch
    ELSE LET t == Trunc(f[2])
         IN  IF w = 32 THEN When(t >= MinInt(32) /\ t =< MaxInt(32), t)
             ELSE When(t >= MinInt(64) /\ t < MaxInt(64) + 1, t)

checkFloatToUint(f, w) ==
    IF ~IsFinite(f) THEN Mismatch
    ELSE LET t == Trunc(f[2])
         IN  IF w = 32 THEN When(t >= 0 /\ t =< MaxUint(32), t)
             ELSE When(t >= 0 /\ t < MaxUint(64) + 1, t)

\* strconv.ParseInt takes a sign, ParseUint does not.
ParseInt(text, w) == IF IsNumeral(text) /\ text[2].digits
                     THEN checkInt(text[2].f[2] \div 2, w) ELSE Mismatch
ParseUint(text, w) == IF IsNumeral(text) /\ text[2].digits /\ text[2].sign = ""
                      THEN checkUintRange(text[2].f[2] \div 2, w) ELSE Mismatch

convertInt(arg, w) ==
    CASE arg.kind \in DOMAIN IntKind -> checkInt(arg.v, w)
      [] arg.kind \in DOMAIN UintKind -> checkUintToInt(arg.v, w)
      [] arg.kind \in DOMAIN FloatKind -> checkFloatToInt(arg.v, w)
      [] arg.kind \in StringKind -> ParseInt(arg.v, w)
      [] OTHER -> Mismatch

convertUint(arg, w) ==
    CASE arg.kind \in DOMAIN IntKind -> checkIntToUint(arg.v, w)
      [] arg.kind \in DOMAIN UintKind -> checkUintRange(arg.v, w)
      [] arg.kind \in DOMAIN FloatKind -> checkFloatToUint(arg.v, w)
      [] arg.kind \in StringKind -> ParseUint(arg.v, w)
      [] OTHER -> Mismatch

-----------------------------------------------------------------------------
(* To floats *)

\* strconv.ParseFloat also reads "NaN" and "Inf"; it fails on what is too large.
ParseFloat(text) ==
    IF ~IsNumeral(text) THEN Mismatch
    ELSE IF ~IsFinite(text[2].f) THEN Converted(text[2].f)
    ELSE LET f == Rounded(text[2].f[2], 64) IN When(IsFinite(f), f)

convertFloat(arg) ==
    CASE arg.kind \in DOMAIN IntKind \cup DOMAIN UintKind -> Converted(Rounded(2 * arg.v, 64))
      [] arg.kind \in DOMAIN FloatKind -> Converted(arg.v)
      [] arg.kind \in StringKind -> ParseFloat(arg.v)
      [] OTHER -> Mismatch

\* Infinity is passed on, but a finite number does not become it.
toFloat32(f) == IF ~IsFinite(f) THEN Converted(f)
                ELSE When(IsFinite(Rounded(f[2], 32)), Rounded(f[2], 32))

-----------------------------------------------------------------------------
(* To bool, string and bytes *)

convertBool(arg) == When(arg.kind = "bool", arg.v)

Minus(n) == IF n < 0 THEN "-" ELSE ""
FormatInt(n) == Numeral(Finite(2 * n), Minus(n), TRUE)

\* The powers of ten.
powerOfTen[n \in Nat] == n = 1 \/ (n # 0 /\ n % 10 = 0 /\ powerOfTen[n \div 10])

\* The units, in halves, that the last digit of a text of h halves may have.
LastUnit(h) == {u \in 1..h : u = 1 \/ (u % 2 = 0 /\ powerOfTen[u \div 2])}

\* Of the multiples of unit next to h those that are read as h.
ReadAs(h, unit, w) ==
    LET below == h - (h % unit)
    IN  {t \in {below, below + unit} : Rounded(t, w) = Finite(h)}

\* The fewest digits that are read as h, and of these the nearest.
Shortest(h, w) ==
    IF h = 0 THEN 0
    ELSE LET unit == CHOOSE u \in LastUnit(h) :
                        /\ ReadAs(h, u, w) # {}
                        /\ \A v \in LastUnit(h) : v > u => ReadAs(h, v, w) = {}
         IN  CHOOSE t \in ReadAs(h, unit, w) :
                Nearest(h, unit) \in ReadAs(h, unit, w) => t = Nearest(h, unit)

\* The text t with the sign of f.  A large one has an exponent, so not digits only.
NumeralOf(f, t) == Numeral(Finite(IF f[2] < 0 THEN -t ELSE t), Minus(f[2]), t % 2 = 0 /\ t < Exponent)

\* Mutant: every float is formatted as a float32.
FormatFloat_Narrow(f, w) ==
    LET g == IF IsFinite(f) THEN Rounded(f[2], 32) ELSE f
    IN  IF IsFinite(g) THEN NumeralOf(g, Shortest(Abs(g[2]), 32)) ELSE Numeral(g, "", FALSE)

\* The shortest text that is read as f at width w; it need not be f itself.  "NaN", "+Inf"
\* and "-Inf" read as themselves.
FormatFloat(f, w) ==
    IF IsFinite(f) THEN NumeralOf(f, Shortest(Abs(f[2]), w)) ELSE Numeral(f, "", FALSE)

\* A float32 is formatted as one only when its type is float32 itself.
formatWidth(kind) == IF kind = "float32" THEN 32 ELSE 64

convertString(arg) ==
    CASE arg.kind \in StringKind \cup {"bytes", "bytesOfNamed"} -> Converted(arg.v)
      [] arg.kind \in DOMAIN IntKind \cup DOMAIN UintKind -> Converted(FormatInt(arg.v))
      [] arg.kind \in DOMAIN FloatKind -> Converted(FormatFloat(arg.v, formatWidth(arg.kind)))
      [] OTHER -> Mismatch

\* A string of a named type is not looked for; reflect.Copy needs elements of the same type.
convertBytes(arg) ==
    CASE arg.kind \in {"string", "bytes"} -> Converted(arg.v)
      [] arg.kind = "bytesOfNamed" -> Panic
      [] OTHER -> Mismatch

convertScalar(ft, arg) ==
    CASE ft = "int32" -> convertInt(arg, 32)
      [] ft = "int64" -> convertInt(arg, 64)
      [] ft = "uint32" -> convertUint(arg, 32)
      [] ft = "uint64" -> convertUint(arg, 64)
      [] ft = "float" -> LET f == convertFloat(arg)
                         IN  IF f.err = "nil" THEN toFloat32(f.v) ELSE f
      [] ft = "double" -> convertFloat(arg)
      [] ft = "bool" -> convertBool(arg)
      [] ft = "string" -> convertString(arg)
      [] ft = "bytes" -> convertBytes(arg)
      [] OTHER -> Mismatch
-----------------------------------------------------------------------------
(* What a conversion should give *)

IntegerField == [int32 |-> IntOf(32), int64 |-> IntOf(64), uint32 |-> UintOf(32), uint64 |-> UintOf(64)]
FloatField == [float |-> 32, double |-> 64]

\* The number that an argument is or that its text is.
IsNumber(arg) == \/ arg.kind \in NumberKind
                 \/ arg.kind \in StringKind /\ IsNumeral(arg.v)
NumberOf(arg) ==
    CASE arg.kind \in StringKind -> arg.v[2].f
      [] arg.kind \in DOMAIN FloatKind -> arg.v
      [] OTHER -> Finite(2 * arg.v)

\* A text for an integer has digits only, and a sign only when the field can be negative.
IsTextFor(ft, text) == text[2].digits /\ (ft \in {"uint32", "uint64"} => text[2].sign = "")

\* An integer field takes the number without its fraction when that is one of its own.
ToInteger(ft, arg) ==
    LET fits == {n \in IntegerField[ft] :
                    /\ IsNumber(arg) /\ IsFinite(NumberOf(arg))
                    /\ n = Trunc(NumberOf(arg)[2])
                    /\ arg.kind \in StringKind => IsTextFor(ft, arg.v)}
    IN  IF fits = {} THEN Mismatch ELSE Converted(CHOOSE n \in fits : TRUE)

\* v is a float of width w with no other between it and h halves.
IsNeighbour(v, h, w) ==
    /\ v \in FloatOf[w] /\ IsFinite(v)
    /\ ~\E g \in FloatOf[w] : /\ IsFinite(g)
                             /\ \/ v[2] < g[2] /\ g[2] =< h
                                \/ h =< g[2] /\ g[2] < v[2]

\* A float field takes a number that is not too large for it, rounded up or down when it
\* is not a float of that width, and what is not finite as it is.  A number that is larger
\* than every float, but would be rounded down, may be refused: it is rounded twice.
ToFloat(ft, arg, r) ==
    LET f == NumberOf(arg)
        w == FloatField[ft]
    IN  \/ ~IsNumber(arg) /\ r = Mismatch
        \/ IsNumber(arg) /\ ~IsFinite(f) /\ r = Converted(f)
        \/ /\ IsNumber(arg) /\ IsFinite(f)
           /\ \/ r.err = "nil" /\ IsFinite(Rounded(f[2], w)) /\ IsNeighbour(r.v, f[2], w)
              \/ r = Mismatch /\ Abs(f[2]) > Largest[w]

\* h halves are just in the middle between two numbers of p bits.
IsMiddle(h, p) ==
    LET unit == twoTo[Scale(Abs(h), p)]
    IN  2 * (Abs(h) % unit) = unit
=============================================================================
