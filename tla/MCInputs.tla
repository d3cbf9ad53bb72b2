------------------------------ MODULE MCInputs ------------------------------
(* Instances of Inputs for TLC.  Integers have 4 and 6 bits, floats significands of 3 and
   4: as in Go, a wide float has all narrow integers and a narrow one does not, the
   largest wide integer is no float, and the largest float is beyond all integers.  The
   float32 320 has the text 3e+02, which is read as the double 288, in the middle between
   the float32s 256 and 320. *)
EXTENDS Inputs, TLC

CONSTANTS
    Letter,            \* the characters of paths that mean nothing
    MaxPath,           \* bound: the length of a path
    MaxFields          \* bound: the fields of a message in a configuration

MCBits == 32 :> 4 @@ 64 :> 6
MCPrecision == 32 :> 3 @@ 64 :> 4
MCMaxScale == 32 :> 7 @@ 64 :> 7

MCDigit == "0" :> 0 @@ "9" :> 9
MCChar == Letter \cup DOMAIN MCDigit \cup {".", "[", "]", "-"}
MCPath == UNION {[1..n -> MCChar] : n \in 0..MaxPath}

-----------------------------------------------------------------------------
(* Arguments: every number of each kind, texts of numbers on both sides of every bound,
   and values of the other kinds. *)
MCText ==
    {Numeral(Finite(h), sign, digits) :
        h \in -140..140 \cup 570..650 \cup 890..970 \cup {-2000, -1920, 1920, 1983, 1984, 2000},
        sign \in {"", "+", "-"}, digits \in BOOLEAN}
MCArg ==
    {Arg("int32", n) : n \in IntOf(32)} \cup {Arg("int64", n) : n \in IntOf(64)}
    \cup {Arg("uint32", n) : n \in UintOf(32)} \cup {Arg("uint64", n) : n \in UintOf(64)}
    \cup {Arg(k, f) : k \in {"float32", "namedFloat32"}, f \in FloatOf[32]}
    \cup {Arg("float64", f) : f \in FloatOf[64]}
    \cup {Arg("string", t) : t \in {t \in MCText : IsText(t)}}
    \cup {Arg("string", Numeral(f, "", FALSE)) : f \in {NaN, Inf(1), Inf(-1)}}
    \cup {Arg("namedString", Numeral(Finite(h), "", TRUE)) : h \in {0, 20, 500}}
    \cup {Arg(k, Word("w")) : k \in StringKind \cup {"bytes", "bytesOfNamed", "other"}}
    \cup {Arg("bool", b) : b \in BOOLEAN}

-----------------------------------------------------------------------------
(* Configurations: one type with up to MaxFields fields, right and wrong in each respect,
   and configurations of two types. *)
MCRawField(name, ft, num, schema) ==
    [name |-> name, type |-> ft, num |-> num, repeated |-> FALSE, schema |-> schema]

MCLeaf == {MCRawField(<<"a">>, "int32", 1, Absent), MCRawField(<<"a">>, "bytes", 2, Absent),
           MCRawField(<<"9">>, "int32", 1, Absent), MCRawField(<<"-", "a">>, "string", 2, Absent)}
MCWrong == {MCRawField(<<>>, "int32", 2, Absent), MCRawField(<<"a", "]">>, "int32", 2, Absent),
            MCRawField(<<"[", "a">>, "int32", 2, Absent), MCRawField(<<".">>, "int32", 2, Absent),
            MCRawField(<<"a">>, "int", 2, Absent), MCRawField(<<"a">>, "int32", 0, Absent),
            MCRawField(<<"a">>, "int32", MaxNum + 1, Absent),
            MCRawField(<<"a">>, "int32", MaxNum, NullSchema)}
MCFieldList(S) == UNION {[1..n -> S] : n \in 0..MaxFields}
MCNesting ==
    {MCRawField(<<"a">>, "message", 2, s) :
        s \in {Absent, NullSchema, Junk} \cup {Inline(fs) : fs \in MCFieldList(MCLeaf \cup MCWrong)}}
    \cup {MCRawField(<<"9">>, "message", 3, Inline(<<MCRawField(<<"9">>, "message", 3, Inline(fs))>>)) :
            fs \in MCFieldList(MCLeaf)}
MCTypeOf(id, fields) == [typeId |-> id, fields |-> fields]
MCConfig ==
    {Unreadable, Config(<<>>)}
    \cup {Config(<<MCTypeOf(id, fs)>>) : id \in {0, 1, MaxNum, MaxNum + 1}, fs \in MCFieldList(MCLeaf \cup MCWrong)}
    \cup {Config(<<MCTypeOf(1, <<f>>)>>) : f \in MCNesting}
    \cup {Config(<<MCTypeOf(1, <<f, g>>)>>) : f \in MCLeaf, g \in MCNesting}
    \cup {Config(<<MCTypeOf(1, fs), MCTypeOf(id, gs)>>) :
            id \in {1, 2}, fs \in MCFieldList(MCLeaf), gs \in MCFieldList(MCLeaf)}
=============================================================================
