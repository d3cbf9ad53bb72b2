------------------------------- MODULE Inputs -------------------------------
(***************************************************************************)
(* What comes from outside and is checked once: configurations, paths and  *)
(* the arguments of Set and Append.  A job is one such input; the program  *)
(* may then use the result as an input of its own.                         *)
(***************************************************************************)
EXTENDS Path, Convert, SchemaParser

CONSTANTS
    PathInput,         \* the paths
    ArgInput,          \* the arguments
    ConfigInput        \* the configurations

ASSUME InputsAssumption ==
    /\ \A p \in PathInput : p \in Seq(STRING)
    /\ \A a \in ArgInput : IsArg(a)
    /\ \A c \in ConfigInput : c \in RawConfig

VARIABLES
    job,               \* what is parsed or converted
    result             \* what came of it, or NoResult

inputVars == <<job, result>>
NoResult == <<>>

IsJob(kind) == job[1] = kind

Init ==
    /\ \/ \E p \in PathInput : job = <<"path", p>>
       \/ \E a \in ArgInput, ft \in FieldType : job = <<"convert", a, ft>>
       \/ \E c \in ConfigInput : job = <<"config", c>>
    /\ result = NoResult

Begin(kind) == result = NoResult /\ IsJob(kind) /\ UNCHANGED job

Path == Begin("path") /\ result' = parsePathBuf(job[2])
Convert == Begin("convert") /\ result' = convertScalar(job[3], job[2])
Configure == Begin("config") /\ result' = ParseSchema(job[2])

\* A string field that was set to a number is read, and another field is set to the text.
ReadBack ==
    /\ result # NoResult /\ IsJob("convert") /\ job[3] = "string"
    /\ result.err = "nil" /\ job[2].kind \in NumberKind
    /\ \E ft \in FieldType \ {"string"} : job' = <<"convert", Arg("string", result.v), ft, job[2]>>
    /\ result' = NoResult

\* A field is addressed by its name.
Address ==
    /\ result # NoResult /\ IsJob("config") /\ result.err = "nil"
    /\ \E schema \in Range(result.v) : \E name \in NamesIn(schema) : job' = <<"path", name, "field">>
    /\ result' = NoResult

Next == Path \/ Convert \/ Configure \/ ReadBack \/ Address

Spec == Init /\ [][Next]_inputVars

-----------------------------------------------------------------------------
(* Properties *)

Done(kind) == result # NoResult /\ IsJob(kind)

\* A path is accepted exactly when it is names, some with an index, between dots, and
\* gives these in their order; otherwise the error is that of a wrong index exactly when
\* a wrong index is what is found first, also when it is too large for an int.
PathsParsed == Done("path") => result = PathMeans(job[2])

\* A number, or the text of one, becomes what the field can hold of it, and is refused
\* exactly when the field cannot hold it, at every bound of every width.
NumbersConverted ==
    Done("convert") =>
        LET ft == job[3] IN
        /\ ft \in DOMAIN IntegerField => result = ToInteger(ft, job[2])
        /\ ft \in DOMAIN FloatField => ToFloat(ft, job[2], result)

\* A number that was stored as a string and is read by a field of its own type is the
\* same number, whatever digits its text has, and a float field takes NaN and infinity too.
\* Only a float32 may become one next to it: its text has the digits that 32 bits need and
\* is read at 64, and that double can be just in the middle between two of 32 bits.
OwnType == [int32 |-> "int32", int64 |-> "int64", uint32 |-> "uint32", uint64 |-> "uint64",
            float32 |-> "float", namedFloat32 |-> "float", float64 |-> "double"]
TextsReadBack ==
    Done("convert") /\ Len(job) = 4 /\ job[3] = OwnType[job[4].kind] =>
        \/ result = Converted(job[4].v)
        \/ job[4].kind = "float32" /\ IsMiddle(convertFloat(job[2]).v[2], Precision[32])

\* A configuration is accepted exactly when it is as the readme says, and the schemas
\* are then as every other module takes for granted.
ConfigsParsed ==
    Done("config") =>
        /\ (result.err = "nil") = IsConfig(job[2])
        /\ result.err = "nil" =>
              /\ Len(result.v) = Len(job[2][2])
              /\ \A i \in DOMAIN result.v : IsSound(result.v[i], job[2][2][i].typeId)

\* Every field that a configuration declares can be reached: its name is a path to it.
FieldsAddressable ==
    Done("path") /\ Len(job) = 3 => result = [err |-> "nil", segs |-> <<Seg(job[2], NoIndex)>>]
=============================================================================
