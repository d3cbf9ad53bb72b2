-------------------------------- MODULE Json --------------------------------
(***************************************************************************)
(* The JSON decoder of json.go: Message.DecodeJSON on any input.           *)
(*                                                                         *)
(* encoding/json turns the text into values; the code converts these.  It  *)
(* takes the members of an object in the order of a Go map, which is any   *)
(* order.  The calls of decodeJSONObject that nested messages make are a   *)
(* stack of frames.  A step is one member of an object, one element of a   *)
(* list, or a call or return.                                              *)
(***************************************************************************)
EXTENDS Decoded, Numbers

CONSTANTS
    Type,              \* the message types
    NoSchema,          \* the schema of a field that is not a message
    Fields,            \* of each type, its fields in the order of the schema
    Before,            \* what a message of each type holds before it is decoded
    Input,             \* the texts to decode, with the type of the message
    Str,               \* the strings that encoding/json reads from a text: valid UTF-8
    FromBase64,        \* those that are base64, and the bytes they stand for
    NoMessage,         \* the nil element of a list of messages
    Depth              \* how deeply encoding/json lets values nest: 10000

FieldType == {"int32", "int64", "uint32", "uint64", "float", "double",
              "bool", "string", "bytes", "message"}
FieldSchema == [name : STRING, type : FieldType, repeated : BOOLEAN, schema : Type \cup {NoSchema}]

Names(t) == {Fields[t][j].name : j \in DOMAIN Fields[t]}
lookupName(t, name) == Fields[t][CHOOSE j \in DOMAIN Fields[t] : Fields[t][j].name = name]

VARIABLES
    data,              \* the input
    stack,             \* the calls of decodeJSONObject that have not returned
    err,               \* the outcome, "running" before it and "idle" before the call
    before             \* history: what the message held when the call began

jsonVars == <<data, stack, err, before>>

-----------------------------------------------------------------------------
(* JSON values, and texts *)

Null == <<"null">>
Bool(b) == <<"bool", b>>
String(s) == <<"string", s>>
Array(values) == <<"array", values>>
Object(members) == <<"object", members>>

\* A number by its halves (see Numbers), and how it is written: with a minus sign, and
\* with digits only.
Number(h, minus, digits) == <<"number", [h |-> h, minus |-> minus, digits |-> digits]>>

\* The values that are nested d deep, and lists of members, which are pairs of a key and
\* a value.
Leaf == {Null} \cup ({"bool"} \X BOOLEAN) \cup ({"string"} \X Str)
        \cup ({"number"} \X [h : Int, minus : BOOLEAN, digits : BOOLEAN])

JsonValue[d \in 0..Depth] ==
    IF d = 0 THEN Leaf
    ELSE Leaf \cup ({"array"} \X Seq(JsonValue[d - 1]))
              \cup ({"object"} \X Seq(STRING \X JsonValue[d - 1]))

Members(d) == Seq(STRING \X JsonValue[d])

\* A text is the values in it, ended by Bad where it has a syntax error.
Bad == <<"bad">>
Text == Seq(JsonValue[Depth] \cup {Bad})

ASSUME JsonAssumption ==
    /\ NoSchema \notin Type
    /\ Str \subseteq STRING
    /\ Fields \in [Type -> Seq(FieldSchema)]
    /\ \A t \in Type : \A i, j \in DOMAIN Fields[t] :
          /\ Fields[t][i].name = Fields[t][j].name => i = j
          /\ Fields[t][i].type = "message" => Fields[t][i].schema \in Type
    /\ Depth \in Nat
    /\ \A input \in Input : input.type \in Type /\ input.text \in Text

IsA(kind, raw) == raw[1] = kind

\* The map that encoding/json makes of members has the last of those with the same key.
Keys(members) == {members[i][1] : i \in DOMAIN members}
At(members, key) ==
    LET of == {i \in DOMAIN members : members[i][1] = key}
    IN  members[CHOOSE i \in of : \A j \in of : j =< i][2]

-----------------------------------------------------------------------------
(* Scalars *)

Value(v) == [ok |-> TRUE, v |-> v]
Malformed == [ok |-> FALSE, v |-> 0]
When(ok, v) == IF ok THEN Value(v) ELSE Malformed

\* strconv.ParseInt, ParseUint and ParseFloat of a number.
ParseInt(n, w) == When(n.digits /\ n.h \div 2 \in IntOf(w), n.h \div 2)
ParseUint(n, w) == When(n.digits /\ ~n.minus /\ n.h \div 2 \in UintOf(w), n.h \div 2)

\* Mutant: what is too large for a float is infinite.
ParseFloat_Inf(n, w) == Value(Rounded(n.h, w))

ParseFloat(n, w) == When(IsFinite(Rounded(n.h, w)), Rounded(n.h, w))

\* Mutant: the range of the narrow type is not looked at.
decodeJSONScalar_Wide(ft, raw) ==
    IF ft \in {"int32", "int64"} /\ IsA("number", raw) THEN ParseInt(raw[2], 64)
    ELSE Malformed

decodeJSONScalar(ft, raw) ==
    LET number(v) == IF IsA("number", raw) THEN v ELSE Malformed
    IN  CASE ft = "int32"  -> number(ParseInt(raw[2], 32))
          [] ft = "int64"  -> number(ParseInt(raw[2], 64))
          [] ft = "uint32" -> number(ParseUint(raw[2], 32))
          [] ft = "uint64" -> number(ParseUint(raw[2], 64))
          [] ft = "float"  -> number(ParseFloat(raw[2], 32))
          [] ft = "double" -> number(ParseFloat(raw[2], 64))
          [] ft = "bool"   -> IF IsA("bool", raw) THEN Value(raw[2]) ELSE Malformed
          [] ft = "string" -> IF IsA("string", raw) THEN Value(raw[2]) ELSE Malformed
          [] ft = "bytes"  -> IF IsA("string", raw) /\ raw[2] \in DOMAIN FromBase64
                              THEN Value(FromBase64[raw[2]]) ELSE Malformed

-----------------------------------------------------------------------------
(* The frame that runs, and the member it is at *)

\* Of a call: the type and content of its message, the object, the keys of it that are
\* still to come, the field a nested call or a list is for, and of the list the elements
\* still to come and those that are decoded.
NoField == [name |-> "", type |-> "string", repeated |-> FALSE, schema |-> NoSchema]
Frame(t, members, m) == [type |-> t, members |-> members, left |-> Keys(members), msg |-> m,
                         field |-> NoField, todo |-> <<>>, list |-> <<>>]

top == stack[Len(stack)]
Update(f) == stack' = [stack EXCEPT ![Len(stack)] = f]

InList == err = "running" /\ top.field # NoField /\ top.field.repeated
AtKey(k) == err = "running" /\ top.field = NoField /\ k \in top.left

Known(k) == k \in Names(top.type)
fs(k) == lookupName(top.type, k)
raw(k) == At(top.members, k)
AtField(k) == AtKey(k) /\ Known(k) /\ raw(k) # Null

\* With one member fewer to come.
Past(k) == [top EXCEPT !.left = top.left \ {k}]
Put(f, name, v) == [f EXCEPT !.msg = With(f.msg, name, v)]

-----------------------------------------------------------------------------
(* The steps *)

Init ==
    /\ \E input \in Input :
          /\ data = input.text
          /\ before = Before[input.type]
          /\ stack = <<Frame(input.type, <<>>, before)>>
    /\ err = "idle"

\* What reading the text gives: its one value, or an error.
readErr == IF data = <<>> THEN "ErrTruncated"
           ELSE IF data[1] = Bad \/ Len(data) > 1 THEN "ErrMalformedData" ELSE "nil"

Idle == err = "idle" /\ UNCHANGED <<data, before>>

ReadFail == Idle /\ readErr # "nil" /\ err' = readErr /\ UNCHANGED stack

\* The message is cleared, and stays so unless the value is an object.
NotAnObject ==
    /\ Idle /\ readErr = "nil" /\ ~IsA("object", data[1])
    /\ stack' = <<Frame(top.type, <<>>, <<>>)>>
    /\ err' = IF data[1] = Null THEN "nil" ELSE "ErrMalformedData"

Start ==
    /\ Idle /\ readErr = "nil" /\ IsA("object", data[1])
    /\ stack' = <<Frame(top.type, data[1][2], <<>>)>>
    /\ err' = "running"

Going == UNCHANGED <<data, err, before>>

\* An error ends all calls; what the first has stored stays.
Fail == stack' = <<stack[1]>> /\ err' = "ErrMalformedData" /\ UNCHANGED <<data, before>>

SkipKey(k) == AtKey(k) /\ ~Known(k) /\ Update(Past(k)) /\ Going

UnsetField(k) ==
    /\ AtKey(k) /\ Known(k) /\ raw(k) = Null
    /\ Update([Past(k) EXCEPT !.msg = [n \in DOMAIN top.msg \ {k} |-> top.msg[n]]])
    /\ Going

IsScalarField(k) == AtField(k) /\ ~fs(k).repeated /\ fs(k).type # "message"

DecodeScalar(k) ==
    /\ IsScalarField(k)
    /\ LET v == decodeJSONScalar(fs(k).type, raw(k))
       IN  v.ok /\ Update(Put(Past(k), k, v.v))
    /\ Going

\* Mutant: a wrong value is skipped like an unknown key.
ScalarFail_Skips(k) ==
    /\ IsScalarField(k) /\ ~decodeJSONScalar(fs(k).type, raw(k)).ok
    /\ Update(Past(k)) /\ Going

ScalarFail(k) == IsScalarField(k) /\ ~decodeJSONScalar(fs(k).type, raw(k)).ok /\ Fail

EnterMessage(k) ==
    /\ AtField(k) /\ ~fs(k).repeated /\ fs(k).type = "message" /\ IsA("object", raw(k))
    /\ stack' = Append([stack EXCEPT ![Len(stack)] = [Past(k) EXCEPT !.field = fs(k)]],
                       Frame(fs(k).schema, raw(k)[2], <<>>))
    /\ Going

EnterList(k) ==
    /\ AtField(k) /\ fs(k).repeated /\ IsA("array", raw(k))
    /\ Update([Past(k) EXCEPT !.field = fs(k), !.todo = raw(k)[2]])
    /\ Going

\* An object is needed for a message, an array for a list.
KindFail(k) ==
    /\ AtField(k)
    /\ \/ fs(k).repeated /\ ~IsA("array", raw(k))
       \/ ~fs(k).repeated /\ fs(k).type = "message" /\ ~IsA("object", raw(k))
    /\ Fail

\* The caller of a call that is done stores the message, in its field or in its list.
LeaveMessage ==
    /\ err = "running" /\ Len(stack) > 1 /\ top.field = NoField /\ top.left = {}
    /\ LET n == Len(stack) - 1
           caller == stack[n]
           done == IF caller.field.repeated
                   THEN [caller EXCEPT !.list = Append(caller.list, top.msg)]
                   ELSE [Put(caller, caller.field.name, top.msg) EXCEPT !.field = NoField]
       IN  stack' = Append(SubSeq(stack, 1, n - 1), done)
    /\ Going

AtElement == InList /\ top.todo # <<>>
elem == Head(top.todo)
Took(v) == [top EXCEPT !.todo = Tail(top.todo), !.list = Append(top.list, v)]

NullElement ==
    /\ AtElement /\ elem = Null /\ top.field.type = "message"
    /\ Update(Took(NoMessage))
    /\ Going

EnterElement ==
    /\ AtElement /\ IsA("object", elem) /\ top.field.type = "message"
    /\ stack' = Append([stack EXCEPT ![Len(stack)].todo = Tail(top.todo)],
                       Frame(top.field.schema, elem[2], <<>>))
    /\ Going

\* A null among scalars is no scalar of any type.
ScalarElement ==
    /\ AtElement /\ top.field.type # "message"
    /\ LET v == decodeJSONScalar(top.field.type, elem)
       IN  v.ok /\ Update(Took(v.v))
    /\ Going

\* Mutant: the elements before the wrong one are kept.
ElementFail_Keeps ==
    /\ AtElement /\ top.field.type # "message"
    /\ ~decodeJSONScalar(top.field.type, elem).ok
    /\ stack' = <<IF Len(stack) = 1 THEN Put(top, top.field.name, top.list) ELSE stack[1]>>
    /\ err' = "ErrMalformedData" /\ UNCHANGED <<data, before>>

ElementFail ==
    /\ AtElement
    /\ IF top.field.type = "message" THEN elem # Null /\ ~IsA("object", elem)
       ELSE ~decodeJSONScalar(top.field.type, elem).ok
    /\ Fail

\* A list is stored when it is whole.
EndList ==
    /\ InList /\ top.todo = <<>>
    /\ Update([Put(top, top.field.name, top.list) EXCEPT !.field = NoField, !.list = <<>>])
    /\ Going

Finish ==
    /\ err = "running" /\ Len(stack) = 1 /\ top.field = NoField /\ top.left = {}
    /\ err' = "nil"
    /\ UNCHANGED <<data, stack, before>>

Member(k) == \/ SkipKey(k) \/ UnsetField(k) \/ DecodeScalar(k) \/ ScalarFail(k)
             \/ EnterMessage(k) \/ EnterList(k) \/ KindFail(k)

Decode == \/ ReadFail \/ NotAnObject \/ Start
          \/ \E k \in top.left : Member(k)
          \/ LeaveMessage
          \/ NullElement \/ EnterElement \/ ScalarElement \/ ElementFail \/ EndList
          \/ Finish

DecodeSpec == Init /\ [][Decode]_jsonVars

-----------------------------------------------------------------------------
(* Properties *)

\* v can be the value of a field, or an element of its list.
FitsOne(f, v) ==
    CASE f.type = "int32"  -> v \in IntOf(32)
      [] f.type = "int64"  -> v \in IntOf(64)
      [] f.type = "uint32" -> v \in UintOf(32)
      [] f.type = "uint64" -> v \in UintOf(64)
      [] f.type = "float"  -> v \in FloatOf[32] /\ IsFinite(v)
      [] f.type = "double" -> v \in FloatOf[64] /\ IsFinite(v)
      [] f.type = "bool"   -> v \in BOOLEAN
      [] f.type = "string" -> v \in STRING
      [] f.type = "bytes"  -> \E s \in DOMAIN FromBase64 : v = FromBase64[s]
      [] f.type = "message" -> DOMAIN v \subseteq Names(f.schema)

Fits(f, v) ==
    IF f.repeated
    THEN IsList(v) /\ \A j \in DOMAIN v : (f.type = "message" /\ v[j] = NoMessage) \/ FitsOne(f, v[j])
    ELSE FitsOne(f, v)

\* A program decodes into a message of the type, whatever it holds.
ASSUME BeforeAssumption == \A t \in Type :
    DOMAIN Before[t] \subseteq Names(t) /\ \A n \in DOMAIN Before[t] : Fits(lookupName(t, n), Before[t][n])

\* Every decoded value has the width and type of its field.
TypeOK ==
    /\ err \in {"idle", "running", "nil", "ErrTruncated", "ErrMalformedData"}
    /\ stack # <<>>
    /\ \A k \in DOMAIN stack : LET f == stack[k] IN
          /\ f.type \in Type
          /\ f.left \subseteq Keys(f.members)
          /\ f.field = NoField \/ f.field.name \in Names(f.type)
          /\ DOMAIN f.msg \subseteq Names(f.type)
          /\ \A n \in DOMAIN f.msg : Fits(lookupName(f.type, n), f.msg[n])
          /\ f.field # NoField /\ f.field.repeated => Fits(f.field, f.list)
=============================================================================
