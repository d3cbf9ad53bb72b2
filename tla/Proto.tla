-------------------------------- MODULE Proto --------------------------------
(***************************************************************************)
(* The protobuf decoder of proto.go: Message.DecodeProto on any bytes.     *)
(*                                                                         *)
(* The calls of DecodeProto that nested messages make are a stack of       *)
(* frames, the caller's first.  A step is one iteration of the loop of     *)
(* DecodeProto, one iteration of the loop over a packed field, or a call   *)
(* or return.                                                              *)
(*                                                                         *)
(* The sizes of the encoding are parameters, so that TLC can check it with *)
(* small ones: GroupSize is 2^7, Groups 10, LastSize 2, Size32 2^32,       *)
(* Fixed32 4 and Fixed64 8 in the code.  int64 is read and written bit by  *)
(* bit like uint64, and string like bytes; they have no type of their own. *)
(***************************************************************************)
EXTENDS Decoded, Naturals, Integers, Sequences

CONSTANTS
    GroupSize,         \* a byte of a varint holds a value below it and one more bit
    Groups,            \* the most bytes of a varint
    LastSize,          \* what the last of them can hold
    Size32,            \* the number of int32 values
    Fixed32, Fixed64,  \* the lengths of a float and a double
    Type,              \* the message types
    NoSchema,          \* the schema of a field that is not a message
    Fields,            \* of each type, its fields in the order of the schema
    Top,               \* the type of the message that is decoded
    Before,            \* what a message of each type holds before
    Input              \* the bytes it is decoded from

Byte == 0..(2 * GroupSize - 1)

\* What a varint's bytes weigh: byte j + 1 is shifted by j groups.
groupWeight[j \in 0..Groups] == IF j = 0 THEN 1 ELSE groupWeight[j - 1] * GroupSize
Size64 == groupWeight[Groups - 1] * LastSize
FieldType == {"int32", "uint32", "uint64", "bool", "float", "double", "bytes", "message"}
FieldSchema == [num : Nat \ {0}, type : FieldType, repeated : BOOLEAN, schema : Type \cup {NoSchema}]

ASSUME ProtoAssumption ==
    /\ {GroupSize, Groups, LastSize, Size32, Fixed32, Fixed64} \subseteq Nat \ {0}
    /\ Size32 % 2 = 0 /\ Size64 % Size32 = 0
    /\ NoSchema \notin Type
    /\ Fields \in [Type -> Seq(FieldSchema)]
    /\ \A t \in Type : \A i, j \in DOMAIN Fields[t] :
          /\ Fields[t][i].num = Fields[t][j].num => i = j
          /\ Fields[t][i].type = "message" => Fields[t][i].schema \in Type
    /\ Top \in Type
    /\ Input \subseteq Seq(Byte)

Nums(t) == {Fields[t][j].num : j \in DOMAIN Fields[t]}
lookupNum(t, n) == Fields[t][CHOOSE j \in DOMAIN Fields[t] : Fields[t][j].num = n]

VARIABLES
    stack,             \* the calls of DecodeProto that have not returned
    err                \* the outcome, "running" before it and "idle" before the call

protoVars == <<stack, err>>

Errors == {"nil", "ErrTruncated", "ErrMalformedData"}

-----------------------------------------------------------------------------
(* Reading: what is at position i of data, 0 the first, and where it ends *)

\* The bytes after which a varint may stop.  Its length 0 is the code's -1.
Stops(data, i) == {n \in 1..Groups : /\ i + n =< Len(data)
                                     /\ n = Groups \/ data[i + n] < GroupSize}

\* The value of its first bytes; the last of all has fewer bits.
groupsSum(data, i) ==
    LET size(j) == IF j = Groups THEN LastSize ELSE GroupSize
        sum[j \in 0..Groups] ==
            IF j = 0 THEN 0 ELSE sum[j - 1] + (data[i + j] % size(j)) * groupWeight[j - 1]
    IN  sum

consumeVarint(data, i) ==
    LET n == IF Stops(data, i) = {} THEN 0
             ELSE CHOOSE n \in Stops(data, i) : \A k \in Stops(data, i) : n =< k
    IN  [v |-> groupsSum(data, i)[n], n |-> n]

Read(v, i) == [err |-> "nil", v |-> v, i |-> i]
Truncated == [err |-> "ErrTruncated", v |-> 0, i |-> 0]

readVarint(data, i) ==
    LET c == consumeVarint(data, i)
    IN  IF c.n = 0 THEN Truncated ELSE Read(c.v, i + c.n)

readFixed(data, i, n) ==
    IF i + n > Len(data) THEN Truncated ELSE Read(SubSeq(data, i + 1, i + n), i + n)

\* A length and as many bytes.
readBytes(data, i) ==
    LET ln == consumeVarint(data, i)
        from == i + ln.n
    IN  IF ln.n = 0 \/ Len(data) - from < ln.v THEN Truncated
        ELSE Read(SubSeq(data, from + 1, from + ln.v), from + ln.v)

\* Mutant: an int32 keeps the bits above its own.
fromVarint_Wide(ft, v) ==
    CASE ft = "int32" -> IF v >= Size64 \div 2 THEN v - Size64 ELSE v
      [] ft = "uint32" -> v % Size32
      [] ft = "uint64" -> v
      [] ft = "bool" -> v # 0

\* The conversions int32(v), uint32(v) and v != 0.
fromVarint(ft, v) ==
    LET low == v % Size32
    IN  CASE ft = "int32" -> IF low >= Size32 \div 2 THEN low - Size32 ELSE low
          [] ft = "uint32" -> low
          [] ft = "uint64" -> v
          [] ft = "bool" -> v # 0

decodeProtoScalar(data, i, ft) ==
    CASE ft = "float" -> readFixed(data, i, Fixed32)
      [] ft = "double" -> readFixed(data, i, Fixed64)
      [] ft = "bytes" -> readBytes(data, i)
      [] OTHER -> LET r == readVarint(data, i)
                  IN  IF r.err = "nil" THEN Read(fromVarint(ft, r.v), r.i) ELSE r

wireTypeFor(ft) ==
    CASE ft \in {"int32", "uint32", "uint64", "bool"} -> 0
      [] ft = "double" -> 1
      [] ft \in {"bytes", "message"} -> 2
      [] ft = "float" -> 5

\* Mutant: the length of a fixed64 is not compared with what is left.
skipField_Unchecked(data, i, wt) ==
    CASE wt = 0 -> readVarint(data, i)
      [] wt = 1 -> Read(0, i + Fixed64)
      [] wt = 2 -> readBytes(data, i)
      [] wt = 5 -> readFixed(data, i, Fixed32)
      [] OTHER -> [Truncated EXCEPT !.err = "ErrMalformedData"]

skipField(data, i, wt) ==
    CASE wt = 0 -> readVarint(data, i)
      [] wt = 1 -> readFixed(data, i, Fixed64)
      [] wt = 2 -> readBytes(data, i)
      [] wt = 5 -> readFixed(data, i, Fixed32)
      [] OTHER -> [Truncated EXCEPT !.err = "ErrMalformedData"]

-----------------------------------------------------------------------------
(* The frame that runs, and the field it is at *)

\* Of a call: the type and content of its message, its bytes and its position in
\* them, the number of the field a nested call or a packed loop is in, and the end
\* of that packed loop, or 0 outside of one.
Frame(t, data, m) == [type |-> t, data |-> data, i |-> 0, msg |-> m, num |-> 0, end |-> 0]

top == stack[Len(stack)]
Update(f) == stack' = [stack EXCEPT ![Len(stack)] = f]

AtKey == err = "running" /\ top.end = 0 /\ top.i < Len(top.data)

key == consumeVarint(top.data, top.i)
at == top.i + key.n
fieldNum == key.v \div 8
wt == key.v % 8
Known == fieldNum \in Nums(top.type)
fs == lookupNum(top.type, fieldNum)

Packable(f) == f.repeated /\ f.type \notin {"bytes", "message"}
Packed == Packable(fs) /\ wt = 2

payload == IF Packed \/ fs.type = "message" THEN readBytes(top.data, at)
           ELSE decodeProtoScalar(top.data, at, fs.type)

\* What this iteration of DecodeProto returns, before any nested call.
stepErr ==
    IF key.n = 0 THEN "ErrTruncated"
    ELSE IF fieldNum = 0 \/ wt \in {6, 7} THEN "ErrMalformedData"
    ELSE IF ~Known THEN skipField(top.data, at, wt).err
    ELSE IF ~Packed /\ wt # wireTypeFor(fs.type) THEN "ErrMalformedData"
    ELSE payload.err

AtField == AtKey /\ stepErr = "nil" /\ Known

\* Mutant: every run of a repeated field begins its list anew.
MakeList_Anew(m, f) == IF f.repeated THEN With(m, f.num, <<>>) ELSE m

\* An unset repeated field becomes an empty list.
MakeList(m, f) == IF f.repeated /\ f.num \notin DOMAIN m THEN With(m, f.num, <<>>) ELSE m

\* v becomes the field's value, or the last element of its list.
Store(m, f, v) ==
    LET made == MakeList(m, f)
    IN  With(made, f.num, IF f.repeated THEN Append(made[f.num], v) ELSE v)

-----------------------------------------------------------------------------
(* The steps *)

Init ==
    /\ \E data \in Input : stack = <<Frame(Top, data, Before[Top])>>
    /\ err = "idle"

\* DecodeProto clears the message.
Start ==
    /\ err = "idle"
    /\ err' = "running"
    /\ stack' = [stack EXCEPT ![1].msg = <<>>]

\* An error ends all calls.
Return(e) == stack' = <<stack[1]>> /\ err' = e

Fail == AtKey /\ stepErr # "nil" /\ Return(stepErr)

\* Mutant: the position after the skipped field is not taken over.
SkipField_Stays == AtKey /\ stepErr = "nil" /\ ~Known /\ UNCHANGED protoVars

SkipField ==
    /\ AtKey /\ stepErr = "nil" /\ ~Known
    /\ Update([top EXCEPT !.i = skipField(top.data, at, wt).i])
    /\ UNCHANGED err

\* A scalar, or an element of a repeated field that is not packed.
DecodeScalar ==
    /\ AtField /\ ~Packed /\ fs.type # "message"
    /\ Update([top EXCEPT !.i = payload.i, !.msg = Store(top.msg, fs, payload.v)])
    /\ UNCHANGED err

\* The nested call works on the bytes of the field and on a new message.
EnterMessage ==
    /\ AtField /\ fs.type = "message"
    /\ stack' = Append([stack EXCEPT ![Len(stack)].i = payload.i,
                                     ![Len(stack)].num = fs.num,
                                     ![Len(stack)].msg = MakeList(top.msg, fs)],
                       Frame(fs.schema, payload.v, <<>>))
    /\ UNCHANGED err

LeaveMessage ==
    /\ err = "running" /\ Len(stack) > 1
    /\ top.end = 0 /\ top.i >= Len(top.data)
    /\ LET n == Len(stack) - 1
           caller == stack[n]
           field == lookupNum(caller.type, caller.num)
       IN  stack' = Append(SubSeq(stack, 1, n - 1),
                           [caller EXCEPT !.msg = Store(caller.msg, field, top.msg),
                                          !.num = 0])
    /\ UNCHANGED err

EnterPacked ==
    /\ AtField /\ Packed
    /\ Update([top EXCEPT !.i = payload.i - Len(payload.v), !.end = payload.i,
                          !.num = fs.num, !.msg = MakeList(top.msg, fs)])
    /\ UNCHANGED err

\* An element is read from all the data, not only from what the field spans.
element == decodeProtoScalar(top.data, top.i, lookupNum(top.type, top.num).type)
AtElement == err = "running" /\ top.end > 0 /\ top.i < top.end

PackedElement ==
    /\ AtElement /\ element.err = "nil"
    /\ Update([top EXCEPT !.i = element.i,
                          !.msg = Store(top.msg, lookupNum(top.type, top.num), element.v)])
    /\ UNCHANGED err

PackedFail == AtElement /\ element.err # "nil" /\ Return(element.err)

\* Mutant: goes on where the last element ended.
LeavePacked_Stays ==
    /\ err = "running" /\ top.end > 0 /\ top.i >= top.end
    /\ Update([top EXCEPT !.num = 0, !.end = 0])
    /\ UNCHANGED err

LeavePacked ==
    /\ err = "running" /\ top.end > 0 /\ top.i >= top.end
    /\ Update([top EXCEPT !.i = top.end, !.num = 0, !.end = 0])
    /\ UNCHANGED err

Finish ==
    /\ err = "running" /\ Len(stack) = 1
    /\ top.end = 0 /\ top.i >= Len(top.data)
    /\ err' = "nil"
    /\ UNCHANGED stack

Decode == \/ Start \/ Fail \/ SkipField \/ DecodeScalar
          \/ EnterMessage \/ LeaveMessage
          \/ EnterPacked \/ PackedElement \/ PackedFail \/ LeavePacked
          \/ Finish

DecodeSpec == Init /\ [][Decode]_protoVars

-----------------------------------------------------------------------------
(* Properties *)

\* v can be the value of a field, or an element of its list.
FitsOne(f, v) ==
    CASE f.type = "int32" -> v \in -(Size32 \div 2)..(Size32 \div 2 - 1)
      [] f.type = "uint32" -> v \in 0..(Size32 - 1)
      [] f.type = "uint64" -> v \in 0..(Size64 - 1)
      [] f.type = "bool" -> v \in BOOLEAN
      [] f.type = "float" -> v \in [1..Fixed32 -> Byte]
      [] f.type = "double" -> v \in [1..Fixed64 -> Byte]
      [] f.type = "bytes" -> v \in Seq(Byte)
      [] f.type = "message" -> DOMAIN v \subseteq Nums(f.schema)

Fits(f, v) == IF f.repeated THEN IsList(v) /\ \A j \in DOMAIN v : FitsOne(f, v[j])
              ELSE FitsOne(f, v)

\* A program decodes into a message of the type, whatever it holds.
ASSUME BeforeAssumption == \A t \in Type :
    /\ DOMAIN Before[t] \subseteq Nums(t)
    /\ \A n \in DOMAIN Before[t] : Fits(lookupNum(t, n), Before[t][n])

\* Positions stay inside the bytes of their call, so that no slice expression of
\* proto.go panics, and every decoded value has the width and type of its field.
TypeOK ==
    /\ err \in Errors \cup {"idle", "running"}
    /\ stack # <<>>
    /\ \A k \in DOMAIN stack : LET f == stack[k] IN
          /\ f.type \in Type
          /\ f.data \in Seq(Byte)
          /\ f.i \in 0..Len(f.data)
          /\ f.end \in 0..Len(f.data)
          /\ f.num \in Nums(f.type) \cup {0}
          /\ DOMAIN f.msg \subseteq Nums(f.type)
          /\ \A n \in DOMAIN f.msg : Fits(lookupNum(f.type, n), f.msg[n])

\* Where the field that begins at i ends, for a reader that knows no field.
nextField(data, i) ==
    LET k == consumeVarint(data, i)
        s == skipField(data, i + k.n, k.v % 8)
    IN  IF i < Len(data) /\ k.n > 0 /\ s.err = "nil" THEN s.i ELSE i

\* The positions from which i is reached field by field.
reaches(data, i) ==
    LET from[k \in 0..Len(data)] ==
            \/ k = i
            \/ LET next == nextField(data, k) IN k < next /\ next =< i /\ from[next]
    IN  from

Boundary(data, i) == reaches(data, i)[0]

\* A decoder that knows a field leaves it where one that skips it does: it stays in
\* step with the fields of the input, however it read their contents.
OnBoundary ==
    \A k \in DOMAIN stack : LET f == stack[k]
                            IN  Boundary(f.data, IF f.end = 0 THEN f.i ELSE f.end)

\* The elements of a packed field are the bytes that its length declares.
PackedStaysInside == \A k \in DOMAIN stack : stack[k].end = 0 \/ stack[k].i =< stack[k].end

\* DecodeProto returns, whatever the input.
DecodeReturns == <>[](err \in Errors)
=============================================================================
