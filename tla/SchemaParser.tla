---------------------------- MODULE SchemaParser ----------------------------
(***************************************************************************)
(* ParseSchema, from a configuration that encoding/json has read, and what *)
(* the other modules assume of the schemas it accepts.                     *)
(***************************************************************************)
EXTENDS Decoded, Naturals, Integers, Sequences, FiniteSets, Functions

CONSTANTS
    MaxNum,            \* the largest type ID and field number, 65535 in the code
    Depth              \* bound: how deep messages may be in each other, 10000 values in
                       \* encoding/json

ASSUME SchemaParserAssumption == MaxNum \in Nat /\ Depth \in Nat

FieldType == {"int32", "int64", "uint32", "uint64", "float", "double",
              "bool", "string", "bytes", "message"}
Special == {".", "[", "]"}

\* The schema of a field as it is read: not there, null, a value that is no schema, or
\* an object with the fields of a message.
Absent == <<"absent">>
NullSchema == <<"null">>
Junk == <<"junk">>
Inline(fields) == <<"object", fields>>

\* The fields of a message whose messages have fields in Inner; a name is a sequence of
\* characters.
RawField(Inner) ==
    [name : Seq(STRING), type : STRING, num : Int, repeated : BOOLEAN,
     schema : {Absent, NullSchema, Junk} \cup ({"object"} \X Inner)]
RawFields[d \in 0..Depth] == Seq(RawField(IF d = 0 THEN {} ELSE RawFields[d - 1]))

\* A configuration that cannot be read, and one with these types.
Unreadable == <<"unreadable">>
Config(types) == <<"types", types>>
RawConfig == {Unreadable} \cup ({"types"} \X Seq([typeId : Int, fields : RawFields[Depth]]))

Ok(v) == [err |-> "nil", v |-> v]
Malformed == [err |-> "ErrMalformedData", v |-> <<>>]

-----------------------------------------------------------------------------
(* The parser *)

NoFields == [fields |-> <<>>, byName |-> <<>>, byNum |-> <<>>]

\* The field behind those that are done, which keep their indices.
AddField(done, fs) ==
    LET i == Len(done.fields) + 1
    IN  [fields |-> Append(done.fields, fs), byName |-> With(done.byName, fs.name, i),
         byNum |-> With(done.byNum, fs.num, i)]

\* The schema in a field; inner gives those of the messages below.
nested(inner, rf) ==
    IF rf.type # "message" THEN IF rf.schema = Absent THEN Ok(<<>>) ELSE Malformed
    ELSE IF rf.schema[1] = "object" THEN inner[0][rf.schema[2]] ELSE Malformed

fieldSchema(inner, rf) ==
    [name |-> rf.name, num |-> rf.num, type |-> rf.type, repeated |-> rf.repeated,
     schema |-> nested(inner, rf).v]

\* Mutant: the numbers of fields are not compared.
IsNewField_AnyNum(done, rf) ==
    /\ rf.name # <<>> /\ \A i \in DOMAIN rf.name : rf.name[i] \notin Special
    /\ rf.type \in FieldType
    /\ rf.num \in 1..MaxNum
    /\ rf.name \notin DOMAIN done.byName

\* Mutant: brackets are not looked for.
IsNewField_Brackets(done, rf) ==
    /\ rf.name # <<>> /\ \A i \in DOMAIN rf.name : rf.name[i] # "."
    /\ rf.type \in FieldType
    /\ rf.num \in 1..MaxNum
    /\ rf.name \notin DOMAIN done.byName /\ rf.num \notin DOMAIN done.byNum

IsNewField(done, rf) ==
    /\ rf.name # <<>> /\ \A i \in DOMAIN rf.name : rf.name[i] \notin Special
    /\ rf.type \in FieldType
    /\ rf.num \in 1..MaxNum
    /\ rf.name \notin DOMAIN done.byName /\ rf.num \notin DOMAIN done.byNum

\* The loop, up to each field.
messageSchema(inner, typeID, rawFields) ==
    LET upTo[i \in 0..Len(rawFields)] ==
            IF i = 0 THEN Ok(NoFields)
            ELSE LET done == upTo[i - 1]
                     rf == rawFields[i]
                 IN  IF done.err # "nil" \/ ~IsNewField(done.v, rf) \/ nested(inner, rf).err # "nil"
                     THEN Malformed
                     ELSE Ok(AddField(done.v, fieldSchema(inner, rf)))
        all == upTo[Len(rawFields)]
    IN  IF all.err # "nil" THEN Malformed
        ELSE Ok([typeID |-> typeID, fields |-> all.v.fields, byName |-> all.v.byName, byNum |-> all.v.byNum])

\* The recursion, by how deep messages are in each other.
built[d \in 0..Depth] ==
    [typeID \in Int |-> [rawFields \in RawFields[d] |->
        messageSchema(IF d = 0 THEN <<>> ELSE built[d - 1], typeID, rawFields)]]

buildMessageSchema(typeID, rawFields) == built[Depth][typeID][rawFields]

ParseSchema(cfg) ==
    IF cfg = Unreadable THEN Malformed
    ELSE LET types == cfg[2]
             upTo[i \in 0..Len(types)] ==
                IF i = 0 THEN Ok(<<>>)
                ELSE LET done == upTo[i - 1]
                         id == types[i].typeId
                         seen == {types[j].typeId : j \in 1..(i - 1)}
                         schema == buildMessageSchema(id, types[i].fields)
                     IN  IF done.err # "nil" \/ id \notin 1..MaxNum \/ id \in seen \/ schema.err # "nil"
                         THEN Malformed
                         ELSE Ok(Append(done.v, schema.v))
         IN  upTo[Len(types)]

-----------------------------------------------------------------------------
(* What a configuration should be, and what is assumed of schemas *)

Distinct(s) == Cardinality(Range(s)) = Len(s)

\* "num" and "name" are unique in a message, a schema is there for messages only
\* (section 3 of the readme); inner tells the same of the messages below.
IsMessage(inner, fields) ==
    /\ Distinct([i \in DOMAIN fields |-> fields[i].name])
    /\ Distinct([i \in DOMAIN fields |-> fields[i].num])
    /\ \A f \in Range(fields) :
          /\ f.type \in FieldType /\ f.num >= 1 /\ f.num =< MaxNum
          /\ f.name # <<>> /\ Range(f.name) \cap Special = {}
          /\ (f.type = "message") = (f.schema # Absent)
          /\ f.type = "message" => f.schema[1] = "object" /\ inner[f.schema[2]]

isMessage[d \in 0..Depth] ==
    [fields \in RawFields[d] |-> IsMessage(IF d = 0 THEN <<>> ELSE isMessage[d - 1], fields)]

IsConfig(cfg) ==
    /\ cfg # Unreadable
    /\ Distinct([i \in DOMAIN cfg[2] |-> cfg[2][i].typeId])
    /\ \A t \in Range(cfg[2]) : t.typeId >= 1 /\ t.typeId =< MaxNum /\ isMessage[Depth][t.fields]

\* The schemas of message fields, and those at every depth.
Inner(schema) == {f.schema : f \in {f \in Range(schema.fields) : f.type = "message"}}
SchemasIn(schema) ==
    LET level[k \in 0..Depth] ==
            IF k = 0 THEN {schema} ELSE UNION {Inner(s) : s \in level[k - 1]}
    IN  UNION {level[k] : k \in 0..Depth}

\* The fields of a schema are found by name and by number, themselves and no others, at
\* every depth; this is what lookupName and lookupNum of the other modules take for granted.
FindsFields(schema) ==
    /\ DOMAIN schema.byName = {f.name : f \in Range(schema.fields)}
    /\ DOMAIN schema.byNum = {f.num : f \in Range(schema.fields)}
    /\ \A i \in DOMAIN schema.fields : LET f == schema.fields[i] IN
          /\ schema.byName[f.name] = i /\ schema.byNum[f.num] = i
          /\ IF f.type = "message" THEN f.schema.typeID = 0 ELSE f.schema = <<>>

IsSound(schema, typeID) ==
    schema.typeID = typeID /\ \A s \in SchemasIn(schema) : FindsFields(s)

\* The names of all fields.
NamesIn(schema) == UNION {{f.name : f \in Range(s.fields)} : s \in SchemasIn(schema)}
=============================================================================
