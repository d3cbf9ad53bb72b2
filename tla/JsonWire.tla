------------------------------ MODULE JsonWire ------------------------------
(***************************************************************************)
(* The JSON encoder of json.go and the decoder at its other end.           *)
(*                                                                         *)
(* A sender encodes a message; a receiver, which may know fewer fields of  *)
(* it, decodes the text.  A program may also decode any text, and encode   *)
(* the message that it got and decode that again.                          *)
(***************************************************************************)
EXTENDS JsonMeaning

CONSTANTS
    Sent,              \* the messages of senders, with their types
    Receiver,          \* of each type, the type the receiver has for it
    ToBase64,          \* what base64 makes of bytes
    Utf8               \* the strings of messages, as encoding/json reads them: bytes that
                       \* are not UTF-8 are replaced

VARIABLE sent          \* the message whose encoding is decoded, with its type, or NoMessage

wireVars == <<data, stack, err, before, sent>>

-----------------------------------------------------------------------------
(* Messages *)

\* A message with its type, and those that its fields hold.
Msg(t, m) == [type |-> t, msg |-> m]

held(f, v) == IF f.repeated THEN {v[j] : j \in DOMAIN v} ELSE {v}

nested(s) == UNION {
    LET f == lookupName(s.type, n)
    IN  {Msg(f.schema, v) : v \in {v \in held(f, s.msg[n]) : f.type = "message" /\ v # NoMessage}}
        : n \in DOMAIN s.msg}

\* The message, and all that are in it.
within(s) ==
    LET upTo[d \in 0..Depth] ==
            IF d = 0 THEN {s} ELSE LET all == upTo[d - 1] IN all \cup UNION {nested(p) : p \in all}
    IN  upTo

parts(s) == within(s)[Depth]

\* What the program can have stored in a field, and in a message.
HoldsOne(f, v) ==
    CASE f.type = "float"   -> v \in FloatOf[32]
      [] f.type = "double"  -> v \in FloatOf[64]
      [] f.type = "string"  -> v \in DOMAIN Utf8
      [] f.type = "bytes"   -> v \in DOMAIN ToBase64
      [] f.type = "message" -> v # NoMessage
      [] OTHER -> FitsOne(f, v)

Holds(f, v) ==
    IF f.repeated
    THEN IsList(v) /\ \A j \in DOMAIN v : (f.type = "message" /\ v[j] = NoMessage) \/ HoldsOne(f, v[j])
    ELSE HoldsOne(f, v)

IsMessage(s) ==
    /\ s.type \in Type
    /\ DOMAIN s.msg \subseteq Names(s.type)
    /\ \A n \in DOMAIN s.msg : Holds(lookupName(s.type, n), s.msg[n])

\* A message that is sent is a message in all its parts.
ASSUME SentAssumption == \A s \in Sent :
    s = Msg(s.type, s.msg) /\ \A p \in parts(s) : IsMessage(p)

\* A nil element is no message of any type.
ASSUME NilAssumption == \A t \in Type : ~(DOMAIN NoMessage \subseteq Names(t))

ASSUME JsonWireAssumption ==
    /\ \A b \in DOMAIN ToBase64 : /\ ToBase64[b] \in Str \cap DOMAIN FromBase64
                                  /\ FromBase64[ToBase64[b]] = b
    /\ \A s \in DOMAIN FromBase64 : FromBase64[s] \in DOMAIN ToBase64
    /\ \A s \in DOMAIN Utf8 : Utf8[s] \in Str
    /\ \A s \in Str : s \in DOMAIN Utf8 /\ Utf8[s] = s

\* The receiver may lack fields of a type; those it has are as the sender has them.
ASSUME ReceiverAssumption == \A t \in Type :
    /\ Receiver[t] \in Type
    /\ \A n \in Names(t) \cap Names(Receiver[t]) :
          LET f == lookupName(t, n)
              g == lookupName(Receiver[t], n)
          IN  /\ g.type = f.type /\ g.repeated = f.repeated
              /\ f.type = "message" => g.schema = Receiver[f.schema]

\* ParseSchema reads schemas from a text in which each nested one is deeper by three values
\* than the one around it; that of a message, in which it is deeper by two, at most, can
\* thus be read too.
ASSUME NestingAssumption ==
    \E depth \in [Type -> 0 .. Depth \div 2 - 1] : \A t \in Type : \A j \in DOMAIN Fields[t] :
        Fields[t][j].type = "message" => depth[Fields[t][j].schema] < depth[t]

-----------------------------------------------------------------------------
(* The encoder.  The texts of the messages in a message are a parameter. *)

\* Fractions and exponents are not told apart: no integer is read from either.
\* The text need not be f itself, but it is read as f at the width it was made for, and the
\* decoder reads it at that width: f stands for it.
appendJSONFloat(f) ==
    IF IsFinite(f) THEN Value(Number(f[2], f[2] < 0, f[2] % 2 = 0)) ELSE Malformed

appendJSONScalar(ft, v) ==
    CASE ft = "string" -> Value(String(Utf8[v]))
      [] ft = "bytes" -> Value(String(ToBase64[v]))
      [] ft = "bool" -> Value(Bool(v))
      [] ft \in {"float", "double"} -> appendJSONFloat(v)
      [] OTHER -> Value(Number(2 * v, v < 0, TRUE))

appendJSONOne(texts, f, v) ==
    IF f.type # "message" THEN appendJSONScalar(f.type, v)
    ELSE IF v = NoMessage THEN Value(Null) ELSE texts[Msg(f.schema, v)]

\* Mutant: nil elements are left out, as by the protobuf encoder.
appendJSONValue_DropsNil(texts, f, v) ==
    IF ~f.repeated THEN appendJSONOne(texts, f, v)
    ELSE LET kept == SelectSeq(v, LAMBDA e : f.type = "message" => e # NoMessage)
             elems == [j \in DOMAIN kept |-> appendJSONOne(texts, f, kept[j])]
         IN  When(\A j \in DOMAIN elems : elems[j].ok, Array([j \in DOMAIN elems |-> elems[j].v]))

appendJSONValue(texts, f, v) ==
    IF ~f.repeated THEN appendJSONOne(texts, f, v)
    ELSE LET elems == [j \in DOMAIN v |-> appendJSONOne(texts, f, v[j])]
         IN  When(\A j \in DOMAIN v : elems[j].ok, Array([j \in DOMAIN v |-> elems[j].v]))

\* The loop over the fields of the schema.
appendJSONMembers(texts, s) ==
    LET upTo[j \in 0..Len(Fields[s.type])] ==
            IF j = 0 THEN <<>>
            ELSE LET f == Fields[s.type][j]
                 IN  IF f.name \in DOMAIN s.msg
                     THEN Append(upTo[j - 1], <<f.name, appendJSONValue(texts, f, s.msg[f.name]).v>>)
                     ELSE upTo[j - 1]
    IN  upTo

appendJSONObject(texts, s) ==
    When(\A n \in DOMAIN s.msg : appendJSONValue(texts, lookupName(s.type, n), s.msg[n]).ok,
         Object(appendJSONMembers(texts, s)[Len(Fields[s.type])]))

\* Each message of s, from those that nest no message up.
jsonTexts(s) ==
    LET all == parts(s)
        texts[d \in 0..Depth] ==
            [p \in all |-> appendJSONObject(IF d = 0 THEN <<>> ELSE texts[d - 1], p)]
    IN  texts

appendJSONMessage(s) == jsonTexts(s)[Depth][s]

-----------------------------------------------------------------------------
(* Sender and receiver *)

WireInit ==
    \/ Init /\ sent = NoMessage
    \/ /\ \E s \in Sent :
              LET text == appendJSONMessage(s)
                  t == Receiver[s.type]
              IN  /\ text.ok /\ data = <<text.v>>
                  /\ before = Before[t]
                  /\ stack = <<Frame(t, <<>>, before)>>
                  /\ sent = s
       /\ err = "idle"

\* The program encodes what it decoded and decodes it again, into the same message.
Relay ==
    /\ err = "nil" /\ sent = NoMessage
    /\ LET text == appendJSONMessage(Msg(top.type, top.msg))
       IN  text.ok /\ data' = <<text.v>>
    /\ before' = top.msg
    /\ stack' = <<Frame(top.type, <<>>, top.msg)>>
    /\ err' = "idle"
    /\ sent' = Msg(top.type, top.msg)

WireNext == (Decode /\ UNCHANGED sent) \/ Relay

WireSpec == WireInit /\ [][WireNext]_wireVars

-----------------------------------------------------------------------------
(* Properties *)

\* What a receiver with the type t has of a message: the fields it knows, with nil elements
\* and empty lists, and strings with the bytes replaced that are not UTF-8.
receivedOne(inner, f, g, v) ==
    CASE f.type = "string" -> Utf8[v]
      [] f.type = "message" -> IF v = NoMessage THEN v ELSE inner[Msg(f.schema, v)][g.schema]
      [] OTHER -> v

receivedField(inner, f, g, v) ==
    IF f.repeated THEN [j \in DOMAIN v |-> receivedOne(inner, f, g, v[j])]
    ELSE receivedOne(inner, f, g, v)

receivedMessage(inner, s, t) ==
    [n \in DOMAIN s.msg \cap Names(t) |->
        receivedField(inner, lookupName(s.type, n), lookupName(t, n), s.msg[n])]

receivedParts(s) ==
    LET all == parts(s)
        got[d \in 0..Depth] ==
            [p \in all |-> [t \in Type |-> receivedMessage(IF d = 0 THEN <<>> ELSE got[d - 1], p, t)]]
    IN  got

Received(s, t) == receivedParts(s)[Depth][s][t]

\* A message that is sent is received, as far as the receiver knows its fields.
RoundTrip ==
    Ended /\ sent # NoMessage => err = "nil" /\ message = Received(sent, type)

\* What was decoded can be encoded: no number of a text is read as an infinite one, which
\* JSON could not carry on.
CanBeSentOn == err = "nil" => appendJSONMessage(Msg(type, message)).ok
=============================================================================
