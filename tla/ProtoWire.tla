------------------------------ MODULE ProtoWire ------------------------------
(***************************************************************************)
(* The protobuf encoder of proto.go and the decoder at its other end.      *)
(*                                                                         *)
(* A sender encodes a message; a receiver, which may know fewer fields of  *)
(* it, decodes all of the bytes or a part from their beginning.  A program *)
(* may also decode any bytes, encode the message that it got and decode    *)
(* that again.                                                             *)
(***************************************************************************)
EXTENDS Proto, FiniteSetsExt

CONSTANTS
    Sent,              \* the messages of senders, with their types
    Receiver,          \* of each type, the type the receiver has for it
    NoMessage,         \* the nil element of a list of messages
    Depth              \* how deeply schemas nest

VARIABLE sent          \* the message whose encoding is decoded, with its type, or NothingSent

wireVars == <<stack, err, sent>>

-----------------------------------------------------------------------------
(* Messages *)

\* A message with its type, and those that its fields hold.
Msg(t, m) == [type |-> t, msg |-> m]

held(f, v) == IF f.repeated THEN {v[j] : j \in DOMAIN v} ELSE {v}

nested(s) == UNION {
    LET f == lookupNum(s.type, n)
    IN  {Msg(f.schema, v) : v \in {v \in held(f, s.msg[n]) : f.type = "message" /\ v # NoMessage}}
        : n \in DOMAIN s.msg}

\* The message, and all that are in it.
within(s) ==
    LET upTo[d \in 0..Depth] ==
            IF d = 0 THEN {s} ELSE LET all == upTo[d - 1] IN all \cup UNION {nested(p) : p \in all}
    IN  upTo

parts(s) == within(s)[Depth]

\* What the program can have stored in a field, and in a message.
HoldsOne(f, v) == FitsOne(f, v) /\ (f.type = "message" => v # NoMessage)

Holds(f, v) ==
    IF f.repeated
    THEN IsList(v) /\ \A j \in DOMAIN v : (f.type = "message" /\ v[j] = NoMessage) \/ HoldsOne(f, v[j])
    ELSE HoldsOne(f, v)

IsMessage(s) ==
    /\ s.type \in Type
    /\ DOMAIN s.msg \subseteq Nums(s.type)
    /\ \A n \in DOMAIN s.msg : Holds(lookupNum(s.type, n), s.msg[n])

\* A nil element is no message of any type.
ASSUME NilAssumption == \A t \in Type : ~(DOMAIN NoMessage \subseteq Nums(t))

\* The last group of a varint has fewer bits than the others; a varint has room for every
\* key, as ParseSchema allows numbers up to 65535.
ASSUME WireAssumption ==
    /\ GroupSize > 1 /\ LastSize =< GroupSize /\ Depth \in Nat
    /\ \A t \in Type : \A j \in DOMAIN Fields[t] : Fields[t][j].num * 8 + 7 < Size64

\* The receiver may lack fields of a type; those it has are as the sender has them.
ASSUME ReceiverAssumption == \A t \in Type :
    /\ Receiver[t] \in Type
    /\ \A n \in Nums(t) \cap Nums(Receiver[t]) :
          LET f == lookupNum(t, n)
              g == lookupNum(Receiver[t], n)
          IN  /\ g.type = f.type /\ g.repeated = f.repeated
              /\ f.type = "message" => g.schema = Receiver[f.schema]

\* ParseSchema reads nested schemas from a text that is finite.
ASSUME NestingAssumption ==
    \E depth \in [Type -> 0..Depth] : \A t \in Type : \A j \in DOMAIN Fields[t] :
        Fields[t][j].type = "message" => depth[Fields[t][j].schema] < depth[t]

-----------------------------------------------------------------------------
(* The encoder.  The encodings of the messages in a message are a parameter. *)

\* The groups of v, the lowest first; all but the last have the continuation bit.
appendVarint(v) ==
    LET n == CHOOSE n \in 1..Groups : /\ n = Groups \/ v < groupWeight[n]
                                      /\ n = 1 \/ v >= groupWeight[n - 1]
    IN  [j \in 1..n |-> ((v \div groupWeight[j - 1]) % GroupSize)
                        + (IF j < n THEN GroupSize ELSE 0)]

appendKey(f, w) == appendVarint(f.num * 8 + w)
appendBytes(b) == appendVarint(Len(b)) \o b

\* uint64(int64(e)) of an int32: negative values take the top of the range.
toVarint(ft, v) ==
    CASE ft = "int32" -> IF v < 0 THEN Size64 + v ELSE v
      [] ft = "bool" -> IF v THEN 1 ELSE 0
      [] OTHER -> v

appendScalar(ft, v) ==
    CASE ft \in {"float", "double"} -> v
      [] ft = "bytes" -> appendBytes(v)
      [] OTHER -> appendVarint(toVarint(ft, v))

appendProtoSingle(inner, f, v) ==
    IF f.type # "message" THEN appendKey(f, wireTypeFor(f.type)) \o appendScalar(f.type, v)
    ELSE IF v = NoMessage THEN <<>>
    ELSE appendKey(f, 2) \o appendBytes(inner[Msg(f.schema, v)])

\* The bytes of the first elements of a packed list.
packedBody(f, v) ==
    LET upTo[j \in 0..Len(v)] == IF j = 0 THEN <<>> ELSE upTo[j - 1] \o appendScalar(f.type, v[j])
    IN  upTo

appendPacked(f, v) ==
    LET body == packedBody(f, v)[Len(v)]
    IN  IF body = <<>> THEN <<>> ELSE appendKey(f, 2) \o appendBytes(body)

\* A piece is a field of its own on the wire, with the value that the field of the
\* message has when the piece has arrived.
Piece(f, v, bytes) == [num |-> f.num, v |-> v, bytes |-> bytes]

appendProtoField(inner, f, v) ==
    IF ~f.repeated THEN <<Piece(f, v, appendProtoSingle(inner, f, v))>>
    ELSE IF Packable(f) THEN <<Piece(f, v, appendPacked(f, v))>>
    ELSE [j \in DOMAIN v |-> Piece(f, SubSeq(v, 1, j), appendProtoSingle(inner, f, v[j]))]

\* The loop over the fields of the schema.
fieldPieces(inner, s) ==
    LET upTo[j \in 0..Len(Fields[s.type])] ==
            IF j = 0 THEN <<>>
            ELSE LET f == Fields[s.type][j]
                 IN  IF f.num \in DOMAIN s.msg
                     THEN upTo[j - 1] \o appendProtoField(inner, f, s.msg[f.num])
                     ELSE upTo[j - 1]
    IN  upTo

pieces(inner, s) == fieldPieces(inner, s)[Len(Fields[s.type])]

\* The bytes of the first pieces.
joined(ps) ==
    LET upTo[k \in 0..Len(ps)] == IF k = 0 THEN <<>> ELSE upTo[k - 1] \o ps[k].bytes
    IN  upTo

whole(ps) == joined(ps)[Len(ps)]

\* Each message of s, from those that nest no message up.
encodings(s) ==
    LET all == parts(s)
        upTo[d \in 0..Depth] ==
            [p \in all |-> whole(pieces(IF d = 0 THEN <<>> ELSE upTo[d - 1], p))]
    IN  upTo

encodeProtoBytes(s) == encodings(s)[Depth][s]

\* A slice is never longer than a varint can say.
HasRoom(bytes) == Len(bytes) < Size64

\* A message that is sent is a message in all its parts, and its encoding fits a slice.
ASSUME SentAssumption == \A s \in Sent :
    /\ s = Msg(s.type, s.msg) /\ \A p \in parts(s) : IsMessage(p)
    /\ HasRoom(encodeProtoBytes(s))

-----------------------------------------------------------------------------
(* Sender and receiver *)

NothingSent == Msg(NoSchema, NoMessage)

WireInit ==
    \/ Init /\ sent = NothingSent
    \/ /\ \E s \in Sent :
              LET bytes == encodeProtoBytes(s)
              IN  /\ \E n \in 0..Len(bytes) :
                        stack = <<Frame(Receiver[s.type], SubSeq(bytes, 1, n), Before[Receiver[s.type]])>>
                  /\ sent = s
       /\ err = "idle"

\* The program encodes what it decoded and decodes it again, into the same message.
Relay ==
    /\ err = "nil" /\ sent = NothingSent
    /\ sent' = Msg(stack[1].type, stack[1].msg)
    /\ LET bytes == encodeProtoBytes(sent')
       IN  HasRoom(bytes) /\ stack' = <<Frame(stack[1].type, bytes, stack[1].msg)>>
    /\ err' = "idle"

WireNext == (Decode /\ UNCHANGED sent) \/ Relay

WireSpec == WireInit /\ [][WireNext]_wireVars /\ WF_wireVars(Decode /\ UNCHANGED sent)

-----------------------------------------------------------------------------
(* Properties *)

\* What a receiver with the type t has of a message: not the fields it does not know, nor
\* nil elements, nor lists without an element.
receivedOne(inner, f, g, v) == IF f.type = "message" THEN inner[Msg(f.schema, v)][g.schema] ELSE v

receivedElements(inner, f, g, v) ==
    LET upTo[j \in 0..Len(v)] ==
            IF j = 0 THEN <<>>
            ELSE IF f.type = "message" /\ v[j] = NoMessage THEN upTo[j - 1]
            ELSE Append(upTo[j - 1], receivedOne(inner, f, g, v[j]))
    IN  upTo

receivedField(inner, f, g, v) ==
    IF f.repeated THEN receivedElements(inner, f, g, v)[Len(v)] ELSE receivedOne(inner, f, g, v)

receivedMessage(inner, s, t) ==
    LET value(n) == receivedField(inner, lookupNum(s.type, n), lookupNum(t, n), s.msg[n])
        has(n) == ~lookupNum(s.type, n).repeated \/ value(n) # <<>>
    IN  [n \in {n \in DOMAIN s.msg \cap Nums(t) : has(n)} |-> value(n)]

receivedParts(s) ==
    LET all == parts(s)
        got[d \in 0..Depth] ==
            [p \in all |-> [t \in Type |-> receivedMessage(IF d = 0 THEN <<>> ELSE got[d - 1], p, t)]]
    IN  got

\* The part of a message that its first pieces carry, and what a receiver has of that.
carried(t, ps) ==
    LET upTo[k \in 0..Len(ps)] == IF k = 0 THEN <<>> ELSE With(upTo[k - 1], ps[k].num, ps[k].v)
    IN  [k \in 0..Len(ps) |-> Msg(t, upTo[k])]

Received(s, t, k) ==
    receivedMessage(receivedParts(s)[Depth], carried(s.type, pieces(encodings(s)[Depth], s))[k], t)

Ended == sent # NothingSent /\ err \in Errors

\* The pieces of the message that was sent, and how many of them arrived as a whole.
sentPieces == pieces(encodings(sent)[Depth], sent)
arrived == Len(stack[1].data)
wholePieces == Max({k \in 0..Len(sentPieces) : Len(joined(sentPieces)[k]) =< arrived})

\* Of a message that was cut anywhere, or not at all, the receiver has the fields, and
\* the elements of repeated fields, that arrived as a whole: no others, none changed,
\* none lost, whatever the fields in between that it does not know, and nothing of what
\* its message held before.
RoundTrip == Ended => stack[1].msg = Received(sent, stack[1].type, wholePieces)

\* A cut is noticed, unless it is between two fields, and nothing else is an error.
CutIsFound ==
    Ended => err = IF Len(joined(sentPieces)[wholePieces]) = arrived THEN "nil" ELSE "ErrTruncated"
=============================================================================
