------------------------------- MODULE MCProto -------------------------------
(* Instances of ProtoWire for TLC: a varint has at most two bytes of 5 bits and 1
   bit, an int32 has 4 bits and an int64 has 6. *)
EXTENDS ProtoWire, TLC

CONSTANTS
    Symbol,            \* bound: the bytes of the inputs that are not encodings
    MaxInput           \* bound: the length of those inputs

MCField(n, ft, r) == [num |-> n, type |-> ft, repeated |-> r, schema |-> NoSchema]
MCMessageField(n, t, r) == [num |-> n, type |-> "message", repeated |-> r, schema |-> t]

MCType == {"Any", "AnyInner", "New", "NewInner", "Old", "OldInner"}

\* Old and OldInner lack fields of New and NewInner, at the beginning, in the middle
\* and at the end; field 4 has a key of two bytes.
MCFields ==
    [t \in MCType |->
        CASE t = "Any" -> <<MCField(1, "int32", FALSE), MCField(2, "uint64", TRUE),
                            MCMessageField(3, "AnyInner", TRUE)>>
          [] t = "AnyInner" -> <<MCField(1, "bool", FALSE), MCField(2, "uint32", TRUE)>>
          [] t = "New" -> <<MCField(4, "double", FALSE), MCField(1, "int32", FALSE),
                            MCField(2, "uint64", TRUE), MCField(6, "bytes", TRUE),
                            MCMessageField(3, "NewInner", FALSE),
                            MCMessageField(5, "NewInner", TRUE), MCField(7, "float", FALSE)>>
          [] t = "NewInner" -> <<MCField(1, "bool", FALSE), MCField(2, "uint32", FALSE)>>
          [] t = "Old" -> <<MCField(1, "int32", FALSE), MCField(2, "uint64", TRUE),
                            MCMessageField(3, "OldInner", FALSE),
                            MCMessageField(5, "OldInner", TRUE)>>
          [] t = "OldInner" -> <<MCField(2, "uint32", FALSE)>>]

\* What each message held before it is decoded.
MCBefore == [t \in MCType |-> CASE t \in {"NewInner", "OldInner"} -> 2 :> 7
                                 [] OTHER -> 2 :> <<7>>]

\* Arbitrary input: strings of bytes that are contents, lengths, continued groups and
\* keys of known and unknown fields.
MCInput == UNION {[1..n -> Symbol] : n \in 0..MaxInput}

MCNoMessage == 0 :> TRUE

MCReceiver == [t \in MCType |-> CASE t = "New" -> "Old" [] t = "NewInner" -> "OldInner" [] OTHER -> t]

\* Messages of type New: every combination of these values of its fields.
MCOptional(n, S) == {n :> v : v \in S} \cup {<<>>}
MCInner == {<<>>, 1 :> FALSE, (1 :> TRUE) @@ (2 :> 15)}
MCSent ==
    {Msg("New", f4 @@ f1 @@ f2 @@ f6 @@ f3 @@ f5 @@ f7) :
        f4 \in MCOptional(4, {<<32, 1>>}),
        f1 \in MCOptional(1, {-1, 7}),
        f2 \in MCOptional(2, {<<>>, <<32, 63>>}),
        f6 \in MCOptional(6, {<<<<>>, <<9>>>>}),
        f3 \in MCOptional(3, MCInner),
        f5 \in MCOptional(5, {<<MCNoMessage>>, <<MCNoMessage, 2 :> 0, 1 :> TRUE>>}),
        f7 \in MCOptional(7, {<<35>>})}
=============================================================================
