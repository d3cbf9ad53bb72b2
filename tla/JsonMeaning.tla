---------------------------- MODULE JsonMeaning ----------------------------
(***************************************************************************)
(* What a JSON text means to a reader that knows the schema and does not   *)
(* care for the order of members, and how the decoder compares with it.    *)
(***************************************************************************)
EXTENDS Json

\* The members of known fields that are not null.
present(t, members) == {n \in Keys(members) \cap Names(t) : At(members, n) # Null}

\* What a value means for a field, an element of its list, or a whole message; inner is
\* the meaning of the messages in it.
meantOne(inner, f, v) ==
    IF f.type # "message" THEN decodeJSONScalar(f.type, v)
    ELSE IF IsA("object", v) THEN inner[f.schema][v[2]]
    ELSE Malformed

meantElement(inner, f, v) ==
    IF f.type = "message" /\ v = Null THEN Value(NoMessage) ELSE meantOne(inner, f, v)

meantList(inner, f, values) ==
    When(\A j \in DOMAIN values : meantElement(inner, f, values[j]).ok,
         [j \in DOMAIN values |-> meantElement(inner, f, values[j]).v])

meantField(inner, f, v) ==
    IF ~f.repeated THEN meantOne(inner, f, v)
    ELSE IF IsA("array", v) THEN meantList(inner, f, v[2])
    ELSE Malformed

meantMessage(inner, t, members) ==
    LET field(n) == meantField(inner, lookupName(t, n), At(members, n))
    IN  When(\A n \in present(t, members) : field(n).ok,
             [n \in present(t, members) |-> field(n).v])

\* The meaning of objects of each type whose values are nested d deep.
meaning[d \in 0..Depth] ==
    [t \in Type |-> [members \in Members(d) |->
        meantMessage(IF d = 0 THEN <<>> ELSE meaning[d - 1], t, members)]]

Reading == meaning[Depth]

Ended == err \notin {"idle", "running"}
type == stack[1].type
message == stack[1].msg

\* Whether a text is accepted does not depend on the order in which the map gives its
\* members, nor does the message that an accepted one gives; one of null gives none.
OrderIsFree ==
    Ended /\ readErr = "nil" =>
        CASE IsA("object", data[1]) ->
                LET r == Reading[type][data[1][2]]
                IN  /\ err = IF r.ok THEN "nil" ELSE "ErrMalformedData"
                    /\ err = "nil" => message = r.v
          [] data[1] = Null -> err = "nil" /\ message = <<>>
          [] OTHER -> err = "ErrMalformedData" /\ message = <<>>

\* In whatever order members are taken and wherever one of them is found wrong, every
\* field that is set is right and whole, and nothing is left of what the message held; a
\* text that cannot be read leaves all that it held.
WholeFields ==
    IF err = "idle" \/ readErr # "nil"
    THEN err \in {"idle", readErr} /\ message = before
    ELSE \A n \in DOMAIN message :
            /\ n \in present(type, data[1][2])
            /\ LET r == meantField(Reading, lookupName(type, n), At(data[1][2], n))
               IN  r.ok /\ message[n] = r.v
=============================================================================
