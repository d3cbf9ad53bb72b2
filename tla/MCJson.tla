------------------------------- MODULE MCJson -------------------------------
(* Instances of JsonWire for TLC.  int32 has 3 bits and int64 5, floats have
   significands of 2 bits and of 4; the largest float is beyond every integer. *)
EXTENDS JsonWire, TLC

MCBits == 32 :> 3 @@ 64 :> 5
MCPrecision == 32 :> 2 @@ 64 :> 4
MCMaxScale == 32 :> 5 @@ 64 :> 4

MCField(n, ft, r) == [name |-> n, type |-> ft, repeated |-> r, schema |-> NoSchema]
MCMessageField(n, t, r) == [name |-> n, type |-> "message", repeated |-> r, schema |-> t]

MCType == {"Any", "AnyInner", "New", "NewInner", "Old", "OldInner"}

\* Old and OldInner lack fields of New and NewInner.
MCFields ==
    [t \in MCType |->
        CASE t = "Any" -> <<MCField("n", "int32", FALSE), MCField("l", "uint32", TRUE),
                            MCMessageField("m", "AnyInner", FALSE),
                            MCMessageField("k", "AnyInner", TRUE),
                            MCField("f", "float", FALSE)>>
          [] t = "AnyInner" -> <<MCField("b", "bytes", FALSE), MCField("x", "bool", FALSE)>>
          [] t = "New" -> <<MCField("d", "double", FALSE), MCField("s", "string", TRUE),
                            MCField("i", "int64", TRUE), MCField("u", "uint64", FALSE),
                            MCMessageField("m", "NewInner", FALSE),
                            MCMessageField("k", "NewInner", TRUE)>>
          [] t = "NewInner" -> <<MCField("b", "bytes", FALSE), MCField("f", "float", FALSE)>>
          [] t = "Old" -> <<MCMessageField("k", "OldInner", TRUE), MCField("i", "int64", TRUE),
                            MCField("s", "string", TRUE), MCField("u", "uint64", FALSE)>>
          [] t = "OldInner" -> <<MCField("f", "float", FALSE)>>]

MCReceiver == [t \in MCType |-> CASE t = "New" -> "Old"
                                  [] t = "NewInner" -> "OldInner"
                                  [] OTHER -> t]
MCBefore == [t \in MCType |-> CASE t = "Any" -> "n" :> 1
                                [] t = "Old" -> "u" :> 1
                                [] OTHER -> <<>>]

MCNoMessage == "nil" :> TRUE

MCFromBase64 == "QQ==" :> "A" @@ "QQ==\n" :> "A" @@ "" :> ""
MCToBase64 == "A" :> "QQ==" @@ "" :> ""
MCStr == {"a", "?", "", "QQ==", "QQ==\n"}
MCUtf8 == [s \in MCStr \cup {"bad"} |-> IF s = "bad" THEN "?" ELSE s]

-----------------------------------------------------------------------------
(* Texts for Any: an object with none or one of these members for each field, one
   unknown member, and one that comes twice. *)

MCInt(n) == Number(2 * n, n < 0, TRUE)

MCMembers(key, values) == {<<>>} \cup {<<<<key, v>>>> : v \in values}
MCInners == {Object(<<<<"b", String("QQ==\n")>>>>),
             Object(<<<<"x", MCInt(1)>>, <<"b", String("a")>>>>),
             Object(<<<<"b", String("")>>, <<"x", Bool(TRUE)>>>>)}

MCObjects ==
    {Object(n \o l \o m \o k \o f) :
        n \in MCMembers("n", {Null, MCInt(-4), MCInt(4), Number(2, FALSE, FALSE)})
              \cup {<<<<"n", MCInt(2)>>, <<"y", MCInt(1)>>, <<"n", Null>>>>},
        l \in MCMembers("l", {MCInt(1), Array(<<MCInt(7), MCInt(0)>>), Array(<<MCInt(1), MCInt(8)>>),
                              Array(<<Null>>), Array(<<Number(0, TRUE, TRUE)>>)}),
        m \in MCMembers("m", {Array(<<>>)} \cup MCInners),
        k \in MCMembers("k", {Array(<<MCInt(1)>>)} \cup {Array(<<Null, o>>) : o \in MCInners}),
        f \in MCMembers("f", {Number(5, FALSE, FALSE), Number(-112, TRUE, TRUE)})}

MCTexts == {<<>>, <<Bad>>, <<Object(<<>>), Bad>>, <<Null, Null>>, <<Null>>, <<MCInt(1)>>, <<Array(<<>>)>>}
           \cup {<<o>> : o \in MCObjects}
MCInput == {[type |-> "Any", text |-> x] : x \in MCTexts}

-----------------------------------------------------------------------------
(* Messages of type New: every combination of these values of its fields. *)

MCOptional(n, S) == {n :> v : v \in S} \cup {<<>>}
MCSentInner == {<<>>, ("b" :> "A") @@ ("f" :> Finite(-96)), "f" :> NaN}

MCSent ==
    {[type |-> "New", msg |-> d @@ s @@ i @@ u @@ m @@ k] :
        d \in MCOptional("d", {Finite(7), Finite(240), Inf(1)}),
        s \in MCOptional("s", {<<>>, <<"a", "bad">>}),
        i \in MCOptional("i", {<<MinInt(64), MaxInt(64)>>}),
        u \in MCOptional("u", {0, MaxUint(64)}),
        m \in MCOptional("m", MCSentInner),
        k \in MCOptional("k", {<<NoMessage>>} \cup {<<NoMessage, inner>> : inner \in MCSentInner})}
=============================================================================
