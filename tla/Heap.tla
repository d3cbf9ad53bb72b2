-------------------------------- MODULE Heap --------------------------------
(***************************************************************************)
(* The message objects of a Go program that uses the package, and the      *)
(* operations on them that every part of it shares: newMessage, the        *)
(* lookups, and the deep copy of copy.go.                                  *)
(*                                                                         *)
(* A heap maps each reference to a Message object, or to NoObject when the *)
(* memory is free.  Messages are modulo what the code does not tell apart: *)
(* schemas that schemasEqual calls equal are one element of Type, and all  *)
(* scalar field types are one, whose stored values are the set Scalar.     *)
(***************************************************************************)
EXTENDS Naturals, Sequences, FiniteSets, Functions

CONSTANTS
    Ref,               \* the addresses of message objects
    Type,              \* the message schemas
    Field,             \* the field names of all schemas
    Fields,            \* Fields[t][f]: the FieldSchema of field f in schema t
    Scalar,            \* the values a scalar field can store
    Nil                \* Go's nil pointer, and the absence of a schema

FieldSchema == [type : {"scalar", "message"}, repeated : BOOLEAN, schema : Type \cup {Nil}]
NoField == [type |-> "none", repeated |-> FALSE, schema |-> Nil]

ASSUME HeapAssumption ==
    /\ Nil \notin Ref \cup Type
    /\ Fields \in [Type -> [Field -> FieldSchema \cup {NoField}]]
    /\ \A t \in Type, f \in Field :
           Fields[t][f].type = "message" => Fields[t][f].schema \in Type

\* A schema is parsed from finite JSON, so no schema nests itself.
ASSUME SchemasAreFinite ==
    /\ IsFiniteSet(Type)
    /\ \E depth \in [Type -> 0 .. Cardinality(Type)] : \A t \in Type, f \in Field :
           Fields[t][f].type = "message" => depth[Fields[t][f].schema] < depth[t]

\* A field that the schema does not have gives NoField.
lookupName(t, f) == Fields[t][f]

-----------------------------------------------------------------------------
(* What a slot of Message.vals holds: Go's nil, a scalar, a *Message, a slice of
   scalars or a []*Message, whose elements may be nil.                          *)
NilVal == [kind |-> "nil"]
ScalarVal(x) == [kind |-> "scalar", val |-> x]
MessageVal(r) == [kind |-> "message", ref |-> r]
ScalarsVal(s) == [kind |-> "scalars", elems |-> s]
MessagesVal(s) == [kind |-> "messages", elems |-> s]

Val == {NilVal}
       \cup [kind : {"scalar"}, val : Scalar]
       \cup [kind : {"message"}, ref : Ref]
       \cup [kind : {"scalars"}, elems : Seq(Scalar)]
       \cup [kind : {"messages"}, elems : Seq(Ref \cup {Nil})]

\* The slice functions see no slice in any other value.
sliceLen(v) == IF v.kind \in {"scalars", "messages"} THEN Len(v.elems) ELSE 0

(* A Message object: its schema, and the arrays vals and set by field name. *)
Object == [schema : Type, vals : [Field -> Val], set : SUBSET Field]
newMessage(t) == [schema |-> t, vals |-> [f \in Field |-> NilVal], set |-> {}]
NoObject == newMessage(Nil)

Heap == [Ref -> Object \cup {NoObject}]
Allocated(h) == {r \in Ref : h[r].schema # Nil}
Unused(h) == Ref \ Allocated(h)

Put(h, r, f, v) ==
    [h EXCEPT ![r] = [schema |-> h[r].schema,
                      vals |-> [h[r].vals EXCEPT ![f] = v],
                      set |-> h[r].set \cup {f}]]

Unset(h, r, f) ==
    [h EXCEPT ![r] = [schema |-> h[r].schema,
                      vals |-> [h[r].vals EXCEPT ![f] = NilVal],
                      set |-> h[r].set \ {f}]]

-----------------------------------------------------------------------------
(* Reachability *)

\* The messages a value points to.
Pointees(v) == IF v.kind = "message" THEN {v.ref}
               ELSE IF v.kind = "messages" THEN Range(v.elems) \ {Nil}
               ELSE {}

Children(h, r) == UNION {Pointees(h[r].vals[f]) : f \in h[r].set}

\* The messages reached from those in R: the least set that holds R and, with a
\* message, its children.
Reach(h, R) ==
    LET Closed == {S \in SUBSET Allocated(h) : R \subseteq S
                                              /\ \A r \in S : Children(h, r) \subseteq S}
    IN  {r \in Allocated(h) : \A S \in Closed : r \in S}

-----------------------------------------------------------------------------
(* The deep copy.  One call of the API may copy several trees, or one tree several
   times: copy number i of message x is the object g[<<i, x>>], where g maps the
   pairs to distinct free references.                                           *)
Clone(g, i, x) == IF x = Nil THEN Nil ELSE g[<<i, x>>]

\* Mutants: the copy of a message list shares its elements; the copy of a message
\* shares the messages in it.
deepCopyValue_SharesElements(fs, v, g, i) ==
    IF fs.type = "message" /\ ~fs.repeated /\ v.kind = "message"
    THEN MessageVal(Clone(g, i, v.ref)) ELSE v

deepCopyValue_SharesMessage(fs, v, g, i) ==
    IF v.kind = "messages"
    THEN MessagesVal([j \in DOMAIN v.elems |-> Clone(g, i, v.elems[j])]) ELSE v

\* A value of the wrong kind for its field becomes nil, and stays set.
deepCopyValue(fs, v, g, i) ==
    IF fs.repeated
    THEN IF v.kind = "messages"
         THEN MessagesVal([j \in DOMAIN v.elems |-> Clone(g, i, v.elems[j])])
         ELSE IF v.kind = "scalars" THEN v ELSE NilVal
    ELSE IF fs.type = "message"
         THEN IF v.kind = "message" THEN MessageVal(Clone(g, i, v.ref)) ELSE NilVal
         ELSE v

deepCopy(h, x, g, i) ==
    [schema |-> h[x].schema,
     vals |-> [f \in Field |-> IF f \in h[x].set
                               THEN deepCopyValue(lookupName(h[x].schema, f), h[x].vals[f], g, i)
                               ELSE NilVal],
     set |-> h[x].set]

\* The heap with all the copies in it.
WithCopies(h, g) ==
    [q \in Ref |-> IF q \in Range(g)
                   THEN LET d == AntiFunction(g)[q] IN deepCopy(h, d[2], g, d[1])
                   ELSE h[q]]

\* The pairs to copy, for copy number i of the tree of roots[i].
CopyPairs(h, roots) ==
    UNION {{<<i, x>> : x \in Reach(h, {roots[i]} \ {Nil})} : i \in DOMAIN roots}

\* Room for the copies, and a choice of free references to put them at.  Which ones
\* a Go program gets makes no difference to it.
HasRoomFor(h, D) == \E g \in [D -> Unused(h)] : IsInjective(g)
Placement(h, D) == CHOOSE g \in [D -> Unused(h)] : IsInjective(g)

\* copyFrom clears its receiver before it reads the source: when they are the same
\* message nothing is left to copy.
copyFrom(h, m, src, g) ==
    IF m = src THEN [h EXCEPT ![m] = newMessage(h[src].schema)]
    ELSE [WithCopies(h, g) EXCEPT ![m] = deepCopy(h, src, g, 1)]

-----------------------------------------------------------------------------
(* What a heap that the package builds should look like; Message says why. *)

\* A slot that is set holds what its field allows.  Only a repeated message field may
\* hold something else than its list: a *Message, which descend can put there, or nil,
\* which a deep copy makes of it.
SlotFits(h, fs, v) ==
    \/ fs.type = "scalar" /\ v.kind = (IF fs.repeated THEN "scalars" ELSE "scalar")
    \/ /\ fs.type = "message"
       /\ v.kind = "message" \/ (fs.repeated /\ v.kind \in {"nil", "messages"})
       /\ \A c \in Pointees(v) : h[c].schema = fs.schema

Sound(h) == \A r \in Allocated(h), f \in Field :
    LET fs == lookupName(h[r].schema, f)
    IN  IF f \in h[r].set THEN fs.type # "none" /\ SlotFits(h, fs, h[r].vals[f])
        ELSE h[r].vals[f] = NilVal

\* No message is in two slots, or twice in a list.
NoRepeats(v) == v.kind = "messages" => \A i, j \in DOMAIN v.elems :
    v.elems[i] = v.elems[j] /\ v.elems[i] # Nil => i = j

Owned(h) == \A r \in Allocated(h) : \A f \in h[r].set :
    /\ NoRepeats(h[r].vals[f])
    /\ \A c \in Pointees(h[r].vals[f]), q \in Allocated(h) : \A g \in h[q].set :
           c \in Pointees(h[q].vals[g]) => q = r /\ g = f
=============================================================================
