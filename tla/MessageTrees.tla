---------------------------- MODULE MessageTrees ----------------------------
(***************************************************************************)
(* Whole trees of messages as values, and the properties that relate the   *)
(* trees a caller sees before a call, and in its argument, to those it     *)
(* sees after it.                                                          *)
(***************************************************************************)
EXTENDS MessageView

\* A value with the messages in it, where tree has the tree of each message.
WithTrees(tree, v) ==
    CASE v.kind = "message" -> [kind |-> "message", tree |-> tree[v.ref]]
      [] v.kind = "messages" -> [kind |-> "messages",
                                 trees |-> [i \in DOMAIN v.elems |-> tree[v.elems[i]]]]
      [] OTHER -> v

Node(h, tree, r) ==
    IF r = Nil THEN Nil
    ELSE [schema |-> h[r].schema, set |-> h[r].set,
          vals |-> [f \in Field |-> WithTrees(tree, h[r].vals[f])]]

\* The messages of a heap with the messages in them, down to d levels.
Levels(h) ==
    LET down[d \in 0 .. Cardinality(Type) + 1] ==
            [r \in Ref \cup {Nil} |-> IF d = 0 THEN Nil ELSE Node(h, down[d - 1], r)]
    IN  down

\* Down to the leaves: a message nests fewer messages than there are schemas.
Tree(h, r) == Levels(h)[Cardinality(Type) + 1][r]
TreeOf(h, v) == WithTrees(Levels(h)[Cardinality(Type) + 1], v)

-----------------------------------------------------------------------------
RepeatedHoldsSlice(h) == \A r \in Allocated(h) : \A f \in h[r].set :
    lookupName(h[r].schema, f).repeated => h[r].vals[f].kind \in {"scalars", "messages"}

\* What a caller's value becomes in a field.
Stored(a) ==
    IF a.kind = "scalar" THEN ScalarVal(convertScalar[a.val])
    ELSE TreeOf(pre, a)

StoredSlice(fs, a) ==
    IF fs.type = "scalar"
    THEN ScalarsVal([i \in DOMAIN a.elems |-> convertScalar[a.elems[i].val]])
    ELSE [kind |-> "messages", trees |-> [i \in DOMAIN a.elems |->
             IF a.elems[i] = NilVal THEN Nil ELSE Tree(pre, a.elems[i].ref)]]

\* The value with one more element.
Longer(v, a) ==
    IF v.kind = "messages" \/ (v.kind = "nil" /\ a.kind = "message")
    THEN [kind |-> "messages",
          trees |-> Append(IF v.kind = "nil" THEN <<>> ELSE TreeOf(pre, v).trees, Tree(pre, a.ref))]
    ELSE ScalarsVal(Append(IF v.kind = "nil" THEN <<>> ELSE v.elems, convertScalar[a.val]))

(* A successful write is what the next read sees: Set and Append store a copy of the
   whole value as it was when the call began (and not a reference to it), nil and
   Clear leave the field unset or the element nil.  Set("", m) of a message to itself
   is left out: see SetSelfCopies. *)
WritesAreRead ==
    pc = "done" /\ err = "nil" /\ RepeatedHoldsSlice(pre) /\ RepeatedHoldsSlice(heap) =>
    LET p == call.path
        a == call.arg
        was == Get(pre, call.recv, p)
        now == Get(heap, call.recv, p)
        fs == lookupName(heap[cur].schema, p[Len(p)].field)
        seen == TreeOf(heap, now.val)
    IN  CASE call.op = "Clear" \/ a = NilVal ->
               IF p = <<>> THEN heap[call.recv].set = {}
               ELSE IF p[Len(p)].hasIdx
                    THEN now.isSet /\ now.val.ref = Nil
                    ELSE ~now.isSet
          [] call.op = "Set" /\ p = <<>> /\ a # NilVal ->
               a.ref # call.recv => seen = Stored(a)
          [] call.op = "Set" /\ p # <<>> /\ a # NilVal ->
               seen = (IF fs.repeated /\ ~p[Len(p)].hasIdx THEN StoredSlice(fs, a) ELSE Stored(a))
          [] call.op = "Append" -> seen = Longer(was.val, a)

-----------------------------------------------------------------------------
(* What the library's readme says and the code does not do. *)

(* "Set("", m): overwrite the content of this message with value (copy it as a
   whole)", of any message of the same schema. *)
SetSelfCopies ==
    pc = "done" /\ err = "nil" /\ call.op = "Set" /\ call.path = <<>> /\ call.arg # NilVal =>
    Tree(heap, call.recv) = Tree(pre, call.arg.ref)

(* "a repeated field returns the slice of its type": a repeated field that is set
   holds a slice. *)
RepeatedHoldsSlices == pc = "done" => RepeatedHoldsSlice(heap)

(* "Set(path, nil): clear, equivalent to Clear": it sets no field of any message. *)
SetNilClears == pc = "done" /\ call.op = "Set" /\ call.arg = NilVal =>
    \A r \in Allocated(pre) : heap[r].set \subseteq pre[r].set
=============================================================================
