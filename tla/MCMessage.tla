------------------------------ MODULE MCMessage -----------------------------
(* Message for TLC: the schemas, paths and scalars of the checked instances. *)
EXTENDS MessageTrees

Scalar1 == [type |-> "scalar", repeated |-> FALSE, schema |-> Nil]
Scalars == [type |-> "scalar", repeated |-> TRUE, schema |-> Nil]
Message1(t) == [type |-> "message", repeated |-> FALSE, schema |-> t]
Messages(t) == [type |-> "message", repeated |-> TRUE, schema |-> t]

At(f) == [field |-> f, hasIdx |-> FALSE, idx |-> 0]
AtIdx(f, i) == [field |-> f, hasIdx |-> TRUE, idx |-> i]

\* Fork: a message S with a single and a repeated message field of one schema M.
ForkFields == [t \in {"S", "M"} |-> [f \in {"city", "msg", "rmsg"} |->
    IF t = "S" THEN CASE f = "msg" -> Message1("M")
                      [] f = "rmsg" -> Messages("M")
                      [] OTHER -> NoField
    ELSE IF f = "city" THEN Scalar1 ELSE NoField]]

ForkPaths == {<<>>, <<At("city")>>, <<At("msg")>>, <<At("rmsg")>>, <<AtIdx("rmsg", 0)>>,
              <<At("msg"), At("city")>>, <<AtIdx("rmsg", 0), At("city")>>,
              <<At("rmsg"), At("city")>>}

\* Chain: three levels of messages, with a repeated message and a repeated scalar.  The
\* third level is also a single field, where a caller gets the messages of the list.
ChainFields == [t \in {"A", "B", "C"} |-> [f \in {"b", "cs", "vs"} |->
    CASE t = "A" /\ f = "b" -> Message1("B")
      [] t = "B" /\ f = "b" -> Message1("C")
      [] t = "B" /\ f = "cs" -> Messages("C")
      [] t = "C" /\ f = "vs" -> Scalars
      [] OTHER -> NoField]]

ChainPaths == {<<>>, <<At("b")>>, <<At("vs")>>, <<At("b"), At("b")>>, <<AtIdx("b", 0)>>, <<At("b"), At("cs")>>,
               <<At("b"), At("vs")>>, <<At("b"), AtIdx("cs", 0)>>, <<AtIdx("cs", 0)>>,
               <<At("b"), AtIdx("cs", 0), At("vs")>>,
               <<At("b"), AtIdx("cs", 0), AtIdx("vs", 0)>>,
               <<At("b"), At("cs"), At("vs")>>, <<At("b"), At("cs"), At("b")>>,
               <<AtIdx("vs", 0), At("b")>>, <<At("cs"), At("vs"), At("vs")>>}

\* Bound: the caller's p is for messages that hold no others.
LeavesInP == held["p"] = Nil \/ heap[held["p"]].schema \in {"M", "C"}

\* Native values that convert, and one that does not.
Convert == [x \in {"1"} |-> "one"]
ConvertOrFail == [x \in {"1", "bad"} |->
    IF x = "1" THEN "one" ELSE "mismatch"]

-----------------------------------------------------------------------------
(* Between calls two states are the same to a program when the trees its variables
   hold look the same and its variables alias each other in the same way: the names
   of the references do not matter.  TLC explores one state of each such class. *)
\* Where r is in the tree of m.
RECURSIVE Places(_, _)
Places(m, r) ==
    IF m = Nil \/ r = Nil THEN {} ELSE
    (IF m = r THEN {<<>>} ELSE {})
    \cup UNION {LET v == heap[m].vals[f]
                IN  CASE v.kind = "message" -> {<<f>> \o s : s \in Places(v.ref, r)}
                      [] v.kind = "messages" -> UNION {{<<f, i>> \o s : s \in Places(v.elems[i], r)} :
                                                       i \in DOMAIN v.elems}
                      [] OTHER -> {} : f \in heap[m].set}

View == IF pc # "idle" THEN vars
        ELSE <<Allocated(heap) = Live, [v \in Var |-> Tree(heap, held[v])],
               [v, w \in Var |-> Places(held[w], held[v])]>>
=============================================================================
