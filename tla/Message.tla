------------------------------ MODULE Message -------------------------------
(***************************************************************************)
(* The message store of message.go: New, Set, Append, Clear and            *)
(* Get(...).Message() on messages that a program holds in its variables.   *)
(*                                                                         *)
(* A call is a sequence of steps, one for each iteration of the loop that  *)
(* walks the path (descend, clearPath, verifyClearPath) and one for the    *)
(* operation at its end.  A program calls the API on a message from one    *)
(* goroutine at a time (the README requires it), so a call starts when the *)
(* one before it has returned.                                             *)
(***************************************************************************)
EXTENDS Heap

CONSTANTS
    Top,               \* the registered schemas, which New can construct
    CScalar,           \* scalars a caller passes in: native values of any type
    convertScalar,     \* what the conversion makes of each: a Scalar or Mismatch
    Mismatch,
    Path,              \* the parsed paths that callers use
    Var,               \* the caller's *Message variables
    MaxLen,            \* bound: the longest list a caller builds
    ArgKinds           \* bound: the kinds of argument that callers pass

Seg == [field : Field, hasIdx : BOOLEAN, idx : Nat]

ASSUME MessageAssumption ==
    /\ Top \subseteq Type
    /\ Mismatch \notin Scalar
    /\ convertScalar \in [CScalar -> Scalar \cup {Mismatch}]
    /\ Path \subseteq Seq(Seg)
    /\ MaxLen \in Nat

VARIABLES
    heap,              \* the message objects
    held,              \* what each variable of the caller points to
    pc,                \* the function that runs, "done" before its return, or "idle"
    call,              \* the operation, receiver, path and argument of the call
    segs,              \* the path segments not yet consumed
    cur,               \* the message the walk is at
    vschema,           \* the schema verifyClearPath is at
    err,               \* the outcome of the call
    pre                \* history: the heap when the call began

vars == <<heap, held, pc, call, segs, cur, vschema, err, pre>>
walk == <<segs, cur, vschema>>

Empty == [r \in Ref |-> NoObject]
Errors == {"nil", "ErrFieldNotFound", "ErrIndexOutOfRange", "ErrTypeMismatch", "panic"}

-----------------------------------------------------------------------------
(* The argument `value any`: nil, a scalar, a *Message, a []*Message or another
   slice (a []any, or a slice of scalars). *)
Elem == {NilVal} \cup [kind : {"scalar"}, val : CScalar]
                 \cup [kind : {"message"}, ref : Ref \cup {Nil}]
Arg == Elem \cup [kind : {"messages"}, elems : Seq([kind : {"message"}, ref : Ref \cup {Nil}])]
            \cup [kind : {"anys"}, elems : Seq(Elem)]

IsSlice(a) == a.kind \in {"messages", "anys"}

\* convertScalar and convertMessage accept these.
IsScalar(a) == a.kind = "scalar" /\ convertScalar[a.val] # Mismatch
IsMessageOf(t, a) == a.kind = "message" /\ a.ref # Nil /\ heap[a.ref].schema = t

\* convertMessageSlice takes nil as a nil element, from a []*Message and from a
\* []any, but dereferences a nil *Message that it finds inside a []any.
IsElementOf(t, a, e) == \/ e = NilVal
                        \/ e.kind = "message" /\ e.ref = Nil /\ a.kind = "messages"
                        \/ IsMessageOf(t, e)

convertMessageSlice(t, a) ==
    LET Bad == {i \in DOMAIN a.elems : ~IsElementOf(t, a, a.elems[i])}
        first == CHOOSE i \in Bad : \A j \in Bad : i =< j
    IN  IF ~IsSlice(a) THEN "ErrTypeMismatch"
        ELSE IF Bad = {} THEN "nil"
        ELSE IF a.elems[first].kind = "message" /\ a.elems[first].ref = Nil THEN "panic"
        ELSE "ErrTypeMismatch"

convertToSlice(fs, a) ==
    IF fs.type = "message" THEN convertMessageSlice(fs.schema, a)
    ELSE IF IsSlice(a) /\ \A i \in DOMAIN a.elems : IsScalar(a.elems[i])
         THEN "nil" ELSE "ErrTypeMismatch"

\* Mutants: convertMessage lets a nil *Message through; it does not compare schemas.
convertElement_TypedNil(fs, a) ==
    IF (IF fs.type = "message" THEN IsMessageOf(fs.schema, a) \/ a = MessageVal(Nil)
        ELSE IsScalar(a))
    THEN "nil" ELSE "ErrTypeMismatch"

convertElement_AnySchema(fs, a) ==
    IF (IF fs.type = "message" THEN a.kind = "message" /\ a.ref # Nil ELSE IsScalar(a))
    THEN "nil" ELSE "ErrTypeMismatch"

\* convertMessage or convertScalar, by the type of the field.
convertElement(fs, a) ==
    IF (IF fs.type = "message" THEN IsMessageOf(fs.schema, a) ELSE IsScalar(a))
    THEN "nil" ELSE "ErrTypeMismatch"

-----------------------------------------------------------------------------
(* Starting and ending a call *)

\* The collector has freed what the program cannot reach (see Collect).
Live == Reach(heap, {held[v] : v \in Var} \ {Nil})
Ready == pc = "idle" /\ Allocated(heap) = Live

Goto(l) == pc' = l

\* The function in progress returns e.
Done(e) == Goto("done") /\ err' = e

Start(op, v, p, a) ==
    /\ held[v] # Nil
    /\ call' = [op |-> op, recv |-> held[v], path |-> p, arg |-> a]
    /\ segs' = p
    /\ cur' = held[v]
    /\ pre' = heap
    /\ UNCHANGED <<heap, held, vschema>>

BeginSet(v, p, a) == Start("Set", v, p, a) /\ Goto("Set") /\ UNCHANGED err

\* Append needs the name of a field, without an index, at the end of the path.  The
\* caller stops at MaxLen elements.
NamesField(p) == p # <<>> /\ ~p[Len(p)].hasIdx

BeginAppend(v, p, a) ==
    /\ Start("Append", v, p, a)
    /\ \/ /\ ~NamesField(p)
          /\ Done("ErrFieldNotFound")
       \/ /\ NamesField(p)
          /\ \A r \in Ref : sliceLen(heap[r].vals[p[Len(p)].field]) < MaxLen
          /\ Goto("Append")
          /\ UNCHANGED err

BeginClear(v, p) == Start("Clear", v, p, NilVal) /\ Goto("Clear") /\ UNCHANGED err

Return ==
    /\ pc = "done"
    /\ Goto("idle")
    /\ call' = <<>>
    /\ segs' = <<>>
    /\ cur' = Nil
    /\ vschema' = Nil
    /\ err' = "nil"
    /\ pre' = Empty
    /\ UNCHANGED <<heap, held>>

-----------------------------------------------------------------------------
(* descend, with create = true: one iteration of its loop *)
Descending == pc \in {"Set", "Append"} /\ Len(segs) > 1

descendErr(r, seg) ==
    LET f == seg.field
        fs == lookupName(heap[r].schema, f)
        v == heap[r].vals[f]
    IN  IF fs.type = "none" \/ (seg.hasIdx /\ ~fs.repeated) THEN "ErrFieldNotFound"
        ELSE IF seg.hasIdx /\ (f \notin heap[r].set \/ seg.idx >= sliceLen(v))
             THEN "ErrIndexOutOfRange"
        ELSE IF fs.type # "message" \/ (seg.hasIdx /\ v.elems[seg.idx + 1] = Nil)
             THEN "ErrFieldNotFound"
        ELSE "nil"

DescendFail ==
    /\ Descending
    /\ descendErr(cur, Head(segs)) # "nil"
    /\ Done(descendErr(cur, Head(segs)))
    /\ UNCHANGED <<heap, held, call, walk, pre>>

Advance(r) ==
    /\ cur' = r
    /\ segs' = Tail(segs)
    /\ UNCHANGED <<held, pc, call, vschema, err, pre>>

DescendElement ==
    /\ Descending
    /\ descendErr(cur, Head(segs)) = "nil"
    /\ Head(segs).hasIdx
    /\ Advance(heap[cur].vals[Head(segs).field].elems[Head(segs).idx + 1])
    /\ UNCHANGED heap

\* A set field that holds a *Message leads to it.
HoldsMessage(r, f) == f \in heap[r].set /\ heap[r].vals[f].kind = "message"

DescendMessage ==
    /\ Descending
    /\ descendErr(cur, Head(segs)) = "nil"
    /\ ~Head(segs).hasIdx
    /\ HoldsMessage(cur, Head(segs).field)
    /\ Advance(heap[cur].vals[Head(segs).field].ref)
    /\ UNCHANGED heap

\* Any other slot is overwritten with a new message: a repeated field is not told
\* from a single one here.
DescendCreate ==
    /\ Descending
    /\ descendErr(cur, Head(segs)) = "nil"
    /\ ~Head(segs).hasIdx
    /\ ~HoldsMessage(cur, Head(segs).field)
    /\ Unused(heap) # {}
    /\ LET f == Head(segs).field
           fs == lookupName(heap[cur].schema, f)
           nm == CHOOSE r \in Unused(heap) : TRUE
       IN  /\ heap' = Put([heap EXCEPT ![nm] = newMessage(fs.schema)], cur, f, MessageVal(nm))
           /\ Advance(nm)

-----------------------------------------------------------------------------
(* The end of Set and Append *)
last == segs[Len(segs)]
lastSchema == lookupName(heap[cur].schema, last.field)
AtEnd(op) == pc = op /\ Len(segs) = 1

slot == heap[cur].vals[last.field]
slotIsSet == last.field \in heap[cur].set

\* Store in the last field the value that V makes of copies of the messages in roots.
StoreCopies(roots, V(_)) ==
    LET D == CopyPairs(heap, roots)
        g == Placement(heap, D)
        copies == [i \in DOMAIN roots |-> Clone(g, i, roots[i])]
    IN  /\ HasRoomFor(heap, D)
        /\ heap' = Put(WithCopies(heap, g), cur, last.field, V(copies))

Finish == Done("nil") /\ UNCHANGED <<held, call, walk, pre>>

setFieldErr(fs, a) ==
    IF a = NilVal THEN "nil"
    ELSE IF fs.repeated THEN convertToSlice(fs, a)
    ELSE convertElement(fs, a)

setElementErr(fs, a) ==
    IF ~fs.repeated THEN "ErrFieldNotFound"
    ELSE IF ~slotIsSet \/ last.idx >= sliceLen(slot) THEN "ErrIndexOutOfRange"
    ELSE IF fs.type = "message" /\ a = NilVal THEN "nil"
    ELSE convertElement(fs, a)

setErr == IF lastSchema.type = "none" THEN "ErrFieldNotFound"
          ELSE IF last.hasIdx THEN setElementErr(lastSchema, call.arg)
          ELSE setFieldErr(lastSchema, call.arg)

SetFail ==
    /\ AtEnd("Set")
    /\ setErr # "nil"
    /\ Done(setErr)
    /\ UNCHANGED <<heap, held, call, walk, pre>>

Setting == AtEnd("Set") /\ setErr = "nil"

setField ==
    /\ Setting
    /\ ~last.hasIdx
    /\ LET a == call.arg
       IN  \/ /\ a = NilVal
              /\ heap' = Unset(heap, cur, last.field)
           \/ /\ a # NilVal /\ lastSchema.repeated /\ lastSchema.type = "message"
              /\ StoreCopies([i \in DOMAIN a.elems |-> IF a.elems[i] = NilVal THEN Nil
                                                       ELSE a.elems[i].ref],
                             MessagesVal)
           \/ /\ a # NilVal /\ lastSchema.repeated /\ lastSchema.type = "scalar"
              /\ heap' = Put(heap, cur, last.field, ScalarsVal(
                             [i \in DOMAIN a.elems |-> convertScalar[a.elems[i].val]]))
           \/ /\ a # NilVal /\ ~lastSchema.repeated /\ lastSchema.type = "message"
              /\ StoreCopies(<<a.ref>>, LAMBDA c : MessageVal(c[1]))
           \/ /\ a # NilVal /\ ~lastSchema.repeated /\ lastSchema.type = "scalar"
              /\ heap' = Put(heap, cur, last.field, ScalarVal(convertScalar[a.val]))
    /\ Finish

\* Mutant: the index of the path is taken as one-based.
setElement_OffByOne ==
    /\ Setting
    /\ last.hasIdx
    /\ LET a == call.arg
           i == last.idx
       IN  \/ /\ a = NilVal
              /\ heap' = Put(heap, cur, last.field, MessagesVal([slot.elems EXCEPT ![i] = Nil]))
           \/ /\ a # NilVal /\ lastSchema.type = "message"
              /\ StoreCopies(<<a.ref>>,
                             LAMBDA c : MessagesVal([slot.elems EXCEPT ![i] = c[1]]))
           \/ /\ a # NilVal /\ lastSchema.type = "scalar"
              /\ heap' = Put(heap, cur, last.field, ScalarsVal(
                             [slot.elems EXCEPT ![i] = convertScalar[a.val]]))
    /\ Finish

setElement ==
    /\ Setting
    /\ last.hasIdx
    /\ LET a == call.arg
           i == last.idx + 1
       IN  \/ /\ a = NilVal
              /\ heap' = Put(heap, cur, last.field, MessagesVal([slot.elems EXCEPT ![i] = Nil]))
           \/ /\ a # NilVal /\ lastSchema.type = "message"
              /\ StoreCopies(<<a.ref>>,
                             LAMBDA c : MessagesVal([slot.elems EXCEPT ![i] = c[1]]))
           \/ /\ a # NilVal /\ lastSchema.type = "scalar"
              /\ heap' = Put(heap, cur, last.field, ScalarsVal(
                             [slot.elems EXCEPT ![i] = convertScalar[a.val]]))
    /\ Finish

\* Set("", value)
setSelfErr == IF call.arg = NilVal \/ IsMessageOf(heap[cur].schema, call.arg)
              THEN "nil" ELSE "ErrTypeMismatch"

SetSelfFail ==
    /\ pc = "Set" /\ segs = <<>>
    /\ setSelfErr # "nil"
    /\ Done(setSelfErr)
    /\ UNCHANGED <<heap, held, call, walk, pre>>

clearAll == heap' = [heap EXCEPT ![cur] = newMessage(heap[cur].schema)]

setSelf ==
    /\ pc = "Set" /\ segs = <<>>
    /\ setSelfErr = "nil"
    /\ \/ /\ call.arg = NilVal
          /\ clearAll
       \/ /\ call.arg # NilVal
          /\ LET src == call.arg.ref
                 D == {<<1, x>> : x \in Reach(heap, Children(heap, src))}
             IN  /\ HasRoomFor(heap, D)
                 /\ heap' = copyFrom(heap, cur, src, Placement(heap, D))
    /\ Finish

\* Mutant: Append does not create the list of an unset field.
appendErr_NoList ==
    IF lastSchema.type = "none" THEN "ErrFieldNotFound"
    ELSE IF ~lastSchema.repeated THEN "ErrTypeMismatch"
    ELSE IF convertElement(lastSchema, call.arg) # "nil" THEN "ErrTypeMismatch"
    ELSE IF lastSchema.type = "message" /\ slot.kind # "messages" THEN "panic"
    ELSE "nil"

\* A slot that is set but holds no []*Message fails the type assertion of appendField.
appendErr ==
    IF lastSchema.type = "none" THEN "ErrFieldNotFound"
    ELSE IF ~lastSchema.repeated THEN "ErrTypeMismatch"
    ELSE IF convertElement(lastSchema, call.arg) # "nil" THEN "ErrTypeMismatch"
    ELSE IF lastSchema.type = "message" /\ slotIsSet /\ slot.kind # "messages" THEN "panic"
    ELSE "nil"

AppendFail ==
    /\ AtEnd("Append")
    /\ appendErr # "nil"
    /\ Done(appendErr)
    /\ UNCHANGED <<heap, held, call, walk, pre>>

appendField ==
    /\ AtEnd("Append")
    /\ appendErr = "nil"
    /\ LET old == IF slotIsSet THEN slot.elems ELSE <<>>
       IN  \/ /\ lastSchema.type = "message"
              /\ StoreCopies(<<call.arg.ref>>, LAMBDA c : MessagesVal(Append(old, c[1])))
           \/ /\ lastSchema.type = "scalar"
              /\ heap' = Put(heap, cur, last.field,
                             ScalarsVal(Append(old, convertScalar[call.arg.val])))
    /\ Finish

-----------------------------------------------------------------------------
(* Clear: clearPath, one step per segment *)
ClearSelf ==
    /\ pc = "Clear" /\ segs = <<>>
    /\ clearAll
    /\ Finish

Clearing == pc = "Clear" /\ segs # <<>>

clearPathErr ==
    LET f == Head(segs).field
        i == Head(segs).idx
        fs == lookupName(heap[cur].schema, f)
        v == heap[cur].vals[f]
        atLast == Len(segs) = 1
    IN  IF fs.type = "none" THEN "ErrFieldNotFound"
        ELSE IF Head(segs).hasIdx
        THEN IF ~fs.repeated THEN "ErrFieldNotFound"
             ELSE IF f \notin heap[cur].set \/ i >= sliceLen(v) THEN "ErrIndexOutOfRange"
             ELSE IF fs.type # "message" THEN "ErrFieldNotFound"
             ELSE IF ~atLast /\ v.elems[i + 1] = Nil THEN "ErrFieldNotFound"
             ELSE "nil"
        ELSE IF ~atLast /\ fs.type # "message" THEN "ErrFieldNotFound"
        ELSE "nil"

ClearFail ==
    /\ Clearing
    /\ clearPathErr # "nil"
    /\ Done(clearPathErr)
    /\ UNCHANGED <<heap, held, call, walk, pre>>

clearField ==
    /\ Clearing
    /\ clearPathErr = "nil"
    /\ Len(segs) = 1 /\ ~last.hasIdx
    /\ heap' = Unset(heap, cur, last.field)
    /\ Finish

clearElement ==
    /\ Clearing
    /\ clearPathErr = "nil"
    /\ Len(segs) = 1 /\ last.hasIdx
    /\ heap' = Put(heap, cur, last.field,
                   MessagesVal([slot.elems EXCEPT ![last.idx + 1] = Nil]))
    /\ Finish

ClearInElement ==
    /\ Clearing
    /\ clearPathErr = "nil"
    /\ Len(segs) > 1 /\ Head(segs).hasIdx
    /\ Advance(heap[cur].vals[Head(segs).field].elems[Head(segs).idx + 1])
    /\ UNCHANGED heap

ClearInMessage ==
    /\ Clearing
    /\ clearPathErr = "nil"
    /\ Len(segs) > 1 /\ ~Head(segs).hasIdx
    /\ HoldsMessage(cur, Head(segs).field)
    /\ Advance(heap[cur].vals[Head(segs).field].ref)
    /\ UNCHANGED heap

\* Mutant: Clear creates the message on the way, as Set does.
ClearInUnset_Creates ==
    /\ Clearing
    /\ clearPathErr = "nil"
    /\ Len(segs) > 1 /\ ~Head(segs).hasIdx
    /\ ~HoldsMessage(cur, Head(segs).field)
    /\ Unused(heap) # {}
    /\ LET f == Head(segs).field
           nm == CHOOSE r \in Unused(heap) : TRUE
       IN  /\ heap' = Put([heap EXCEPT ![nm] = newMessage(lookupName(heap[cur].schema, f).schema)],
                          cur, f, MessageVal(nm))
           /\ Advance(nm)

\* Below an unset message the rest of the path is only checked against the schema.
ClearInUnset ==
    /\ Clearing
    /\ clearPathErr = "nil"
    /\ Len(segs) > 1 /\ ~Head(segs).hasIdx
    /\ ~HoldsMessage(cur, Head(segs).field)
    /\ Goto("verifyClearPath")
    /\ vschema' = lookupName(heap[cur].schema, Head(segs).field).schema
    /\ segs' = Tail(segs)
    /\ UNCHANGED <<heap, held, call, cur, err, pre>>

\* Mutant: an index below an unset message is not looked at.
verifyErr_NoIndex ==
    LET fs == lookupName(vschema, Head(segs).field)
    IN  IF fs.type = "none" \/ (Len(segs) > 1 /\ fs.type # "message")
        THEN "ErrFieldNotFound" ELSE "nil"

verifyErr ==
    LET fs == lookupName(vschema, Head(segs).field)
    IN  IF fs.type = "none" THEN "ErrFieldNotFound"
        ELSE IF Head(segs).hasIdx
             THEN IF fs.repeated THEN "ErrIndexOutOfRange" ELSE "ErrFieldNotFound"
        ELSE IF Len(segs) > 1 /\ fs.type # "message" THEN "ErrFieldNotFound"
        ELSE "nil"

VerifyEnd ==
    /\ pc = "verifyClearPath"
    /\ verifyErr # "nil" \/ Len(segs) = 1
    /\ Done(verifyErr)
    /\ UNCHANGED <<heap, held, call, walk, pre>>

VerifyNext ==
    /\ pc = "verifyClearPath"
    /\ verifyErr = "nil" /\ Len(segs) > 1
    /\ vschema' = lookupName(vschema, Head(segs).field).schema
    /\ segs' = Tail(segs)
    /\ UNCHANGED <<heap, held, pc, call, cur, err, pre>>

-----------------------------------------------------------------------------
(* The caller's variables *)
Hold(v, r) == held' = [held EXCEPT ![v] = r] /\ UNCHANGED <<pc, call, walk, err, pre>>

New(v, t) ==
    /\ Unused(heap) # {}
    /\ LET r == CHOOSE r \in Unused(heap) : TRUE
       IN  /\ heap' = [heap EXCEPT ![r] = newMessage(t)]
           /\ Hold(v, r)

\* m.Get(seg).Message(): the message itself and not a copy, or nil.
messageAt(m, seg) ==
    LET f == seg.field
        v == heap[m].vals[f]
    IN  IF f \notin heap[m].set THEN Nil
        ELSE IF ~seg.hasIdx /\ v.kind = "message"
                /\ ~lookupName(heap[m].schema, f).repeated THEN v.ref
        ELSE IF seg.hasIdx /\ v.kind = "messages" /\ seg.idx < Len(v.elems)
             THEN v.elems[seg.idx + 1]
        ELSE Nil

GetMessage(v, w, seg) ==
    /\ held[w] # Nil
    /\ Hold(v, messageAt(held[w], seg))
    /\ UNCHANGED heap

\* The Go garbage collector.
Collect ==
    /\ pc = "idle"
    /\ Allocated(heap) # Live
    /\ heap' = [r \in Ref |-> IF r \in Live THEN heap[r] ELSE NoObject]
    /\ UNCHANGED <<held, pc, call, walk, err, pre>>

-----------------------------------------------------------------------------
Init ==
    /\ heap = Empty
    /\ held = [v \in Var |-> Nil]
    /\ pc = "idle"
    /\ call = <<>>
    /\ segs = <<>>
    /\ cur = Nil
    /\ vschema = Nil
    /\ err = "nil"
    /\ pre = Empty

\* The values the caller can pass.
ElemArgs == {NilVal} \cup {ScalarVal(x) : x \in CScalar}
                     \cup {MessageVal(r) : r \in {held[v] : v \in Var} \cup {Nil}}
Slices(S) == UNION {[1 .. n -> S] : n \in 0 .. MaxLen}
SliceArgs ==
    {MessagesVal(s) : s \in Slices({e \in ElemArgs : e.kind = "message"})}
    \cup {[kind |-> "anys", elems |-> s] : s \in Slices(ElemArgs)}
Passed(A) == {a \in A : a.kind \in ArgKinds}

Begin ==
    /\ Ready
    /\ \E v \in Var :
        \/ \E t \in Top : New(v, t)
        \/ \E w \in Var, p \in Path : Len(p) = 1 /\ GetMessage(v, w, p[1])
        \/ \E p \in Path, a \in Passed(ElemArgs \cup SliceArgs) : BeginSet(v, p, a)
        \/ \E p \in Path, a \in Passed(ElemArgs) : BeginAppend(v, p, a)
        \/ \E p \in Path : BeginClear(v, p)

Walk == \/ DescendFail \/ DescendElement \/ DescendMessage \/ DescendCreate
        \/ ClearInElement \/ ClearInMessage \/ ClearInUnset \/ VerifyNext

End == \/ SetFail \/ setField \/ setElement \/ SetSelfFail \/ setSelf
       \/ AppendFail \/ appendField
       \/ ClearSelf \/ ClearFail \/ clearField \/ clearElement \/ VerifyEnd

Next == Begin \/ Walk \/ End \/ Return \/ Collect

Spec == Init /\ [][Next]_vars

-----------------------------------------------------------------------------
Call == [op : {"Set", "Append", "Clear"}, recv : Ref, path : Path, arg : Arg]

(* Type correctness. *)
TypeOK ==
    /\ heap \in Heap
    /\ held \in [Var -> Ref \cup {Nil}]
    /\ pc \in {"idle", "Set", "Append", "Clear", "verifyClearPath", "done"}
    /\ call \in Call \cup {<<>>}
    /\ segs \in Seq(Seg)
    /\ cur \in Ref \cup {Nil}
    /\ vschema \in Type \cup {Nil}
    /\ err \in Errors
    /\ pre \in Heap

(* Every message is what the schema above it says: a slot of a field holds values of
   that field's type, and a *Message it holds is an allocated message of the field's
   schema.  The encoders rely on it without looking: they walk fs.Schema.  A repeated
   message field is allowed a *Message here, which descend can put there. *)
SchemaSound == Sound(heap)

(* Every message is held by at most one slot of one message, at one place of its
   list.  It is what makes deep copies independent of their sources: no two trees
   share a message, however calls are combined, and no message is in itself. *)
Ownership == Owned(heap)

(* "Target and source are completely independent afterwards, changing one does not
   affect the other" (section 8 of the library's readme): a call leaves alone every
   message that the program holds and that is neither part of the receiver's tree nor
   a message the receiver is part of. *)
Isolation == pc = "done" => \A v \in Var :
    LET m == held[v]
    IN  m # Nil /\ m \notin Reach(pre, {call.recv}) /\ call.recv \notin Reach(pre, {m})
        => \A r \in Reach(pre, {m}) : heap[r] = pre[r]

(* What a call may change in the messages that exist when it begins, whether it
   succeeds or fails: the slot the path names, if it succeeds (only one element of it
   when the path has an index, only its end for Append), and otherwise only a slot on
   the way that a Set or an Append had to fill with a new message. *)
CreatedOnTheWay(r, f) ==
    /\ call.op # "Clear"
    /\ \E i \in 1 .. Len(call.path) - 1 : call.path[i].field = f /\ ~call.path[i].hasIdx
    /\ ~(f \in pre[r].set /\ pre[r].vals[f].kind = "message")
    /\ HoldsMessage(r, f)

\* The rest of the list around an element that is set, or before one that is appended.
RestOfListKept(v, w) ==
    LET n == IF v.kind = "nil" THEN 0 ELSE Len(v.elems)
        target == call.path[Len(call.path)]
    IN  /\ target.hasIdx => w.kind = v.kind /\ Len(w.elems) = n
        /\ \A i \in 1 .. n : w.elems[i] = v.elems[i] \/ (target.hasIdx /\ i = target.idx + 1)

OnlyTargetChanges == pc = "done" /\ call.path # <<>> =>
    \A r \in Allocated(pre), f \in Field :
        \/ heap[r].vals[f] = pre[r].vals[f] /\ (f \in heap[r].set <=> f \in pre[r].set)
        \/ CreatedOnTheWay(r, f)
        \/ /\ err = "nil" /\ r = cur /\ f = call.path[Len(call.path)].field
           /\ call.op = "Append" \/ call.path[Len(call.path)].hasIdx
                  => RestOfListKept(pre[r].vals[f], heap[r].vals[f])
=============================================================================
