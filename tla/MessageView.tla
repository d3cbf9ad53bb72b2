---------------------------- MODULE MessageView -----------------------------
(***************************************************************************)
(* What a caller sees of the store: Get and Has, and the properties that   *)
(* relate the outcome of a call to what Get returned before it.  Get       *)
(* changes nothing, so it needs no actions; it is an operator on a heap,   *)
(* with the loop of getValue as a function of the number of segments that  *)
(* it has gone through.                                                    *)
(***************************************************************************)
EXTENDS Message

Failed(e) == [err |-> e, isSet |-> FALSE, val |-> NilVal]
NotSet == [err |-> "nil", isSet |-> FALSE, val |-> NilVal]
Found(v) == [err |-> "nil", isSet |-> TRUE, val |-> v]

\* A nil element of a message list exists and is set.
elementValue(v, i) ==
    Found(IF v.kind = "messages" THEN [kind |-> "message", ref |-> v.elems[i + 1]]
          ELSE ScalarVal(v.elems[i + 1]))

\* What an iteration of the loop of getValue looks at: a message, nil below an unset
\* field, and its schema; or what an earlier iteration returned.
Place(m, t) == [err |-> "nil", msg |-> m, schema |-> t]
Stopped(e) == [err |-> e, msg |-> Nil, schema |-> Nil]

IsPresent(h, m, f) == IF m = Nil THEN FALSE ELSE f \in h[m].set

\* What each iteration returns when the segment is wrong.
segErr(h, w, seg) ==
    LET fs == lookupName(w.schema, seg.field)
    IN  IF fs.type = "none" \/ (seg.hasIdx /\ ~fs.repeated) THEN "ErrFieldNotFound"
        ELSE IF seg.hasIdx /\ (IF IsPresent(h, w.msg, seg.field)
                               THEN seg.idx >= sliceLen(h[w.msg].vals[seg.field]) ELSE TRUE)
        THEN "ErrIndexOutOfRange"
        ELSE "nil"

\* An iteration that is not the last goes on to the message in the field or element.
wayErr(h, w, seg) ==
    IF segErr(h, w, seg) # "nil" THEN segErr(h, w, seg)
    ELSE IF lookupName(w.schema, seg.field).type # "message" THEN "ErrFieldNotFound"
    ELSE "nil"

nextMessage(h, w, seg) ==
    LET v == h[w.msg].vals[seg.field]
    IN  IF ~IsPresent(h, w.msg, seg.field) THEN Nil
        ELSE IF seg.hasIdx THEN v.elems[seg.idx + 1]
        ELSE IF v.kind = "message" THEN v.ref
        ELSE Nil

goOn(h, w, seg) ==
    IF w.err # "nil" THEN w
    ELSE IF wayErr(h, w, seg) # "nil" THEN Stopped(wayErr(h, w, seg))
    ELSE Place(nextMessage(h, w, seg), lookupName(w.schema, seg.field).schema)

\* Where the loop is after i segments of path p, from message m of heap h.
walked(h, m, p) ==
    LET after[i \in 0 .. Len(p) - 1] ==
            IF i = 0 THEN Place(m, h[m].schema) ELSE goOn(h, after[i - 1], p[i])
    IN  after

\* The last iteration.
endValue(h, w, seg) ==
    LET v == h[w.msg].vals[seg.field]
    IN  IF segErr(h, w, seg) # "nil" THEN Failed(segErr(h, w, seg))
        ELSE IF ~IsPresent(h, w.msg, seg.field) THEN NotSet
        ELSE IF seg.hasIdx THEN elementValue(v, seg.idx)
        ELSE Found(v)

getValue(h, m, p) ==
    LET w == walked(h, m, p)[Len(p) - 1]
    IN  IF w.err # "nil" THEN Failed(w.err) ELSE endValue(h, w, p[Len(p)])

Get(h, m, p) == IF p = <<>> THEN Found(MessageVal(m)) ELSE getValue(h, m, p)

Has(h, m, p) == Get(h, m, p).err = "nil" /\ Get(h, m, p).isSet

-----------------------------------------------------------------------------
\* The path goes on below a nil element of a message list.
CrossesNil(h, m, p) == \E i \in 1 .. Len(p) - 1 :
    p[i].hasIdx /\ walked(h, m, p)[i].err = "nil" /\ walked(h, m, p)[i].msg = Nil

(* The four walks over a path, in Get, Set and Append, Clear, and Clear below an
   unset message, classify it alike: a write reports the error a read would have
   reported before it, and a write whose path Get accepts fails only for its value,
   below a nil element, or for clearing one element of a scalar list. *)
WalksAgree == pc = "done" /\ call.path # <<>> /\ (call.op = "Append" => NamesField(call.path)) =>
    LET v == Get(pre, call.recv, call.path)
    IN  IF CrossesNil(pre, call.recv, call.path) THEN err = "ErrFieldNotFound"
        ELSE IF v.err # "nil" THEN err = v.err
        ELSE \/ call.op = "Clear" /\ err = "nil"
             \/ call.op = "Clear" /\ v.val.kind = "scalar" /\ err = "ErrFieldNotFound"
             \/ call.op # "Clear" /\ err \in {"nil", "ErrTypeMismatch", "panic"}

(* A call panics only where the code is known to: on appending to a repeated message
   field that holds no slice (see RepeatedHoldsSlices), and on a nil *Message inside
   a []any. *)
PanicsExplained == pc = "done" /\ err = "panic" =>
    \/ LET v == Get(pre, call.recv, call.path)
       IN  call.op = "Append" /\ v.isSet /\ v.val.kind # "messages"
    \/ call.op = "Set" /\ call.arg.kind = "anys"
       /\ \E i \in DOMAIN call.arg.elems : call.arg.elems[i] = [kind |-> "message", ref |-> Nil]
=============================================================================
