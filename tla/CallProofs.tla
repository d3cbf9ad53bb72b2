----------------------------- MODULE CallProofs -----------------------------
(***************************************************************************)
(* Proofs about a call of Set, Append or Clear, for any schemas, paths,    *)
(* arguments and number of messages: it changes only what its path names   *)
(* (OnlyTargetChanges) and nothing in another tree (Isolation), it ends as *)
(* Get would have ended before it (WalksAgree, PanicsExplained), and what  *)
(* it stores is what Get finds after it (WritesAreRead).                   *)
(*                                                                         *)
(* All of them compare with pre, the heap when the call began.  CallInv    *)
(* says how the heap differs from it while the call is on its way: in the  *)
(* slots that the walk had to fill, all of them in the tree of the         *)
(* receiver or in new messages.  ReadInv says that the walk is where Get   *)
(* would be on the same path in pre, and WriteInv that it is also where    *)
(* Get would be in the heap as it is, having written only to the messages  *)
(* on its way: none of them is in a tree that the call copies, as those    *)
(* are of schemas nested in theirs.                                        *)
(***************************************************************************)
EXTENDS MessageProofs, MessageTrees, DataLemmas

Walking == pc \in {"Set", "Append", "Clear"}
Running == Walking \/ pc = "verifyClearPath"

SameSlot(r, f) == heap[r].vals[f] = pre[r].vals[f] /\ (f \in heap[r].set <=> f \in pre[r].set)

\* What is left of the path is its end, and something is left of every path but <<>>.
PathLeft == Walking =>
    /\ call.op = pc
    /\ Len(segs) =< Len(call.path)
    /\ \A i \in 1 .. Len(segs) : segs[i] = call.path[Len(call.path) - Len(segs) + i]
    /\ call.path # <<>> => segs # <<>>
    /\ call.op = "Append" => NamesField(call.path)

\* The call began in a sound and owned heap, and nothing it had is gone.
PreExists == pc # "idle" =>
    /\ call \in Call /\ call.recv \in Allocated(pre)
    /\ Sound(pre) /\ Owned(pre)
    /\ Allocated(pre) \subseteq Allocated(heap)
    /\ \A v \in Var : held[v] # Nil => held[v] \in Allocated(pre)

SlotsKept == Running =>
    \A r \in Allocated(pre), f \in Field : SameSlot(r, f) \/ CreatedOnTheWay(r, f)

\* The messages that are not the receiver's.
Others == Allocated(pre) \ Reach(pre, {call.recv})

\* The walk does not leave the receiver's tree and the new messages, which hold none of
\* the others.
StaysInTree == Walking =>
    /\ cur \notin Others
    /\ \A r \in Allocated(heap) \ Others : Children(heap, r) \cap Others = {}

OthersKept == pc # "idle" => \A r \in Others : heap[r] = pre[r]

CallInv == /\ StoreInv
           /\ PathLeft /\ PreExists /\ SlotsKept /\ StaysInTree /\ OthersKept
           /\ OnlyTargetChanges

-----------------------------------------------------------------------------
(* Two trees of which none holds the root of the other share no message. *)
\* What is reached is a starting point or a child of something reached.
LEMMA ReachHasParent ==
    ASSUME NEW h \in Heap, Sound(h), NEW R \in SUBSET Allocated(h), NEW c \in Reach(h, R), c \notin R
    PROVE  \E p \in Reach(h, R) : c \in Children(h, p)
<1> SUFFICES ASSUME \A p \in Reach(h, R) : c \notin Children(h, p)
             PROVE  FALSE
    OBVIOUS
<1> DEFINE S == Reach(h, R) \ {c}
<1>1. S \in SUBSET Allocated(h) /\ R \subseteq S
    BY ReachCloses
<1>2. \A r \in S : Children(h, r) \subseteq S
    BY ReachCloses
<1> HIDE DEF S
<1>3. Reach(h, R) \subseteq S
    BY <1>1, <1>2, ReachCloses
<1> QED BY <1>3 DEF S

LEMMA TreesApart ==
    ASSUME NEW h \in Heap, Sound(h), Owned(h),
           NEW m \in Allocated(h), NEW q \in Allocated(h),
           m \notin Reach(h, {q}), q \notin Reach(h, {m})
    PROVE  Reach(h, {m}) \cap Reach(h, {q}) = {}
<1> DEFINE S == Reach(h, {m}) \ Reach(h, {q})
<1>1. S \in SUBSET Allocated(h) /\ {m} \subseteq S
    BY ReachCloses
<1>2. ASSUME NEW r \in S, NEW c \in Children(h, r)
      PROVE  c \in S
    <2>1. c \in Reach(h, {m})
        BY <1>2, ReachCloses
    <2>2. ASSUME c \in Reach(h, {q}) PROVE FALSE
        <3>1. c # q
            BY <2>1
        <3>2. PICK p \in Reach(h, {q}) : c \in Children(h, p)
            BY <2>2, <3>1, ReachHasParent
        <3>3. p \in Allocated(h) /\ r \in Allocated(h)
            BY <1>1, ReachCloses
        <3>4. p = r
            BY <1>2, <3>2, <3>3, OneSlot DEF Children
        <3> QED BY <1>2, <3>2, <3>4
    <2> QED BY <2>1, <2>2
<1> HIDE DEF S
<1>3. Reach(h, {m}) \subseteq S
    BY <1>1, <1>2, ReachCloses
<1> QED BY <1>3 DEF S

-----------------------------------------------------------------------------
(* What a step writes *)
\* k differs from the heap in slot f of message r at most, and in new messages.
ChangesOnly(k, r, f) ==
    /\ \A q \in Allocated(heap) : q # r => k[q] = heap[q]
    /\ k[r].schema = heap[r].schema
    /\ \A e \in Field : e # f =>
           k[r].vals[e] = heap[r].vals[e] /\ (e \in k[r].set <=> e \in heap[r].set)

LEMMA PutChanges ==
    ASSUME StoreInv, NEW r \in Allocated(heap), NEW f \in Field, NEW v, NEW h,
           DOMAIN h = Ref, \A q \in Allocated(heap) : h[q] = heap[q]
    PROVE  /\ ChangesOnly(Put(h, r, f, v), r, f)
           /\ Put(h, r, f, v)[r].vals[f] = v /\ f \in Put(h, r, f, v)[r].set
<1>1. r \in Ref /\ h[r] = heap[r] /\ DOMAIN h[r].vals = Field
    BY ObjectType DEF Allocated, StoreInv, TypeOK
<1> DEFINE k == Put(h, r, f, v)
<1>2. k[r] = [schema |-> heap[r].schema, vals |-> [heap[r].vals EXCEPT ![f] = v],
              set |-> heap[r].set \cup {f}]
    BY <1>1 DEF Put
<1>3. \A q \in Allocated(heap) : q # r => k[q] = heap[q]
    BY <1>1 DEF Put, Allocated
<1> HIDE DEF k
<1> QED BY <1>1, <1>2, <1>3 DEF ChangesOnly, k

LEMMA UnsetChanges ==
    ASSUME StoreInv, NEW r \in Allocated(heap), NEW f \in Field
    PROVE  ChangesOnly(Unset(heap, r, f), r, f)
<1>1. r \in Ref /\ DOMAIN heap = Ref /\ DOMAIN heap[r].vals = Field
    BY ObjectType DEF Allocated, StoreInv, TypeOK, Heap
<1> DEFINE k == Unset(heap, r, f)
<1>2. k[r] = [schema |-> heap[r].schema, vals |-> [heap[r].vals EXCEPT ![f] = NilVal],
              set |-> heap[r].set \ {f}]
    BY <1>1 DEF Unset
<1>3. \A q \in Allocated(heap) : q # r => k[q] = heap[q]
    BY <1>1 DEF Unset, Allocated
<1> HIDE DEF k
<1> QED BY <1>1, <1>2, <1>3 DEF ChangesOnly, k

\* Copies are made at free references.
LEMMA CopiesChange ==
    ASSUME NEW h, NEW D, HasRoomFor(h, D)
    PROVE  LET k == WithCopies(h, Placement(h, D))
           IN  DOMAIN k = Ref /\ \A q \in Allocated(h) : k[q] = h[q]
<1> DEFINE g == Placement(h, D)
<1>1. g \in [D -> Unused(h)]
    BY PlacementIs
<1> HIDE DEF g
<1>2. \A q \in Allocated(h) : q \in Ref /\ q \notin Range(g)
    BY <1>1 DEF Range, Unused, Allocated
<1> QED BY <1>2 DEF WithCopies, g

LEMMA ChangesKeepMessages ==
    ASSUME StoreInv, cur \in Allocated(heap), NEW k,
           \A q \in Allocated(heap) : k[q].schema = heap[q].schema
    PROVE  Allocated(heap) \subseteq Allocated(k)
BY DEF Allocated

-----------------------------------------------------------------------------
(* The three ways a call goes on *)
\* The function returns and has changed nothing.
LEMMA SameHeapDone ==
    ASSUME CallInv, StoreInv', Running, NEW e, Done(e), heap' = heap,
           UNCHANGED <<held, call, walk, pre>>
    PROVE  CallInv'
<1> USE DEF CallInv, Done, Goto, walk, Running, Walking
<1>1. PathLeft' /\ StaysInTree' /\ SlotsKept'
    BY DEF PathLeft, StaysInTree, SlotsKept
<1>2. PreExists' /\ OthersKept'
    BY DEF PreExists, OthersKept, Others
<1>3. \A r \in Allocated(pre), f \in Field : SameSlot(r, f) \/ CreatedOnTheWay(r, f)
    BY DEF SlotsKept
<1>4. OnlyTargetChanges'
    BY <1>3 DEF OnlyTargetChanges, SameSlot, CreatedOnTheWay, HoldsMessage
<1> QED BY <1>1, <1>2, <1>4

\* The function returns and has changed one message.
LEMMA MessageDone ==
    ASSUME CallInv, StoreInv', Walking, Finish,
           \A q \in Allocated(heap) : q # cur => heap'[q] = heap[q],
           heap'[cur].schema = heap[cur].schema,
           OnlyTargetChanges'
    PROVE  CallInv'
<1> USE DEF CallInv, Finish, Done, Goto, walk, Running, Walking
<1>1. PathLeft' /\ StaysInTree' /\ SlotsKept'
    BY DEF PathLeft, StaysInTree, SlotsKept
<1>2. Allocated(pre) \subseteq Allocated(heap) /\ cur \notin Others
    BY DEF PreExists, StaysInTree
<1>3. Allocated(heap) \subseteq Allocated(heap')
    BY ChangesKeepMessages DEF StoreInv, WalkExists
<1>4. PreExists'
    BY <1>2, <1>3 DEF PreExists
<1>5. OthersKept'
    BY <1>2 DEF OthersKept, Others
<1> QED BY <1>1, <1>4, <1>5

\* What is left of the path is its last segment.
LEMMA TargetIsLast ==
    ASSUME CallInv, Walking, Len(segs) = 1
    PROVE  Len(call.path) >= 1 /\ last = call.path[Len(call.path)]
<1>1. call.path \in Seq(Seg)
    BY MessageAssumption DEF CallInv, PreExists, Walking, Call
<1>2. Len(call.path) \in Nat /\ Len(segs) =< Len(call.path)
      /\ segs[1] = call.path[Len(call.path) - Len(segs) + 1]
    BY <1>1, LenProperties DEF CallInv, PathLeft
<1> QED BY <1>2 DEF last

\* It has changed the slot that the path names.
LEMMA TargetDone ==
    ASSUME CallInv, StoreInv', Walking, Len(segs) = 1, Finish,
           ChangesOnly(heap', cur, last.field),
           call.op = "Append" \/ last.hasIdx =>
               ~HoldsMessage(cur, last.field) /\ RestOfListKept(slot, heap'[cur].vals[last.field])
    PROVE  CallInv'
<1>1. Len(call.path) >= 1 /\ last = call.path[Len(call.path)]
    BY TargetIsLast
<1>2. ASSUME NEW r \in Allocated(pre), NEW f \in Field
      PROVE  \/ heap'[r].vals[f] = pre[r].vals[f] /\ (f \in heap'[r].set <=> f \in pre[r].set)
             \/ CreatedOnTheWay(r, f)'
             \/ /\ r = cur /\ f = last.field
                /\ call.op = "Append" \/ last.hasIdx
                       => RestOfListKept(pre[r].vals[f], heap'[r].vals[f])
    <2>1. SameSlot(r, f) \/ CreatedOnTheWay(r, f)
        BY DEF CallInv, SlotsKept, Running
    <2>2. r \in Allocated(heap)
        BY DEF CallInv, PreExists, Walking
    <2>3. CASE r # cur \/ f # last.field
        <3>1. heap'[r].vals[f] = heap[r].vals[f] /\ (f \in heap'[r].set <=> f \in heap[r].set)
            BY <2>2, <2>3 DEF ChangesOnly
        <3>2. pre' = pre /\ call' = call
            BY DEF Finish
        <3> QED BY <2>1, <3>1, <3>2 DEF SameSlot, CreatedOnTheWay, HoldsMessage
    <2>4. CASE r = cur /\ f = last.field
        BY <2>1, <2>4 DEF SameSlot, CreatedOnTheWay, slot
    <2> QED BY <2>3, <2>4
<1>3. pre' = pre /\ call' = call /\ cur' = cur /\ err' = "nil"
    BY DEF Finish, Done, walk
<1> DEFINE kept(r, f) ==
        \/ heap[r].vals[f] = pre[r].vals[f] /\ (f \in heap[r].set <=> f \in pre[r].set)
        \/ CreatedOnTheWay(r, f)
        \/ /\ err = "nil" /\ r = cur /\ f = call.path[Len(call.path)].field
           /\ call.op = "Append" \/ call.path[Len(call.path)].hasIdx
                  => RestOfListKept(pre[r].vals[f], heap[r].vals[f])
<1>4. ASSUME NEW r \in Allocated(pre), NEW f \in Field
      PROVE  kept(r, f)'
    <2>1. CASE r = cur /\ f = last.field
               /\ (call.op = "Append" \/ last.hasIdx
                      => RestOfListKept(pre[r].vals[f], heap'[r].vals[f]))
        <3>1. RestOfListKept(pre[r].vals[f], heap'[r].vals[f])
              => RestOfListKept(pre[r].vals[f], heap[r].vals[f])'
            BY <1>3 DEF RestOfListKept
        <3> QED BY <1>1, <1>3, <2>1, <3>1
    <2>2. CASE \/ heap'[r].vals[f] = pre[r].vals[f] /\ (f \in heap'[r].set <=> f \in pre[r].set)
               \/ CreatedOnTheWay(r, f)'
        BY <1>3, <2>2
    <2> QED BY <1>2, <2>1, <2>2
<1>5. \A r \in Allocated(pre), f \in Field : kept(r, f)'
    BY <1>4
<1>6. (\A r \in Allocated(pre), f \in Field : kept(r, f))' => OnlyTargetChanges'
    BY DEF OnlyTargetChanges
<1> HIDE DEF kept
<1>7. OnlyTargetChanges'
    BY <1>3, <1>5, <1>6
<1> QED BY <1>7, MessageDone DEF ChangesOnly

\* The walk goes on, to a message that is not another's.
LEMMA PathAdvances ==
    ASSUME CallInv, Walking, Len(segs) > 1, NEW r, Advance(r)
    PROVE  PathLeft'
<1>1. segs \in Seq(Seg) /\ call.path \in Seq(Seg)
    BY MessageAssumption DEF CallInv, StoreInv, TypeOK, PreExists, Walking, Call
<1>2. Len(segs) \in Nat /\ Len(call.path) \in Nat /\ segs # <<>>
    BY <1>1, LenProperties, EmptySeq
<1>3. /\ segs' \in Seq(Seg) /\ Len(segs') = Len(segs) - 1
      /\ \A i \in 1 .. Len(segs') : segs'[i] = segs[i + 1]
    BY <1>1, <1>2, HeadTailProperties DEF Advance
<1>4. segs' # <<>>
    BY <1>2, <1>3, EmptySeq
<1>5. ASSUME NEW i \in 1 .. Len(segs')
      PROVE  segs'[i] = call.path[Len(call.path) - Len(segs') + i]
    <2>1. i + 1 \in 1 .. Len(segs)
        BY <1>2, <1>3
    <2>2. segs[i + 1] = call.path[Len(call.path) - Len(segs) + (i + 1)]
        BY <2>1 DEF CallInv, PathLeft
    <2>3. \A n, m, j \in Nat : n - m + (j + 1) = n - (m - 1) + j
        OBVIOUS
    <2>4. i \in Nat /\ Len(segs') = Len(segs) - 1
        BY <1>3
    <2> QED BY <1>2, <1>3, <2>2, <2>3, <2>4, SMTT(30)
<1> QED BY <1>2, <1>3, <1>4, <1>5 DEF PathLeft, CallInv, Advance, Walking

LEMMA NextSegment ==
    ASSUME CallInv, Walking, Len(segs) > 1
    PROVE  /\ cur \in Allocated(heap) /\ Head(segs).field \in Field
           /\ \E i \in 1 .. Len(call.path) - 1 : call.path[i] = Head(segs)
<1>1. segs \in Seq(Seg) /\ call.path \in Seq(Seg)
    BY MessageAssumption DEF CallInv, StoreInv, TypeOK, PreExists, Walking, Call
<1>2. Len(segs) \in Nat /\ Len(call.path) \in Nat /\ segs # <<>>
    BY <1>1, LenProperties, EmptySeq
<1>3. Head(segs) = segs[1] /\ Len(segs) =< Len(call.path)
      /\ segs[1] = call.path[Len(call.path) - Len(segs) + 1]
    BY <1>1, <1>2 DEF CallInv, PathLeft
<1>4. Len(call.path) - Len(segs) + 1 \in 1 .. Len(call.path) - 1
    BY <1>2, <1>3
<1>5. Head(segs).field \in Field
    BY <1>2, HeadIsSeg DEF CallInv
<1> QED BY <1>3, <1>4, <1>5 DEF CallInv, StoreInv, WalkExists, Walking

LEMMA WalkOn ==
    ASSUME CallInv, StoreInv', Walking, Len(segs) > 1, heap' = heap,
           NEW r, Advance(r), r \in Children(heap, cur)
    PROVE  CallInv'
<1> USE DEF CallInv, Walking
<1>1. PathLeft'
    BY PathAdvances
<1>2. pre' = pre /\ call' = call /\ held' = held /\ pc' = pc /\ cur' = r
    BY DEF Advance
<1>3. PreExists'
    BY <1>2 DEF PreExists
<1>4. SlotsKept'
    BY <1>2 DEF SlotsKept, SameSlot, CreatedOnTheWay, HoldsMessage, Running
<1>5. OthersKept' /\ OnlyTargetChanges'
    BY <1>2 DEF OthersKept, Others, OnlyTargetChanges
<1>6. cur \in Allocated(heap)
    BY DEF StoreInv, WalkExists
<1>7. StaysInTree'
    BY <1>2, <1>6 DEF StaysInTree, Others
<1> QED BY <1>1, <1>3, <1>4, <1>5, <1>7

LEMMA ElementIsChild ==
    ASSUME StoreInv, NEW r \in Allocated(heap), NEW f \in heap[r].set,
           lookupName(heap[r].schema, f).type = "message",
           NEW i \in Nat, ~(i >= sliceLen(heap[r].vals[f])), heap[r].vals[f].elems[i + 1] # Nil
    PROVE  heap[r].vals[f].elems[i + 1] \in Children(heap, r)
<1> DEFINE v == heap[r].vals[f]
<1>1. f \in Field
    BY ObjectType DEF StoreInv, TypeOK, Allocated
<1>2. sliceLen(v) \in Nat
    BY <1>1, SliceLenNat
<1>3. v.kind = "messages" /\ i + 1 \in DOMAIN v.elems
    BY <1>2, SlotElement
<1>4. v.elems[i + 1] \in Pointees(v)
    BY <1>3 DEF Pointees, Range
<1> QED BY <1>4 DEF Children

LEMMA MessageIsChild ==
    ASSUME NEW h, NEW r, NEW f \in h[r].set, h[r].vals[f].kind = "message"
    PROVE  h[r].vals[f].ref \in Children(h, r)
BY DEF Children, Pointees

\* The walk makes the message it goes on to.
LEMMA CreateKeeps ==
    ASSUME CallInv, StoreInv', DescendCreate
    PROVE  CallInv'
<1> USE DEF CallInv, Walking
<1> DEFINE f == Head(segs).field
<1> DEFINE fs == lookupName(heap[cur].schema, f)
<1>1. PICK nm \in Unused(heap) :
          /\ heap' = Put([heap EXCEPT ![nm] = newMessage(fs.schema)], cur, f, MessageVal(nm))
          /\ Advance(nm)
    BY DEF DescendCreate
<1>2. Walking /\ Len(segs) > 1 /\ pc # "Clear" /\ ~Head(segs).hasIdx /\ ~HoldsMessage(cur, f)
    BY DEF DescendCreate, Descending
<1>3. cur \in Allocated(heap) /\ f \in Field
      /\ \E i \in 1 .. Len(call.path) - 1 : call.path[i] = Head(segs)
    BY <1>2, NextSegment
<1>4. nm \in Ref /\ nm \notin Allocated(heap) /\ nm # cur
    BY <1>3 DEF Unused
<1> DEFINE h == [heap EXCEPT ![nm] = newMessage(fs.schema)]
<1>5. DOMAIN h = Ref /\ (\A q \in Allocated(heap) : h[q] = heap[q])
      /\ h[nm].set = {}
    BY <1>4 DEF StoreInv, TypeOK, Heap, newMessage
<1>6. /\ ChangesOnly(heap', cur, f)
      /\ heap'[cur].vals[f] = MessageVal(nm) /\ f \in heap'[cur].set
      /\ heap'[nm].set = {}
    <2> HIDE DEF h, f
    <2>1. heap' = Put(h, cur, f, MessageVal(nm))
        BY <1>1 DEF h, f
    <2>2. heap'[nm].set = {}
        BY <1>4, <1>5, <2>1 DEF Put
    <2> QED BY <1>3, <1>5, <2>1, <2>2, PutChanges
<1> HIDE DEF h, fs
<1>7. pre' = pre /\ call' = call /\ held' = held /\ pc' = pc /\ err' = err /\ cur' = nm
    BY <1>1 DEF Advance
<1>8. PathLeft'
    BY <1>1, <1>2, PathAdvances
<1>9. Allocated(heap) \subseteq Allocated(heap') /\ Allocated(pre) \subseteq Allocated(heap)
    BY <1>2, <1>3, <1>6, ChangesKeepMessages DEF ChangesOnly, PreExists
<1>10. PreExists'
    BY <1>2, <1>7, <1>9 DEF PreExists
<1>11. ASSUME NEW r \in Allocated(pre), NEW e \in Field
       PROVE  SameSlot(r, e)' \/ CreatedOnTheWay(r, e)'
    <2>1. SameSlot(r, e) \/ CreatedOnTheWay(r, e)
        BY <1>2 DEF SlotsKept, Running
    <2>2. CASE r # cur \/ e # f
        <3>1. heap'[r].vals[e] = heap[r].vals[e] /\ (e \in heap'[r].set <=> e \in heap[r].set)
            BY <1>6, <1>9, <2>2 DEF ChangesOnly
        <3> QED BY <1>7, <2>1, <3>1 DEF SameSlot, CreatedOnTheWay, HoldsMessage
    <2>3. CASE r = cur /\ e = f
        <3>1. SameSlot(r, e)
            BY <1>2, <2>1, <2>3 DEF CreatedOnTheWay
        <3>2. ~(e \in pre[r].set /\ pre[r].vals[e].kind = "message")
            BY <1>2, <2>3, <3>1 DEF SameSlot, HoldsMessage
        <3>3. HoldsMessage(r, e)'
            BY <1>6, <2>3 DEF HoldsMessage, MessageVal
        <3>4. call.op # "Clear"
            BY <1>2 DEF PathLeft
        <3>5. \E i \in 1 .. Len(call.path) - 1 : call.path[i].field = e /\ ~call.path[i].hasIdx
            BY <1>2, <1>3, <2>3
        <3> QED BY <1>7, <3>2, <3>3, <3>4, <3>5 DEF CreatedOnTheWay
    <2> QED BY <2>2, <2>3
<1>12. SlotsKept'
    BY <1>7, <1>11 DEF SlotsKept
<1>13. cur \notin Others /\ Others' = Others
    BY <1>2, <1>7 DEF StaysInTree, Others
<1>14. StaysInTree'
    <2>1. SUFFICES ASSUME NEW r \in Allocated(heap') \ Others, NEW c \in Children(heap', r)
                   PROVE  c \notin Others
        BY <1>4, <1>7, <1>9, <1>13 DEF StaysInTree, Others
    <2>2. nm \notin Others
        BY <1>4, <1>9 DEF Others
    <2>3. PICK e \in heap'[r].set : c \in Pointees(heap'[r].vals[e])
        BY DEF Children
    <2>4. CASE r = cur /\ e = f
        BY <1>6, <2>2, <2>3, <2>4 DEF Pointees, MessageVal
    <2>5. CASE r \in Allocated(heap) /\ (r # cur \/ e # f)
        <3>1. e \in Field
            BY ObjectType DEF StoreInv, TypeOK, Allocated
        <3>2. e \in heap[r].set /\ heap'[r].vals[e] = heap[r].vals[e]
            BY <1>6, <2>5, <3>1 DEF ChangesOnly
        <3>3. c \in Children(heap, r)
            BY <2>3, <3>2 DEF Children
        <3> QED BY <1>2, <2>5, <3>3 DEF StaysInTree
    <2>6. CASE r \notin Allocated(heap)
        <3>1. r \in Ref /\ r # nm
            BY <1>6, <2>3 DEF Allocated
        <3>2. heap'[r] = heap[r]
            <4>1. cur # r
                BY <1>3, <2>6
            <4> QED BY <1>1, <3>1, <4>1 DEF Put, StoreInv, TypeOK, Heap
        <3> QED BY <2>6, <3>1, <3>2 DEF Allocated
    <2> QED BY <1>3, <2>4, <2>5, <2>6
<1>15. OthersKept' /\ OnlyTargetChanges'
    BY <1>2, <1>6, <1>7, <1>9, <1>13 DEF OthersKept, Others, ChangesOnly, OnlyTargetChanges
<1> QED BY <1>8, <1>10, <1>12, <1>14, <1>15

LEMMA WalkKeepsCall ==
    ASSUME CallInv, StoreInv', Walk
    PROVE  CallInv'
<1> USE DEF CallInv, Walking
<1> DEFINE f == Head(segs).field
<1> DEFINE fs == lookupName(heap[cur].schema, f)
<1>1. CASE DescendFail
    BY <1>1, SameHeapDone DEF DescendFail, Descending, Running
<1>2. CASE DescendElement
    <2>1. Walking /\ Len(segs) > 1
        BY <1>2 DEF DescendElement, Descending
    <2>2. cur \in Allocated(heap) /\ Head(segs).idx \in Nat
        BY <2>1, NextSegment, HeadIsSeg, EmptySeq
    <2>3. /\ fs.type = "message" /\ f \in heap[cur].set
          /\ ~(Head(segs).idx >= sliceLen(heap[cur].vals[f]))
          /\ heap[cur].vals[f].elems[Head(segs).idx + 1] # Nil
        BY <1>2 DEF DescendElement, descendErr
    <2>4. heap[cur].vals[f].elems[Head(segs).idx + 1] \in Children(heap, cur)
        BY <2>2, <2>3, ElementIsChild
    <2> QED BY <1>2, <2>1, <2>4, WalkOn DEF DescendElement
<1>3. CASE DescendMessage
    BY <1>3, MessageIsChild, WalkOn DEF DescendMessage, Descending, HoldsMessage
<1>4. CASE DescendCreate
    BY <1>4, CreateKeeps
<1>5. CASE ClearInElement
    <2>1. Walking /\ Len(segs) > 1 /\ Len(segs) \in Nat /\ clearPathErr = "nil" /\ Head(segs).hasIdx
        BY <1>5, LenProperties DEF ClearInElement, Clearing, StoreInv, TypeOK
    <2>2. cur \in Allocated(heap) /\ Head(segs).idx \in Nat
        BY <2>1, NextSegment, HeadIsSeg, EmptySeq
    <2>3. Len(segs) # 1
        <3>1. \A n \in Nat : n > 1 => n # 1
            OBVIOUS
        <3> QED BY <2>1, <3>1
    <2>4. /\ fs.type = "message" /\ f \in heap[cur].set
          /\ ~(Head(segs).idx >= sliceLen(heap[cur].vals[f]))
          /\ heap[cur].vals[f].elems[Head(segs).idx + 1] # Nil
        BY <2>1, <2>3, Zenon DEF clearPathErr
    <2>5. heap[cur].vals[f].elems[Head(segs).idx + 1] \in Children(heap, cur)
        BY <2>2, <2>4, ElementIsChild
    <2> QED BY <1>5, <2>1, <2>5, WalkOn DEF ClearInElement
<1>6. CASE ClearInMessage
    BY <1>6, MessageIsChild, WalkOn DEF ClearInMessage, Clearing, HoldsMessage
<1>7. CASE ClearInUnset \/ VerifyNext
    <2>1. /\ Running /\ pc' = "verifyClearPath"
          /\ UNCHANGED <<heap, held, call, pre>>
        BY <1>7 DEF ClearInUnset, Clearing, VerifyNext, Goto, Running
    <2>2. PathLeft' /\ StaysInTree' /\ OnlyTargetChanges'
        BY <2>1 DEF PathLeft, StaysInTree, OnlyTargetChanges
    <2>3. PreExists' /\ OthersKept'
        BY <2>1 DEF PreExists, OthersKept, Others, Running
    <2>4. SlotsKept'
        BY <2>1 DEF SlotsKept, SameSlot, CreatedOnTheWay, HoldsMessage
    <2> QED BY <2>2, <2>3, <2>4
<1> QED BY <1>1, <1>2, <1>3, <1>4, <1>5, <1>6, <1>7 DEF Walk

-----------------------------------------------------------------------------
(* Ending *)
LEMMA FailKeepsCall ==
    ASSUME CallInv, StoreInv', SetFail \/ SetSelfFail \/ AppendFail \/ ClearFail \/ VerifyEnd
    PROVE  CallInv'
BY SameHeapDone
DEF SetFail, SetSelfFail, AppendFail, ClearFail, VerifyEnd, Running, Walking, AtEnd, Clearing

\* Set and Clear with the empty path.
LEMMA SelfKeepsCall ==
    ASSUME CallInv, StoreInv', setSelf \/ ClearSelf
    PROVE  CallInv'
<1> USE DEF CallInv, Walking
<1>1. Walking /\ segs = <<>> /\ Finish
    BY DEF setSelf, ClearSelf
<1>2. cur \in Allocated(heap) /\ cur \in Ref /\ call.path = <<>> /\ DOMAIN heap = Ref
    BY <1>1 DEF StoreInv, WalkExists, PathLeft, Allocated, TypeOK, Heap
<1>3. OnlyTargetChanges'
    BY <1>1, <1>2 DEF OnlyTargetChanges, Finish
<1>4. (\A q \in Allocated(heap) : q # cur => heap'[q] = heap[q]) /\ heap'[cur].schema = heap[cur].schema
    <2>1. CASE clearAll
        BY <1>2, <2>1 DEF clearAll, newMessage, Allocated
    <2>2. CASE setSelf /\ call.arg # NilVal
        <3> DEFINE src == call.arg.ref
        <3> DEFINE D == {<<1, x>> : x \in Reach(heap, Children(heap, src))}
        <3> DEFINE k == WithCopies(heap, Placement(heap, D))
        <3>1. HasRoomFor(heap, D) /\ heap' = copyFrom(heap, cur, src, Placement(heap, D))
            BY <2>2 DEF setSelf
        <3>2. heap[src].schema = heap[cur].schema
            BY <2>2 DEF setSelf, setSelfErr, IsMessageOf
        <3>3. DOMAIN k = Ref /\ \A q \in Allocated(heap) : k[q] = heap[q]
            BY <3>1, CopiesChange
        <3>4. CASE cur = src
            BY <1>2, <3>1, <3>4 DEF copyFrom, newMessage, Allocated
        <3>5. CASE cur # src
            <4>1. heap' = [k EXCEPT ![cur] = deepCopy(heap, src, Placement(heap, D), 1)]
                BY <3>1, <3>5 DEF copyFrom
            <4> HIDE DEF k, D, src
            <4> QED BY <1>2, <3>2, <3>3, <4>1 DEF deepCopy
        <3> QED BY <3>4, <3>5
    <2> QED BY <2>1, <2>2 DEF setSelf, ClearSelf
<1> QED BY <1>1, <1>3, <1>4, MessageDone

\* A value is stored in the last field, with or without copies of messages.
LEMMA StoreChanges ==
    ASSUME StoreInv, cur \in Allocated(heap), last.field \in Field, NEW v,
           \/ heap' = Put(heap, cur, last.field, v)
           \/ \E D : /\ HasRoomFor(heap, D)
                    /\ heap' = Put(WithCopies(heap, Placement(heap, D)), cur, last.field, v)
    PROVE  /\ ChangesOnly(heap', cur, last.field)
           /\ heap'[cur].vals[last.field] = v /\ last.field \in heap'[cur].set
<1>1. CASE heap' = Put(heap, cur, last.field, v)
    <2>1. DOMAIN heap = Ref
        BY DEF StoreInv, TypeOK, Heap
    <2> QED BY <1>1, <2>1, PutChanges
<1>2. CASE \E D : /\ HasRoomFor(heap, D)
                  /\ heap' = Put(WithCopies(heap, Placement(heap, D)), cur, last.field, v)
    <2>1. PICK D : /\ HasRoomFor(heap, D)
                   /\ heap' = Put(WithCopies(heap, Placement(heap, D)), cur, last.field, v)
        BY <1>2
    <2> DEFINE h == WithCopies(heap, Placement(heap, D))
    <2>2. DOMAIN h = Ref /\ \A q \in Allocated(heap) : h[q] = heap[q]
        BY <2>1, CopiesChange
    <2> HIDE DEF h
    <2>3. heap' = Put(h, cur, last.field, v)
        BY <2>1 DEF h
    <2> QED BY <2>2, <2>3, PutChanges
<1> QED BY <1>1, <1>2

LEMMA LastSegment ==
    ASSUME CallInv, Walking, Len(segs) = 1
    PROVE  cur \in Allocated(heap) /\ last.field \in Field /\ last.idx \in Nat /\ Head(segs) = last
<1>1. segs \in Seq(Seg)
    BY DEF CallInv, StoreInv, TypeOK
<1>2. Head(segs) = last
    BY <1>1 DEF last
<1> QED BY <1>2, LastIsSeg DEF CallInv, StoreInv, WalkExists, Walking

LEMMA setFieldKeepsCall ==
    ASSUME CallInv, StoreInv', setField
    PROVE  CallInv'
<1> DEFINE a == call.arg
<1>1. Walking /\ Len(segs) = 1 /\ Finish /\ ~last.hasIdx /\ pc = "Set"
    BY DEF setField, Setting, AtEnd, Walking
<1>2. cur \in Allocated(heap) /\ last.field \in Field
    BY <1>1, LastSegment
<1>3. ChangesOnly(heap', cur, last.field)
    <2>1. CASE heap' = Unset(heap, cur, last.field)
        BY <1>2, <2>1, UnsetChanges DEF CallInv
    <2>2. CASE StoreCopies(Roots(a), MessagesVal)
        <3> DEFINE D == CopyPairs(heap, Roots(a))
        <3> DEFINE v == MessagesVal([i \in DOMAIN Roots(a) |->
                                     Clone(Placement(heap, D), i, Roots(a)[i])])
        <3>1. HasRoomFor(heap, D)
              /\ heap' = Put(WithCopies(heap, Placement(heap, D)), cur, last.field, v)
            BY <2>2 DEF StoreCopies
        <3> HIDE DEF v, D
        <3> QED BY <1>2, <3>1, StoreChanges DEF CallInv
    <2>3. CASE StoreCopies(<<a.ref>>, LAMBDA c : MessageVal(c[1]))
        <3> DEFINE D == CopyPairs(heap, <<a.ref>>)
        <3> DEFINE v == MessageVal(Clone(Placement(heap, D), 1, a.ref))
        <3>1. HasRoomFor(heap, D)
              /\ heap' = Put(WithCopies(heap, Placement(heap, D)), cur, last.field, v)
            BY <2>3 DEF StoreCopies
        <3> HIDE DEF v, D
        <3> QED BY <1>2, <3>1, StoreChanges DEF CallInv
    <2>4. ASSUME NEW v, heap' = Put(heap, cur, last.field, v)
          PROVE  ChangesOnly(heap', cur, last.field)
        BY <1>2, <2>4, StoreChanges DEF CallInv
    <2>5. CASE heap' = Put(heap, cur, last.field, ScalarsVal(
                           [i \in DOMAIN a.elems |-> convertScalar[a.elems[i].val]]))
        BY <2>4, <2>5
    <2>6. CASE heap' = Put(heap, cur, last.field, ScalarVal(convertScalar[a.val]))
        BY <2>4, <2>6
    <2> QED BY <2>1, <2>2, <2>3, <2>5, <2>6 DEF setField, Roots
<1>4. call.op = "Set"
    BY <1>1 DEF CallInv, PathLeft
<1> QED BY <1>1, <1>3, <1>4, TargetDone

\* An element of the list in the slot is replaced.
LEMMA ElementDone ==
    ASSUME CallInv, StoreInv', Walking, Len(segs) = 1, Finish, last.hasIdx,
           ChangesOnly(heap', cur, last.field),
           slot.kind \in {"messages", "scalars"}, NEW T, slot.elems \in Seq(T),
           last.idx + 1 \in DOMAIN slot.elems, NEW x,
           heap'[cur].vals[last.field]
               = [kind |-> slot.kind, elems |-> [slot.elems EXCEPT ![last.idx + 1] = x]]
    PROVE  CallInv'
<1> DEFINE w == heap'[cur].vals[last.field]
<1>1. ~HoldsMessage(cur, last.field)
    BY DEF HoldsMessage, slot
<1>2. last = call.path[Len(call.path)]
    BY TargetIsLast
<1> DEFINE s == [slot.elems EXCEPT ![last.idx + 1] = x]
<1>3. \A i \in DOMAIN slot.elems : i # last.idx + 1 => s[i] = slot.elems[i]
    OBVIOUS
<1>4. Len(s) = Len(slot.elems) /\ DOMAIN slot.elems = 1 .. Len(slot.elems)
    <2>1. slot.elems \in Seq(T \cup {x})
        BY SeqMonotonic
    <2>2. DOMAIN slot.elems = 1 .. Len(slot.elems)
        BY <2>1, LenProperties
    <2> QED BY <2>1, <2>2, ExceptSeq
<1>5. w.kind = slot.kind /\ w.elems = s /\ slot.kind # "nil"
    OBVIOUS
<1> HIDE DEF s, w
<1>6. RestOfListKept(slot, w)
    BY <1>2, <1>3, <1>4, <1>5 DEF RestOfListKept
<1> QED BY <1>1, <1>6, TargetDone DEF w

\* The element that the path names is in a list of scalars or of messages.
LEMMA NamedElement ==
    ASSUME AtLast, slotIsSet, lastSchema.repeated, lastSchema.type \in {"scalar", "message"},
           ~(last.idx >= sliceLen(slot))
    PROVE  /\ slot.kind = (IF lastSchema.type = "message" THEN "messages" ELSE "scalars")
           /\ slot.elems \in Seq(Ref \cup {Nil} \cup Scalar)
           /\ last.idx + 1 \in DOMAIN slot.elems
<1>1. CASE lastSchema.type = "message"
    <2>1. slot.kind = "messages" /\ last.idx + 1 \in DOMAIN slot.elems
        BY <1>1, ElementInSlot
    <2>2. slot.elems \in Seq(Ref \cup {Nil})
        BY <1>1, <2>1, ListInSlot
    <2> QED BY <1>1, <2>1, <2>2, SeqMonotonic
<1>2. CASE lastSchema.type = "scalar"
    <2>1. slot.kind = "scalars" /\ slot.elems \in Seq(Scalar)
        BY <1>2, SlotScalars DEF AtLast, slot, slotIsSet, lastSchema
    <2>2. last.idx \in Nat /\ sliceLen(slot) = Len(slot.elems)
        BY <2>1 DEF AtLast, sliceLen
    <2>3. Len(slot.elems) \in Nat /\ DOMAIN slot.elems = 1 .. Len(slot.elems)
        BY <2>1, LenProperties
    <2>4. last.idx + 1 \in DOMAIN slot.elems
        BY <2>2, <2>3
    <2> QED BY <1>2, <2>1, <2>4, SeqMonotonic
<1> QED BY <1>1, <1>2

LEMMA setElementKeepsCall ==
    ASSUME CallInv, StoreInv', setElement
    PROVE  CallInv'
<1> DEFINE a == call.arg
<1> DEFINE i == last.idx + 1
<1> DEFINE fs == lastSchema
<1>1. Walking /\ Len(segs) = 1 /\ Finish /\ last.hasIdx /\ AtLast /\ setErr = "nil"
    BY EndIsAtLast DEF setElement, Setting, AtEnd, Walking, CallInv
<1>2. fs.type # "none" /\ setElementErr(fs, a) = "nil"
    BY <1>1 DEF setErr
<1>3. fs.repeated /\ slotIsSet /\ ~(last.idx >= sliceLen(slot))
    BY <1>2 DEF setElementErr
<1>4. fs.type \in {"scalar", "message"}
    <2>1. heap[cur].schema \in Type
        BY <1>1, ObjectType DEF AtLast, StoreInv, TypeOK, Allocated
    <2> QED BY <1>1, <1>2, <2>1, HeapAssumption DEF lastSchema, lookupName, FieldSchema, NoField, AtLast
<1>5. /\ slot.kind = (IF fs.type = "message" THEN "messages" ELSE "scalars")
      /\ slot.elems \in Seq(Ref \cup {Nil} \cup Scalar)
      /\ i \in DOMAIN slot.elems
    BY <1>1, <1>3, <1>4, NamedElement
<1>6. cur \in Allocated(heap) /\ last.field \in Field /\ StoreInv
    BY <1>1 DEF AtLast
<1>7. CASE /\ a = NilVal
           /\ heap' = Put(heap, cur, last.field, MessagesVal([slot.elems EXCEPT ![i] = Nil]))
    <2>1. fs.type = "message"
        BY <1>2, <1>3, <1>4, <1>7 DEF setElementErr, convertElement, IsScalar, NilVal
    <2> DEFINE v == MessagesVal([slot.elems EXCEPT ![i] = Nil])
    <2>2. v = [kind |-> slot.kind, elems |-> [slot.elems EXCEPT ![i] = Nil]]
        BY <1>5, <2>1 DEF MessagesVal
    <2> HIDE DEF v
    <2>3. ChangesOnly(heap', cur, last.field) /\ heap'[cur].vals[last.field] = v
        BY <1>6, <1>7, StoreChanges DEF v
    <2> QED BY <1>1, <1>5, <2>2, <2>3, ElementDone
<1>8. CASE /\ a # NilVal /\ fs.type = "message"
           /\ StoreCopies(<<a.ref>>, LAMBDA c : MessagesVal([slot.elems EXCEPT ![i] = c[1]]))
    <2> DEFINE D == CopyPairs(heap, <<a.ref>>)
    <2> DEFINE x == Clone(Placement(heap, D), 1, a.ref)
    <2> DEFINE v == MessagesVal([slot.elems EXCEPT ![i] = x])
    <2>1. HasRoomFor(heap, D)
          /\ heap' = Put(WithCopies(heap, Placement(heap, D)), cur, last.field, v)
        BY <1>8 DEF StoreCopies
    <2> HIDE DEF D, x
    <2>2. v = [kind |-> slot.kind, elems |-> [slot.elems EXCEPT ![i] = x]]
        BY <1>5, <1>8 DEF MessagesVal
    <2> HIDE DEF v
    <2>3. ChangesOnly(heap', cur, last.field) /\ heap'[cur].vals[last.field] = v
        BY <1>6, <2>1, StoreChanges
    <2> QED BY <1>1, <1>5, <2>2, <2>3, ElementDone
<1>9. CASE /\ a # NilVal /\ fs.type = "scalar"
           /\ heap' = Put(heap, cur, last.field, ScalarsVal(
                          [slot.elems EXCEPT ![i] = convertScalar[a.val]]))
    <2> DEFINE x == convertScalar[a.val]
    <2> DEFINE v == ScalarsVal([slot.elems EXCEPT ![i] = x])
    <2>1. heap' = Put(heap, cur, last.field, v)
        BY <1>9
    <2> HIDE DEF x
    <2>2. v = [kind |-> slot.kind, elems |-> [slot.elems EXCEPT ![i] = x]]
        BY <1>5, <1>9 DEF ScalarsVal
    <2> HIDE DEF v
    <2>3. ChangesOnly(heap', cur, last.field) /\ heap'[cur].vals[last.field] = v
        BY <1>6, <2>1, StoreChanges
    <2> QED BY <1>1, <1>5, <2>2, <2>3, ElementDone
<1> QED BY <1>7, <1>8, <1>9 DEF setElement

\* An element is appended to the list in the slot, or to none.
LEMMA AppendDone ==
    ASSUME CallInv, StoreInv', Walking, pc = "Append", Len(segs) = 1, Finish,
           ChangesOnly(heap', cur, last.field),
           NEW old, slotIsSet => slot.kind \in {"messages", "scalars"} /\ old = slot.elems,
           NEW T, old \in Seq(T), NEW x,
           heap'[cur].vals[last.field].elems = Append(old, x)
    PROVE  CallInv'
<1> DEFINE w == heap'[cur].vals[last.field]
<1>1. ~HoldsMessage(cur, last.field)
    BY DEF HoldsMessage, slot, slotIsSet
<1>2. last = call.path[Len(call.path)] /\ ~last.hasIdx
    <2>1. call.op = "Append" /\ NamesField(call.path)
        BY DEF CallInv, PathLeft
    <2> QED BY <2>1, TargetIsLast DEF NamesField
<1>3. ~slotIsSet => slot = NilVal
    BY LastSegment DEF slot, slotIsSet, CallInv, StoreInv, Sound
<1>4. \A i \in 1 .. Len(old) : Append(old, x)[i] = old[i]
    <2>1. old \in Seq(T \cup {x})
        BY SeqMonotonic
    <2>2. Len(old) \in Nat
        BY LenProperties
    <2> QED BY <2>1, <2>2, AppendProperties
<1> HIDE DEF w
<1>5. CASE slotIsSet
    <2>1. RestOfListKept(slot, w)
        BY <1>2, <1>4, <1>5 DEF RestOfListKept, w
    <2> QED BY <1>1, <2>1, TargetDone DEF w
<1>6. CASE ~slotIsSet
    <2>1. RestOfListKept(slot, w)
        <3>1. slot = NilVal
            BY <1>3, <1>6
        <3>2. slot.kind = "nil"
            BY <3>1 DEF NilVal
        <3>3. ~call.path[Len(call.path)].hasIdx
            BY <1>2, Zenon
        <3> QED BY <3>2, <3>3 DEF RestOfListKept
    <2> QED BY <1>1, <2>1, TargetDone DEF w
<1> QED BY <1>5, <1>6

LEMMA appendFieldKeepsCall ==
    ASSUME CallInv, StoreInv', appendField
    PROVE  CallInv'
<1> DEFINE a == call.arg
<1> DEFINE fs == lastSchema
<1> DEFINE old == IF slotIsSet THEN slot.elems ELSE <<>>
<1>1. Walking /\ pc = "Append" /\ Len(segs) = 1 /\ Finish /\ AtLast /\ appendErr = "nil"
    BY EndIsAtLast DEF appendField, AtEnd, Walking, CallInv
<1>2. fs.repeated
    BY <1>1 DEF appendErr
<1>3. cur \in Allocated(heap) /\ last.field \in Field /\ StoreInv
    BY <1>1 DEF AtLast
<1>4. ASSUME fs.type \in {"message", "scalar"}, slotIsSet
      PROVE  /\ slot.kind \in {"messages", "scalars"}
             /\ slot.elems \in Seq(Ref \cup {Nil} \cup Scalar)
    <2>1. CASE fs.type = "message"
        <3>1. slot.kind = "messages"
            BY <1>1, <1>2, <1>4, <2>1 DEF appendErr
        <3>2. slot.elems \in Seq(Ref \cup {Nil})
            BY <1>1, <1>4, <2>1, <3>1, ListInSlot
        <3> QED BY <3>1, <3>2, SeqMonotonic
    <2>2. CASE fs.type = "scalar"
        <3>1. slot.kind = "scalars" /\ slot.elems \in Seq(Scalar)
            BY <1>1, <1>2, <1>4, <2>2, SlotScalars DEF AtLast, slot, slotIsSet, lastSchema
        <3> QED BY <3>1, SeqMonotonic
    <2> QED BY <1>4, <2>1, <2>2
<1>5. ASSUME fs.type \in {"message", "scalar"}
      PROVE  old \in Seq(Ref \cup {Nil} \cup Scalar)
    BY <1>4, <1>5, EmptySeq
<1>6. CASE /\ fs.type = "message"
           /\ StoreCopies(<<a.ref>>, LAMBDA c : MessagesVal(Append(old, c[1])))
    <2> DEFINE D == CopyPairs(heap, <<a.ref>>)
    <2> DEFINE x == Clone(Placement(heap, D), 1, a.ref)
    <2> DEFINE v == MessagesVal(Append(old, x))
    <2>1. HasRoomFor(heap, D)
          /\ heap' = Put(WithCopies(heap, Placement(heap, D)), cur, last.field, v)
        BY <1>6 DEF StoreCopies
    <2> HIDE DEF D, x
    <2>2. v.elems = Append(old, x)
        BY DEF MessagesVal
    <2> HIDE DEF v
    <2>3. ChangesOnly(heap', cur, last.field) /\ heap'[cur].vals[last.field] = v
        BY <1>3, <2>1, StoreChanges
    <2>4. slotIsSet => slot.kind \in {"messages", "scalars"} /\ old = slot.elems
        BY <1>4, <1>6
    <2>5. old \in Seq(Ref \cup {Nil} \cup Scalar)
        BY <1>5, <1>6
    <2> HIDE DEF old
    <2> QED BY <1>1, <2>2, <2>3, <2>4, <2>5, AppendDone
<1>7. CASE /\ fs.type = "scalar"
           /\ heap' = Put(heap, cur, last.field,
                          ScalarsVal(Append(old, convertScalar[a.val])))
    <2> DEFINE x == convertScalar[a.val]
    <2> DEFINE v == ScalarsVal(Append(old, x))
    <2>1. heap' = Put(heap, cur, last.field, v)
        BY <1>7
    <2> HIDE DEF x
    <2>2. v.elems = Append(old, x)
        BY DEF ScalarsVal
    <2> HIDE DEF v
    <2>3. ChangesOnly(heap', cur, last.field) /\ heap'[cur].vals[last.field] = v
        BY <1>3, <2>1, StoreChanges
    <2>4. slotIsSet => slot.kind \in {"messages", "scalars"} /\ old = slot.elems
        BY <1>4, <1>7
    <2>5. old \in Seq(Ref \cup {Nil} \cup Scalar)
        BY <1>5, <1>7
    <2> HIDE DEF old
    <2> QED BY <1>1, <2>2, <2>3, <2>4, <2>5, AppendDone
<1> QED BY <1>6, <1>7 DEF appendField

LEMMA ClearEndKeepsCall ==
    ASSUME CallInv, StoreInv', clearField \/ clearElement
    PROVE  CallInv'
<1>1. Walking /\ pc = "Clear" /\ Len(segs) = 1 /\ Finish /\ clearPathErr = "nil" /\ AtLast
    BY EndIsAtLast DEF clearField, clearElement, Clearing, Walking, CallInv
<1>2. cur \in Allocated(heap) /\ last.field \in Field /\ StoreInv
    BY <1>1 DEF AtLast
<1>3. CASE clearField
    <2>1. ChangesOnly(heap', cur, last.field) /\ ~last.hasIdx
        BY <1>2, <1>3, UnsetChanges DEF clearField
    <2>2. call.op = "Clear"
        BY <1>1 DEF CallInv, PathLeft
    <2> QED BY <1>1, <2>1, <2>2, TargetDone
<1>4. CASE clearElement
    <2>1. Head(segs) = last /\ last.hasIdx
        BY <1>1, <1>4, LastSegment DEF clearElement
    <2>2. /\ lastSchema.type = "message" /\ lastSchema.repeated /\ slotIsSet
          /\ ~(last.idx >= sliceLen(slot))
        BY <1>1, <2>1 DEF clearPathErr, lastSchema, slot, slotIsSet
    <2>3. /\ slot.kind = "messages" /\ slot.elems \in Seq(Ref \cup {Nil} \cup Scalar)
          /\ last.idx + 1 \in DOMAIN slot.elems
        BY <1>1, <2>2, NamedElement
    <2> DEFINE v == MessagesVal([slot.elems EXCEPT ![last.idx + 1] = Nil])
    <2>4. v = [kind |-> slot.kind, elems |-> [slot.elems EXCEPT ![last.idx + 1] = Nil]]
        BY <2>3 DEF MessagesVal
    <2>5. heap' = Put(heap, cur, last.field, v)
        BY <1>4 DEF clearElement
    <2> HIDE DEF v
    <2>6. ChangesOnly(heap', cur, last.field) /\ heap'[cur].vals[last.field] = v
        BY <1>2, <2>5, StoreChanges
    <2> QED BY <1>1, <2>1, <2>3, <2>4, <2>6, ElementDone
<1> QED BY <1>3, <1>4

-----------------------------------------------------------------------------
(* Starting *)
LEMMA StartKeepsCall ==
    ASSUME CallInv, StoreInv', NEW op \in {"Set", "Append", "Clear"}, NEW v \in Var,
           NEW p \in Path, NEW a \in Arg, Start(op, v, p, a),
           (pc' = op /\ (op = "Append" => NamesField(p))) \/ pc' = "done"
    PROVE  CallInv'
<1>1. held[v] \in Allocated(heap) /\ heap \in Heap
    BY DEF Start, CallInv, StoreInv, TypeOK, HeldExist
<1>2. /\ call' = [op |-> op, recv |-> held[v], path |-> p, arg |-> a] /\ pre' = heap
      /\ heap' = heap /\ held' = held /\ segs' = p /\ cur' = held[v]
    BY DEF Start
<1>3. Sound(heap) /\ Owned(heap) /\ \A w \in Var : held[w] # Nil => held[w] \in Allocated(heap)
    BY DEF CallInv, StoreInv, HeldExist
<1>4. p \in Seq(Seg) /\ Len(p) \in Nat
    BY MessageAssumption, LenProperties
<1>5. PathLeft'
    <2>1. \A n \in Nat : n =< n /\ \A i \in 1 .. n : n - n + i = i
        OBVIOUS
    <2> QED BY <1>2, <1>4, <2>1 DEF PathLeft, Walking
<1>6. PreExists'
    <2>1. call' \in Call
        BY <1>1, <1>2 DEF Call, Allocated
    <2> QED BY <1>1, <1>2, <1>3, <2>1 DEF PreExists
<1>7. SlotsKept' /\ OthersKept' /\ OnlyTargetChanges'
    BY <1>2 DEF SlotsKept, SameSlot, OthersKept, Others, OnlyTargetChanges
<1>8. StaysInTree'
    <2> DEFINE T == Reach(heap, {held[v]})
    <2>1. held[v] \in T /\ \A r \in T : Children(heap, r) \subseteq T
        BY <1>1, <1>3, ReachCloses
    <2>2. Others' = Allocated(heap) \ T
        BY <1>2 DEF Others
    <2> HIDE DEF T
    <2>3. \A r \in Allocated(heap) \ Others' : Children(heap, r) \cap Others' = {}
        BY <2>1, <2>2
    <2> QED BY <1>2, <2>1, <2>2, <2>3 DEF StaysInTree
<1> QED BY <1>5, <1>6, <1>7, <1>8 DEF CallInv

\* Between two calls there is nothing to say.
LEMMA IdleKeepsCall ==
    ASSUME StoreInv', pc' = "idle"
    PROVE  CallInv'
BY DEF CallInv, PathLeft, PreExists, SlotsKept, StaysInTree, OthersKept, OnlyTargetChanges,
       Walking, Running

LEMMA BeginKeepsCall ==
    ASSUME CallInv, StoreInv', Begin
    PROVE  CallInv'
<1>1. PICK v \in Var :
        \/ \E t \in Top : New(v, t)
        \/ \E w \in Var, p \in Path : Len(p) = 1 /\ GetMessage(v, w, p[1])
        \/ \E p \in Path, a \in Passed(ElemArgs \cup SliceArgs) : BeginSet(v, p, a)
        \/ \E p \in Path, a \in Passed(ElemArgs) : BeginAppend(v, p, a)
        \/ \E p \in Path : BeginClear(v, p)
    BY DEF Begin
<1>2. pc = "idle" /\ StoreInv
    BY DEF Begin, Ready, CallInv
<1>3. CASE \E t \in Top : New(v, t)
    BY <1>2, <1>3, IdleKeepsCall DEF New, Hold
<1>4. CASE \E w \in Var, p \in Path : Len(p) = 1 /\ GetMessage(v, w, p[1])
    BY <1>2, <1>4, IdleKeepsCall DEF GetMessage, Hold
<1>5. CASE \E p \in Path, a \in Passed(ElemArgs \cup SliceArgs) : BeginSet(v, p, a)
    BY <1>2, <1>5, ArgsExist, StartKeepsCall DEF BeginSet, Goto
<1>6. CASE \E p \in Path, a \in Passed(ElemArgs) : BeginAppend(v, p, a)
    <2>1. PICK p \in Path, a \in Passed(ElemArgs) : BeginAppend(v, p, a)
        BY <1>6
    <2>2. a \in Passed(ElemArgs \cup SliceArgs)
        BY DEF Passed
    <2>3. a \in Arg
        BY <1>2, <2>2, ArgsExist
    <2> QED BY <2>1, <2>3, StartKeepsCall DEF BeginAppend, Goto, Done
<1>7. CASE \E p \in Path : BeginClear(v, p)
    <2>1. NilVal \in Arg
        BY DEF Arg, Elem
    <2> QED BY <1>7, <2>1, StartKeepsCall DEF BeginClear, Goto
<1> QED BY <1>1, <1>3, <1>4, <1>5, <1>6, <1>7

-----------------------------------------------------------------------------
LEMMA InitCallInv == Init => CallInv
BY InitStoreInv
DEF Init, CallInv, PathLeft, PreExists, SlotsKept, StaysInTree, OthersKept, OnlyTargetChanges,
    Walking, Running

LEMMA StepCallInv == CallInv /\ [Next]_vars => CallInv'
<1> SUFFICES ASSUME CallInv, [Next]_vars PROVE CallInv'
    OBVIOUS
<1>1. StoreInv'
    BY StepStoreInv DEF CallInv
<1>2. CASE Begin
    BY <1>1, <1>2, BeginKeepsCall
<1>3. CASE Walk
    BY <1>1, <1>3, WalkKeepsCall
<1>4. CASE End
    BY <1>1, <1>4, FailKeepsCall, SelfKeepsCall, setFieldKeepsCall, setElementKeepsCall,
       appendFieldKeepsCall, ClearEndKeepsCall
    DEF End
<1>5. CASE Return \/ Collect
    BY <1>1, <1>5, IdleKeepsCall DEF Return, Collect, Goto
<1>6. CASE UNCHANGED vars
    <2>1. UNCHANGED <<heap, held, pc, call, segs, cur, err, pre>>
        BY <1>6 DEF vars
    <2>2. PathLeft' /\ StaysInTree'
        BY <2>1 DEF CallInv, PathLeft, StaysInTree, Others, Walking
    <2>3. PreExists' /\ OthersKept'
        BY <2>1 DEF CallInv, PreExists, OthersKept, Others
    <2>4. SlotsKept'
        BY <2>1
        DEF CallInv, SlotsKept, SameSlot, CreatedOnTheWay, HoldsMessage, Walking, Running
    <2>5. OnlyTargetChanges'
        BY <2>1 DEF CallInv, OnlyTargetChanges, CreatedOnTheWay, HoldsMessage, RestOfListKept
    <2> QED BY <1>1, <2>2, <2>3, <2>4, <2>5 DEF CallInv
<1> QED BY <1>2, <1>3, <1>4, <1>5, <1>6 DEF Next

(* While a call is on its way, what it has changed so far lies on its path, in the tree
   of its receiver or in messages it made. *)
THEOREM CallInvariance == Spec => []CallInv
BY InitCallInv, StepCallInv, PTL DEF Spec

(* A call of Set, Append or Clear that ends, with or without an error, has changed the
   slot its path names and the slots the walk had to fill with a message, and nothing
   else; of a list that it sets or appends an element of, the rest is what it was. *)
THEOREM TargetOnly == Spec => []OnlyTargetChanges
<1>1. CallInv => OnlyTargetChanges
    BY DEF CallInv
<1> QED BY <1>1, CallInvariance, PTL

(* A call leaves alone every message the program holds that is neither part of the
   receiver's tree nor a message the receiver is part of: what deep copies are for. *)
THEOREM TreesIsolated == Spec => []Isolation
<1>1. CallInv => Isolation
    <2> SUFFICES ASSUME CallInv, pc = "done", NEW v \in Var, held[v] # Nil,
                        held[v] \notin Reach(pre, {call.recv}), call.recv \notin Reach(pre, {held[v]}),
                        NEW r \in Reach(pre, {held[v]})
                 PROVE  heap[r] = pre[r]
        BY DEF Isolation
    <2>1. /\ pre \in Heap /\ Sound(pre) /\ Owned(pre)
          /\ held[v] \in Allocated(pre) /\ call.recv \in Allocated(pre)
        BY DEF CallInv, StoreInv, TypeOK, PreExists
    <2>2. r \notin Reach(pre, {call.recv})
        BY <2>1, TreesApart
    <2>3. r \in Allocated(pre)
        BY <2>1, ReachCloses
    <2> QED BY <2>2, <2>3 DEF CallInv, OthersKept, Others
<1> QED BY <1>1, CallInvariance, PTL

-----------------------------------------------------------------------------
(* The loop of getValue *)
LEMMA WalkedIs ==
    ASSUME NEW h, NEW m, NEW p \in Seq(Seg), p # <<>>
    PROVE  LET w == walked(h, m, p)
           IN  /\ w[0] = Place(m, h[m].schema)
               /\ \A i \in 1 .. Len(p) - 1 : w[i] = goOn(h, w[i - 1], p[i])
<1> DEFINE P(f, n) == f = [i \in 0 .. n |-> IF i = 0 THEN Place(m, h[m].schema)
                                            ELSE goOn(h, f[i - 1], p[i])]
<1> DEFINE S == {n \in Nat : \E f : P(f, n)}
<1>1. 0 \in S
    <2>1. P([i \in 0 .. 0 |-> Place(m, h[m].schema)], 0)
        OBVIOUS
    <2> QED BY <2>1
<1>2. ASSUME NEW n \in Nat, n \in S
      PROVE  n + 1 \in S
    <2>1. PICK f : P(f, n)
        BY <1>2
    <2> DEFINE g == [i \in 0 .. n + 1 |-> IF i = n + 1 THEN goOn(h, f[n], p[n + 1]) ELSE f[i]]
    <2>2. ASSUME NEW i \in 0 .. n + 1
          PROVE  g[i] = IF i = 0 THEN Place(m, h[m].schema) ELSE goOn(h, g[i - 1], p[i])
        <3>1. CASE i = n + 1
            BY <3>1
        <3>2. CASE i # n + 1
            <4>1. i \in 0 .. n /\ (i # 0 => i - 1 \in 0 .. n)
                BY <3>2
            <4> HIDE DEF P
            <4>2. f[i] = IF i = 0 THEN Place(m, h[m].schema) ELSE goOn(h, f[i - 1], p[i])
                BY <2>1, <4>1 DEF P
            <4> QED BY <3>2, <4>1, <4>2
        <3> QED BY <3>1, <3>2
    <2>3. P(g, n + 1)
        BY <2>2
    <2> HIDE DEF P, g
    <2> QED BY <2>3
<1> HIDE DEF P, S
<1> DEFINE N == Len(p) - 1
<1>3. N \in Nat
    BY LenProperties, EmptySeq
<1>4. \E f : P(f, N)
    BY <1>1, <1>2, <1>3, NatSetInduction DEF S
<1>5. walked(h, m, p) = CHOOSE f : P(f, N)
    BY DEF P, walked
<1>6. P(walked(h, m, p), N)
    BY <1>4, <1>5, Zenon
<1> DEFINE w == walked(h, m, p)
<1> HIDE DEF w, N
<1>7. \A i \in 0 .. N : w[i] = IF i = 0 THEN Place(m, h[m].schema) ELSE goOn(h, w[i - 1], p[i])
    BY <1>6, Zenon DEF P, w
<1>8. w[0] = Place(m, h[m].schema) /\ \A i \in 1 .. N : w[i] = goOn(h, w[i - 1], p[i])
    BY <1>3, <1>7
<1> QED BY <1>8 DEF w, N

LEMMA WalkedNext ==
    ASSUME NEW h, NEW m, NEW p \in Seq(Seg), p # <<>>, NEW i \in 1 .. Len(p) - 1
    PROVE  walked(h, m, p)[i] = goOn(h, walked(h, m, p)[i - 1], p[i])
<1> DEFINE w == walked(h, m, p)
<1>1. \A l \in 1 .. Len(p) - 1 : w[l] = goOn(h, w[l - 1], p[l])
    BY WalkedIs
<1> QED BY <1>1

\* Once the loop has returned there are no further iterations.
LEMMA WalkEnds ==
    ASSUME NEW h, NEW m, NEW p \in Seq(Seg), p # <<>>, NEW k \in 0 .. Len(p) - 1,
           walked(h, m, p)[k].err # "nil"
    PROVE  \A i \in k .. Len(p) - 1 : walked(h, m, p)[i] = walked(h, m, p)[k]
<1> DEFINE w == walked(h, m, p)
<1> DEFINE S == {n \in Nat : k + n =< Len(p) - 1 => w[k + n] = w[k]}
<1>1. Len(p) \in Nat /\ k \in Nat
    BY LenProperties
<1> HIDE DEF w
<1>2. 0 \in S
    BY <1>1
<1>3. ASSUME NEW n \in Nat, n \in S
      PROVE  n + 1 \in S
    <2> SUFFICES ASSUME k + (n + 1) =< Len(p) - 1
                 PROVE  w[k + (n + 1)] = w[k]
        OBVIOUS
    <2>1. w[k + n] = w[k]
        BY <1>1, <1>3
    <2>2. k + (n + 1) \in 1 .. Len(p) - 1 /\ k + (n + 1) - 1 = k + n
        BY <1>1
    <2>3. w[k + (n + 1)] = goOn(h, w[k + n], p[k + (n + 1)])
        BY <2>2, WalkedIs DEF w
    <2> QED BY <2>1, <2>3 DEF goOn, w
<1> HIDE DEF S
<1>4. Nat \subseteq S
    BY <1>2, <1>3, NatSetInduction
<1>5. ASSUME NEW i \in k .. Len(p) - 1
      PROVE  w[i] = w[k]
    <2>1. i - k \in Nat /\ k + (i - k) = i /\ i =< Len(p) - 1
        BY <1>1
    <2> QED BY <1>4, <2>1 DEF S
<1> QED BY <1>5 DEF w

\* The loop has gone through i segments of the path, over no nil element.
IsAt(h, m, p, i) ==
    /\ walked(h, m, p)[i].err = "nil"
    /\ \A j \in 1 .. i : p[j].hasIdx => walked(h, m, p)[j].msg # Nil

\* The next iteration returns the error that it finds on the way, and so does Get.
LEMMA ReadFails ==
    ASSUME NEW h, NEW m, NEW p \in Seq(Seg), NEW i \in 0 .. Len(p) - 2, IsAt(h, m, p, i),
           wayErr(h, walked(h, m, p)[i], p[i + 1]) # "nil"
    PROVE  /\ ~CrossesNil(h, m, p)
           /\ Get(h, m, p) = Failed(wayErr(h, walked(h, m, p)[i], p[i + 1]))
<1> DEFINE w == walked(h, m, p)
<1> DEFINE e == wayErr(h, w[i], p[i + 1])
<1>1. Len(p) \in Nat /\ i \in Nat /\ i + 1 \in 1 .. Len(p) - 1 /\ (i + 1) - 1 = i
      /\ i + 1 \in 0 .. Len(p) - 1 /\ p # <<>>
    BY LenProperties, EmptySeq
<1>2. w[i + 1] = goOn(h, w[i], p[i + 1])
    BY <1>1, WalkedIs
<1> HIDE DEF w
<1>3. w[i + 1] = Stopped(e) /\ e # "nil"
    BY <1>2 DEF IsAt, goOn, w
<1>4. w[i + 1].err = e
    BY <1>3 DEF Stopped
<1> HIDE DEF e
<1>5. \A j \in i + 1 .. Len(p) - 1 : w[j].err = e
    BY <1>1, <1>3, <1>4, WalkEnds DEF w
<1>6. ~CrossesNil(h, m, p)
    <2> SUFFICES ASSUME NEW j \in 1 .. Len(p) - 1, p[j].hasIdx, w[j].err = "nil", w[j].msg = Nil
                 PROVE  FALSE
        BY DEF CrossesNil, w
    <2>1. CASE j =< i
        BY <2>1 DEF IsAt, w
    <2>2. CASE j > i
        <3>1. j \in i + 1 .. Len(p) - 1
            BY <1>1, <2>2
        <3> QED BY <1>3, <1>5, <3>1
    <2> QED BY <1>1, <2>1, <2>2
<1>7. Get(h, m, p) = Failed(e)
    <2>1. Len(p) - 1 \in i + 1 .. Len(p) - 1
        BY <1>1
    <2> QED BY <1>1, <1>3, <1>5, <2>1 DEF Get, getValue, w
<1> QED BY <1>6, <1>7 DEF e, w

\* Get gives what the last iteration does.
LEMMA ReadEnds ==
    ASSUME NEW h, NEW m, NEW p \in Seq(Seg), p # <<>>, IsAt(h, m, p, Len(p) - 1)
    PROVE  /\ ~CrossesNil(h, m, p)
           /\ Get(h, m, p) = endValue(h, walked(h, m, p)[Len(p) - 1], p[Len(p)])
BY DEF IsAt, CrossesNil, Get, getValue

\* The next iteration goes on, to a nil element.
LEMMA ReadCrosses ==
    ASSUME NEW h, NEW m, NEW p \in Seq(Seg), NEW i \in 0 .. Len(p) - 2, IsAt(h, m, p, i),
           wayErr(h, walked(h, m, p)[i], p[i + 1]) = "nil", p[i + 1].hasIdx,
           nextMessage(h, walked(h, m, p)[i], p[i + 1]) = Nil
    PROVE  CrossesNil(h, m, p)
<1> DEFINE w == walked(h, m, p)
<1>1. Len(p) \in Nat /\ i \in Nat /\ i + 1 \in 1 .. Len(p) - 1 /\ (i + 1) - 1 = i /\ p # <<>>
    BY LenProperties, EmptySeq
<1>2. w[i + 1] = goOn(h, w[i], p[i + 1])
    BY <1>1, WalkedIs
<1> HIDE DEF w
<1>3. w[i + 1].err = "nil" /\ w[i + 1].msg = Nil
    BY <1>2 DEF IsAt, goOn, Place, w
<1> QED BY <1>1, <1>3 DEF CrossesNil, w

\* It goes on to a message or below an unset field.
LEMMA ReadGoesOn ==
    ASSUME NEW h, NEW m, NEW p \in Seq(Seg), NEW i \in 0 .. Len(p) - 2, IsAt(h, m, p, i),
           wayErr(h, walked(h, m, p)[i], p[i + 1]) = "nil",
           p[i + 1].hasIdx => nextMessage(h, walked(h, m, p)[i], p[i + 1]) # Nil
    PROVE  /\ IsAt(h, m, p, i + 1)
           /\ walked(h, m, p)[i + 1] = Place(nextMessage(h, walked(h, m, p)[i], p[i + 1]),
                                   lookupName(walked(h, m, p)[i].schema, p[i + 1].field).schema)
<1> DEFINE w == walked(h, m, p)
<1>1. Len(p) \in Nat /\ i \in Nat /\ i + 1 \in 1 .. Len(p) - 1 /\ (i + 1) - 1 = i /\ p # <<>>
    BY LenProperties, EmptySeq
<1>2. w[i + 1] = goOn(h, w[i], p[i + 1])
    BY <1>1, WalkedIs
<1> HIDE DEF w
<1>3. w[i + 1] = Place(nextMessage(h, w[i], p[i + 1]), lookupName(w[i].schema, p[i + 1].field).schema)
    BY <1>2 DEF IsAt, goOn, w
<1>4. \A j \in 1 .. i + 1 : j = i + 1 \/ j \in 1 .. i
    BY <1>1
<1>5. IsAt(h, m, p, i + 1)
    BY <1>3, <1>4 DEF IsAt, Place, w
<1> QED BY <1>3, <1>5 DEF w

-----------------------------------------------------------------------------
(* How far Get would be when a call is where it is. *)
passed == Len(call.path) - Len(segs)
place == walked(pre, call.recv, call.path)[passed]

\* A call that walks is where Get would be, in the heap it found; a message that it made
\* stands for the unset field that Get is below.
WalkIsRead == Running /\ call.path # <<>> =>
    /\ segs # <<>> /\ Len(segs) =< Len(call.path)
    /\ \A k \in 1 .. Len(segs) : segs[k] = call.path[passed + k]
    /\ IsAt(pre, call.recv, call.path, passed)
    /\ place.schema = IF Walking THEN heap[cur].schema ELSE vschema
    /\ IF place.msg = Nil THEN Walking => heap[cur].set = {}
       ELSE Walking /\ cur = place.msg /\ heap = pre
    /\ pc = "verifyClearPath" => call.op = "Clear"

ReadInv == CallInv /\ WalkIsRead /\ WalksAgree /\ PanicsExplained

LEMMA PlaceIs ==
    ASSUME ReadInv, Running, call.path # <<>>
    PROVE  /\ call.path \in Seq(Seg) /\ segs \in Seq(Seg)
           /\ Len(segs) \in Nat /\ Len(segs) >= 1 /\ Len(call.path) \in Nat
           /\ Len(segs) > 1 \/ Len(segs) = 1
           /\ passed \in 0 .. Len(call.path) - 1
           /\ Head(segs) = call.path[passed + 1] /\ Head(segs) \in Seg
           /\ Len(segs) > 1 => passed \in 0 .. Len(call.path) - 2
           /\ Len(segs) = 1 => passed = Len(call.path) - 1 /\ Head(segs) = last
           /\ IsAt(pre, call.recv, call.path, passed)
<1>1. call.path \in Seq(Seg) /\ segs \in Seq(Seg) /\ segs # <<>>
    BY MessageAssumption
    DEF ReadInv, CallInv, StoreInv, TypeOK, PreExists, Running, Walking, Call, WalkIsRead
<1>2. Len(segs) \in Nat /\ Len(segs) >= 1 /\ Len(call.path) \in Nat
    BY <1>1, LenProperties, EmptySeq
<1>3. Len(segs) =< Len(call.path) /\ segs[1] = call.path[passed + 1]
      /\ IsAt(pre, call.recv, call.path, passed)
    BY <1>2 DEF ReadInv, WalkIsRead
<1>4. Head(segs) = segs[1] /\ Head(segs) \in Seg
    BY <1>1, HeadTailProperties
<1>5. passed \in 0 .. Len(call.path) - 1
      /\ (Len(segs) > 1 => passed \in 0 .. Len(call.path) - 2)
      /\ (Len(segs) = 1 => passed = Len(call.path) - 1)
    <2>1. \A n, m \in Nat : n >= 1 /\ n =< m =>
              m - n \in 0 .. m - 1 /\ (n > 1 => m - n \in 0 .. m - 2)
        OBVIOUS
    <2> QED BY <1>2, <1>3, <2>1 DEF passed
<1>6. Len(segs) > 1 \/ Len(segs) = 1
    <2>1. \A n \in Nat : n >= 1 => n > 1 \/ n = 1
        OBVIOUS
    <2> QED BY <1>2, <2>1
<1> QED BY <1>1, <1>2, <1>3, <1>4, <1>5, <1>6 DEF last

\* What the walk finds in a slot is what Get finds.
LEMMA SlotIsRead ==
    ASSUME ReadInv, Walking, call.path # <<>>, NEW f
    PROVE  /\ lookupName(heap[cur].schema, f) = lookupName(place.schema, f)
           /\ f \in heap[cur].set <=> IsPresent(pre, place.msg, f)
           /\ f \in heap[cur].set => heap[cur].vals[f] = pre[place.msg].vals[f]
BY DEF ReadInv, WalkIsRead, Running, IsPresent

\* How a walk should end at a segment that is not the last of the path.
WayOut ==
    IF wayErr(pre, place, Head(segs)) # "nil" THEN wayErr(pre, place, Head(segs))
    ELSE IF Head(segs).hasIdx /\ nextMessage(pre, place, Head(segs)) = Nil
    THEN "ErrFieldNotFound" ELSE "nil"

LEMMA DescendAgrees ==
    ASSUME ReadInv, Descending, call.path # <<>>
    PROVE  descendErr(cur, Head(segs)) = WayOut
<1> DEFINE f == Head(segs).field
<1>1. Walking
    BY DEF Descending, Walking
<1>2. /\ lookupName(heap[cur].schema, f) = lookupName(place.schema, f)
      /\ f \in heap[cur].set <=> IsPresent(pre, place.msg, f)
      /\ f \in heap[cur].set => heap[cur].vals[f] = pre[place.msg].vals[f]
    BY <1>1, SlotIsRead
<1> QED BY <1>2 DEF descendErr, WayOut, wayErr, segErr, nextMessage

LEMMA ClearAgrees ==
    ASSUME ReadInv, Clearing, Len(segs) > 1, call.path # <<>>
    PROVE  clearPathErr = WayOut
<1> DEFINE f == Head(segs).field
<1>1. Walking
    BY DEF Clearing, Walking
<1>2. /\ lookupName(heap[cur].schema, f) = lookupName(place.schema, f)
      /\ f \in heap[cur].set <=> IsPresent(pre, place.msg, f)
      /\ f \in heap[cur].set => heap[cur].vals[f] = pre[place.msg].vals[f]
    BY <1>1, SlotIsRead
<1>3. Len(segs) # 1
    BY <1>1, PlaceIs DEF Running
<1> QED BY <1>2, <1>3 DEF clearPathErr, WayOut, wayErr, segErr, nextMessage

LEMMA VerifyAgrees ==
    ASSUME ReadInv, pc = "verifyClearPath", call.path # <<>>
    PROVE  /\ Len(segs) > 1 => verifyErr = WayOut
           /\ Len(segs) = 1 => verifyErr = segErr(pre, place, Head(segs))
           /\ nextMessage(pre, place, Head(segs)) = Nil
           /\ verifyErr = "nil" => ~Head(segs).hasIdx
<1>1. place.schema = vschema /\ place.msg = Nil
    BY DEF ReadInv, WalkIsRead, Running, Walking
<1>2. ~(Len(segs) > 1 /\ Len(segs) = 1)
    BY PlaceIs DEF Running
<1> DEFINE fs == lookupName(place.schema, Head(segs).field)
<1>3. segErr(pre, place, Head(segs)) =
          IF fs.type = "none" \/ (Head(segs).hasIdx /\ ~fs.repeated) THEN "ErrFieldNotFound"
          ELSE IF Head(segs).hasIdx THEN "ErrIndexOutOfRange" ELSE "nil"
    BY <1>1, Zenon DEF segErr, IsPresent
<1>4. nextMessage(pre, place, Head(segs)) = Nil
    BY <1>1, Zenon DEF nextMessage, IsPresent
<1>5. verifyErr = IF fs.type = "none" THEN "ErrFieldNotFound"
                  ELSE IF Head(segs).hasIdx
                       THEN IF fs.repeated THEN "ErrIndexOutOfRange" ELSE "ErrFieldNotFound"
                  ELSE IF Len(segs) > 1 /\ fs.type # "message" THEN "ErrFieldNotFound"
                  ELSE "nil"
    BY <1>1, Zenon DEF verifyErr
<1> HIDE DEF fs
<1>6. Len(segs) > 1 => verifyErr = WayOut
    BY <1>3, <1>4, <1>5 DEF WayOut, wayErr, fs
<1>7. Len(segs) = 1 => verifyErr = segErr(pre, place, Head(segs))
    BY <1>2, <1>3, <1>5
<1>8. verifyErr = "nil" => ~Head(segs).hasIdx
    BY <1>5
<1> QED BY <1>4, <1>6, <1>7, <1>8

\* A walk that ends before the last segment ends as Get does, or at a nil element.
LEMMA WayFails ==
    ASSUME ReadInv, Running, call.path # <<>>, Len(segs) > 1, WayOut # "nil",
           pc' = "done", err' = WayOut, call' = call, pre' = pre
    PROVE  WalksAgree' /\ PanicsExplained'
<1>1. /\ call.path \in Seq(Seg) /\ passed \in 0 .. Len(call.path) - 2
      /\ Head(segs) = call.path[passed + 1]
      /\ IsAt(pre, call.recv, call.path, passed)
    BY PlaceIs
<1>2. WayOut # "panic"
    BY DEF WayOut, wayErr, segErr
<1>3. PanicsExplained'
    BY <1>2 DEF PanicsExplained
<1>4. CASE wayErr(pre, place, Head(segs)) # "nil"
    <2>1. /\ ~CrossesNil(pre, call.recv, call.path)
          /\ Get(pre, call.recv, call.path) = Failed(wayErr(pre, place, Head(segs)))
        BY <1>1, <1>4, ReadFails DEF place
    <2>2. Get(pre, call.recv, call.path).err = WayOut
        BY <1>4, <2>1 DEF Failed, WayOut
    <2> QED BY <1>3, <2>1, <2>2 DEF WalksAgree
<1>5. CASE wayErr(pre, place, Head(segs)) = "nil"
    <2>1. Head(segs).hasIdx /\ nextMessage(pre, place, Head(segs)) = Nil
          /\ WayOut = "ErrFieldNotFound"
        BY <1>5 DEF WayOut
    <2>2. CrossesNil(pre, call.recv, call.path)
        BY <1>1, <1>5, <2>1, ReadCrosses DEF place
    <2> QED BY <1>3, <2>1, <2>2 DEF WalksAgree
<1> QED BY <1>4, <1>5

\* A call that has come to the last segment ends as Get does, if its value fits.
LEMMA EndAgrees ==
    ASSUME ReadInv, Running, call.path # <<>>, Len(segs) = 1,
           pc' = "done", call' = call, pre' = pre,
           IF segErr(pre, place, last) # "nil" THEN err' = segErr(pre, place, last)
           ELSE \/ call.op = "Clear" /\ err' = "nil"
                \/ /\ call.op = "Clear" /\ err' = "ErrFieldNotFound"
                   /\ endValue(pre, place, last).val.kind = "scalar"
                \/ call.op # "Clear" /\ err' \in {"nil", "ErrTypeMismatch", "panic"}
    PROVE  WalksAgree'
<1> DEFINE v == Get(pre, call.recv, call.path)
<1>1. /\ call.path \in Seq(Seg) /\ passed = Len(call.path) - 1 /\ Len(call.path) \in Nat
      /\ last = call.path[passed + 1]
      /\ IsAt(pre, call.recv, call.path, passed)
    BY PlaceIs
<1>2. passed + 1 = Len(call.path)
    BY <1>1
<1>3. ~CrossesNil(pre, call.recv, call.path) /\ v = endValue(pre, place, last)
    BY <1>1, <1>2, ReadEnds DEF place
<1> HIDE DEF v
<1>4. CASE segErr(pre, place, last) # "nil"
    <2>1. v = Failed(segErr(pre, place, last))
        BY <1>3, <1>4 DEF endValue
    <2>2. v.err = segErr(pre, place, last)
        BY <2>1 DEF Failed
    <2> QED BY <1>3, <1>4, <2>2 DEF WalksAgree, v
<1>5. CASE segErr(pre, place, last) = "nil"
    <2>1. v.err = "nil"
        BY <1>3, <1>5 DEF endValue, NotSet, Found, elementValue
    <2> QED BY <1>3, <1>5, <2>1 DEF WalksAgree, v
<1> QED BY <1>4, <1>5

\* convertMessageSlice dereferences nil only inside a []any.
LEMMA SlicePanics ==
    ASSUME NEW a \in Arg, NEW t, convertMessageSlice(t, a) = "panic"
    PROVE  a.kind = "anys" /\ \E i \in DOMAIN a.elems : a.elems[i] = MessageVal(Nil)
<1> DEFINE Wrong == {i \in DOMAIN a.elems : ~IsElementOf(t, a, a.elems[i])}
<1> DEFINE first == CHOOSE i \in Wrong : \A j \in Wrong : i =< j
<1>1. IsSlice(a) /\ Wrong # {} /\ a.elems[first].kind = "message" /\ a.elems[first].ref = Nil
    BY Zenon DEF convertMessageSlice
<1>2. a.elems \in Seq([kind : {"message"}, ref : Ref \cup {Nil}]) \/ a.elems \in Seq(Elem)
    BY <1>1 DEF Arg, Elem, IsSlice, NilVal
<1>3. Len(a.elems) \in Nat /\ DOMAIN a.elems = 1 .. Len(a.elems)
    BY <1>2, LenProperties
<1>4. Wrong \in SUBSET Nat
    BY <1>3
<1>5. \E i \in Wrong : \A j \in Wrong : i =< j
    BY <1>1, <1>4, LeastNat
<1>6. first \in Wrong
    BY <1>5
<1> HIDE DEF first
<1>7. first \in DOMAIN a.elems /\ ~IsElementOf(t, a, a.elems[first])
    BY <1>6
<1>8. a.elems[first] \in Elem \cup [kind : {"message"}, ref : Ref \cup {Nil}]
    BY <1>2, <1>3, <1>7, ElementOfSeq
<1>9. a.elems[first] = MessageVal(Nil)
    BY <1>1, <1>8 DEF Elem, MessageVal, NilVal
<1>10. a.kind # "messages"
    BY <1>1, <1>7 DEF IsElementOf
<1> QED BY <1>1, <1>7, <1>9, <1>10 DEF IsSlice

LEMMA SetAgrees ==
    ASSUME ReadInv, AtEnd("Set"), call.path # <<>>
    PROVE  /\ IF segErr(pre, place, last) # "nil" THEN setErr = segErr(pre, place, last)
              ELSE setErr \in {"nil", "ErrTypeMismatch", "panic"}
           /\ setErr = "panic" =>
                  /\ call.arg.kind = "anys"
                  /\ \E i \in DOMAIN call.arg.elems : call.arg.elems[i] = MessageVal(Nil)
<1> DEFINE f == last.field
<1>1. Walking
    BY DEF AtEnd, Walking
<1>2. /\ lookupName(heap[cur].schema, f) = lookupName(place.schema, f)
      /\ f \in heap[cur].set <=> IsPresent(pre, place.msg, f)
      /\ f \in heap[cur].set => heap[cur].vals[f] = pre[place.msg].vals[f]
    BY <1>1, SlotIsRead
<1>3. \A fs, a : convertElement(fs, a) \in {"nil", "ErrTypeMismatch"}
    BY DEF convertElement
<1>4. \A fs, a : convertToSlice(fs, a) \in {"nil", "ErrTypeMismatch", "panic"}
    BY DEF convertToSlice, convertMessageSlice
<1>5. \A fs, a : setFieldErr(fs, a) \in {"nil", "ErrTypeMismatch", "panic"}
    BY <1>3, <1>4 DEF setFieldErr
<1>6. IF segErr(pre, place, last) # "nil" THEN setErr = segErr(pre, place, last)
      ELSE setErr \in {"nil", "ErrTypeMismatch", "panic"}
    BY <1>2, <1>3, <1>5 DEF setErr, segErr, setElementErr, lastSchema, slotIsSet, slot
<1>7. ASSUME setErr = "panic"
      PROVE  /\ call.arg.kind = "anys"
             /\ \E i \in DOMAIN call.arg.elems : call.arg.elems[i] = MessageVal(Nil)
    <2>1. setElementErr(lastSchema, call.arg) # "panic"
        BY <1>3 DEF setElementErr
    <2>2. setFieldErr(lastSchema, call.arg) = "panic"
        BY <1>7, <2>1 DEF setErr
    <2>3. convertToSlice(lastSchema, call.arg) = "panic"
        BY <1>3, <2>2 DEF setFieldErr
    <2>4. convertMessageSlice(lastSchema.schema, call.arg) = "panic"
        BY <2>3 DEF convertToSlice
    <2>5. call.arg \in Arg
        BY <1>1 DEF ReadInv, CallInv, PreExists, Walking, Call
    <2> QED BY <2>4, <2>5, SlicePanics
<1> QED BY <1>6, <1>7

LEMMA AppendAgrees ==
    ASSUME ReadInv, AtEnd("Append")
    PROVE  /\ call.path # <<>>
           /\ IF segErr(pre, place, last) # "nil" THEN appendErr = segErr(pre, place, last)
              ELSE appendErr \in {"nil", "ErrTypeMismatch", "panic"}
           /\ appendErr = "panic" =>
                  LET v == endValue(pre, place, last) IN v.isSet /\ v.val.kind # "messages"
<1> DEFINE f == last.field
<1>1. Walking /\ Running
    BY DEF AtEnd, Walking, Running
<1>2. call.path # <<>> /\ ~call.path[Len(call.path)].hasIdx
    BY <1>1 DEF ReadInv, CallInv, PathLeft, NamesField, AtEnd
<1>3. /\ lookupName(heap[cur].schema, f) = lookupName(place.schema, f)
      /\ f \in heap[cur].set <=> IsPresent(pre, place.msg, f)
      /\ f \in heap[cur].set => heap[cur].vals[f] = pre[place.msg].vals[f]
    BY <1>1, <1>2, SlotIsRead
<1>4. ~last.hasIdx
    <2>1. Len(segs) = 1
        BY DEF AtEnd
    <2> QED BY <1>1, <1>2, <2>1, TargetIsLast DEF ReadInv
<1>5. segErr(pre, place, last) = IF lookupName(place.schema, f).type = "none"
                                 THEN "ErrFieldNotFound" ELSE "nil"
    BY <1>4 DEF segErr
<1>6. IF segErr(pre, place, last) # "nil" THEN appendErr = segErr(pre, place, last)
      ELSE appendErr \in {"nil", "ErrTypeMismatch", "panic"}
    BY <1>3, <1>5 DEF appendErr, lastSchema
<1>7. ASSUME appendErr = "panic"
      PROVE  LET v == endValue(pre, place, last) IN v.isSet /\ v.val.kind # "messages"
    <2>1. slotIsSet /\ slot.kind # "messages" /\ lastSchema.type # "none"
        BY <1>7 DEF appendErr
    <2>2. endValue(pre, place, last) = Found(slot)
        BY <1>3, <1>4, <1>5, <2>1 DEF endValue, slot, slotIsSet, lastSchema
    <2> QED BY <2>1, <2>2 DEF Found
<1> QED BY <1>2, <1>6, <1>7

LEMMA ClearEndAgrees ==
    ASSUME ReadInv, Clearing, Len(segs) = 1, call.path # <<>>
    PROVE  IF segErr(pre, place, last) # "nil" THEN clearPathErr = segErr(pre, place, last)
           ELSE \/ clearPathErr = "nil"
                \/ /\ clearPathErr = "ErrFieldNotFound"
                   /\ endValue(pre, place, last).val.kind = "scalar"
<1> DEFINE f == last.field
<1> DEFINE fs == lookupName(place.schema, f)
<1>1. Walking /\ Running
    BY DEF Clearing, Walking, Running
<1>2. /\ lookupName(heap[cur].schema, f) = fs
      /\ f \in heap[cur].set <=> IsPresent(pre, place.msg, f)
      /\ f \in heap[cur].set => heap[cur].vals[f] = pre[place.msg].vals[f]
    BY <1>1, SlotIsRead
<1>3. Head(segs) = last /\ last \in Seg
    BY <1>1, PlaceIs
<1>4. CASE segErr(pre, place, last) # "nil"
    BY <1>2, <1>3, <1>4 DEF clearPathErr, segErr
<1>5. CASE segErr(pre, place, last) = "nil" /\ last.hasIdx /\ fs.type # "message"
    <2>1. clearPathErr = "ErrFieldNotFound"
        BY <1>2, <1>3, <1>5 DEF clearPathErr, segErr
    <2>2. /\ fs.type # "none" /\ fs.repeated /\ IsPresent(pre, place.msg, f)
          /\ ~(last.idx >= sliceLen(pre[place.msg].vals[f]))
        BY <1>5 DEF segErr
    <2>3. heap[cur].vals[f].kind # "messages"
        <3>1. cur \in Allocated(heap) /\ f \in Field /\ Sound(heap)
            BY <1>1, <1>3 DEF ReadInv, CallInv, StoreInv, WalkExists, Walking, Seg
        <3> QED BY <1>2, <1>5, <2>2, <3>1 DEF Sound, SlotFits
    <2>4. endValue(pre, place, last) = Found(ScalarVal(heap[cur].vals[f].elems[last.idx + 1]))
        BY <1>2, <1>5, <2>2, <2>3 DEF endValue, elementValue
    <2>5. endValue(pre, place, last).val.kind = "scalar"
        BY <2>4 DEF Found, ScalarVal
    <2> QED BY <1>5, <2>1, <2>5
<1>6. CASE segErr(pre, place, last) = "nil" /\ ~(last.hasIdx /\ fs.type # "message")
    BY <1>2, <1>3, <1>6 DEF clearPathErr, segErr
<1> QED BY <1>4, <1>5, <1>6

-----------------------------------------------------------------------------
(* The walk goes on, to where the next iteration of Get would be. *)
LEMMA ReadsOn ==
    ASSUME ReadInv, Running, call.path # <<>>, Len(segs) > 1, WayOut = "nil",
           Running', segs' = Tail(segs), call' = call, pre' = pre,
           LET r == nextMessage(pre, place, Head(segs))
               t == lookupName(place.schema, Head(segs).field).schema
           IN  /\ t = IF Walking' THEN heap'[cur'].schema ELSE vschema'
               /\ IF r = Nil THEN Walking' => heap'[cur'].set = {}
                  ELSE Walking' /\ cur' = r /\ heap' = pre,
           pc' = "verifyClearPath" => call.op = "Clear"
    PROVE  WalkIsRead' /\ WalksAgree' /\ PanicsExplained'
<1> DEFINE r == nextMessage(pre, place, Head(segs))
<1> DEFINE t == lookupName(place.schema, Head(segs).field).schema
<1>1. /\ call.path \in Seq(Seg) /\ segs \in Seq(Seg) /\ segs # <<>>
      /\ Len(segs) \in Nat /\ Len(call.path) \in Nat /\ Len(segs) =< Len(call.path)
      /\ passed \in 0 .. Len(call.path) - 2 /\ Head(segs) = call.path[passed + 1]
      /\ IsAt(pre, call.recv, call.path, passed)
    BY PlaceIs DEF ReadInv, WalkIsRead
<1>2. /\ segs' \in Seq(Seg) /\ Len(segs') = Len(segs) - 1
      /\ \A k \in 1 .. Len(segs') : segs'[k] = segs[k + 1]
    BY <1>1, HeadTailProperties
<1>3. passed' = passed + 1
    <2>1. \A n, k \in Nat : n - (k - 1) = n - k + 1
        OBVIOUS
    <2> QED BY <1>1, <1>2, <2>1 DEF passed
<1>4. /\ wayErr(pre, place, Head(segs)) = "nil"
      /\ Head(segs).hasIdx => r # Nil
    BY Zenon DEF WayOut
<1>5. /\ IsAt(pre, call.recv, call.path, passed + 1)
      /\ walked(pre, call.recv, call.path)[passed + 1] = Place(r, t)
    BY <1>1, <1>4, ReadGoesOn DEF place
<1>6. IsAt(pre, call.recv, call.path, passed)' /\ place' = Place(r, t)
    <2>1. /\ IsAt(pre', call'.recv, call'.path, passed')
          /\ walked(pre', call'.recv, call'.path)[passed'] = Place(r, t)
        <3> HIDE DEF r, t
        <3> QED BY <1>3, <1>5
    <2> QED BY <2>1 DEF place, IsAt
<1>7. segs' # <<>>
    <2>1. Len(segs') # 0
        BY <1>1, <1>2
    <2> QED BY <2>1, EmptySeq
<1>8. ASSUME NEW k \in 1 .. Len(segs')
      PROVE  segs'[k] = call.path[passed' + k]
    <2>1. k + 1 \in 1 .. Len(segs)
        BY <1>1, <1>2
    <2>2. segs[k + 1] = call.path[passed + (k + 1)]
        BY <2>1 DEF ReadInv, WalkIsRead
    <2>3. passed + (k + 1) = passed + 1 + k
        BY <1>1
    <2> QED BY <1>2, <1>3, <2>2, <2>3
<1>9. WalkIsRead'
    <2>1. place'.msg = r /\ place'.schema = t
        BY <1>6 DEF Place
    <2>2. Len(segs') =< Len(call.path')
        BY <1>1, <1>2
    <2> HIDE DEF r, t
    <2>3. /\ t = IF Walking' THEN heap'[cur'].schema ELSE vschema'
          /\ IF r = Nil THEN Walking' => heap'[cur'].set = {}
             ELSE Walking' /\ cur' = r /\ heap' = pre
        BY DEF r, t
    <2> QED BY <1>6, <1>7, <1>8, <2>1, <2>2, <2>3 DEF WalkIsRead
<1>10. pc' # "done"
    BY DEF Running, Walking
<1> QED BY <1>9, <1>10 DEF WalksAgree, PanicsExplained

\* A message that is set is the one that Get goes on to.
LEMMA SameMessage ==
    ASSUME ReadInv, Walking, call.path # <<>>, Len(segs) > 1, WayOut = "nil", NEW r, Advance(r),
           heap' = heap, Head(segs).field \in heap[cur].set,
           r = nextMessage(pre, place, Head(segs)), r # Nil,
           heap[r].schema = lookupName(heap[cur].schema, Head(segs).field).schema
    PROVE  WalkIsRead' /\ WalksAgree' /\ PanicsExplained'
<1>1. heap = pre /\ Running
    BY DEF ReadInv, WalkIsRead, Running
<1>2. lookupName(heap[cur].schema, Head(segs).field) = lookupName(place.schema, Head(segs).field)
    BY SlotIsRead
<1>3. Walking' /\ Running' /\ pc' # "verifyClearPath" /\ call' = call /\ pre' = pre
      /\ segs' = Tail(segs) /\ cur' = r
    BY DEF Advance, Walking, Running
<1> QED BY <1>1, <1>2, <1>3, ReadsOn

\* The walk goes on to message r, which Get would go on to.
GoesTo(r) == /\ Walking /\ Len(segs) > 1 /\ WayOut = "nil" /\ Advance(r) /\ heap' = heap
             /\ Head(segs).field \in heap[cur].set
             /\ r = nextMessage(pre, place, Head(segs)) /\ r # Nil
             /\ heap[r].schema = lookupName(heap[cur].schema, Head(segs).field).schema

LEMMA GoesToElement ==
    ASSUME ReadInv, DescendElement \/ ClearInElement, call.path # <<>>
    PROVE  \E r : GoesTo(r)
<1> DEFINE f == Head(segs).field
<1> DEFINE i == Head(segs).idx
<1> DEFINE v == heap[cur].vals[f]
<1>1. Walking /\ Len(segs) > 1 /\ Head(segs).hasIdx /\ Advance(v.elems[i + 1]) /\ heap' = heap
    BY DEF DescendElement, ClearInElement, Descending, Clearing, Walking
<1>2. WayOut = "nil"
    BY DescendAgrees, ClearAgrees, <1>1 DEF DescendElement, ClearInElement
<1>3. /\ wayErr(pre, place, Head(segs)) = "nil"
      /\ nextMessage(pre, place, Head(segs)) # Nil
    BY <1>1, <1>2, Zenon DEF WayOut
<1>4. /\ IsPresent(pre, place.msg, f) /\ lookupName(place.schema, f).type = "message"
      /\ ~(i >= sliceLen(pre[place.msg].vals[f]))
    BY <1>1, <1>3 DEF wayErr, segErr
<1>5. /\ lookupName(heap[cur].schema, f) = lookupName(place.schema, f)
      /\ f \in heap[cur].set /\ v = pre[place.msg].vals[f]
    BY <1>1, <1>4, SlotIsRead
<1>6. v.elems[i + 1] = nextMessage(pre, place, Head(segs))
    BY <1>1, <1>4, <1>5 DEF nextMessage
<1>7. StoreInv /\ cur \in Allocated(heap) /\ f \in Field /\ i \in Nat
    BY <1>1, NextSegment, HeadIsSeg, EmptySeq DEF ReadInv, CallInv
<1>8. sliceLen(v) \in Nat
    BY <1>7, SliceLenNat
<1>9. i < sliceLen(v)
    BY <1>4, <1>5, <1>7, <1>8
<1>10. v.kind = "messages" /\ i + 1 \in DOMAIN v.elems
    BY <1>4, <1>5, <1>7, <1>9, SlotElement
<1>11. v.elems[i + 1] \in Pointees(v)
    BY <1>3, <1>6, <1>10 DEF Pointees, Range
<1>12. heap[v.elems[i + 1]].schema = lookupName(heap[cur].schema, f).schema
    BY <1>4, <1>5, <1>7, <1>11 DEF StoreInv, Sound, SlotFits
<1> HIDE DEF v, f, i
<1> QED BY <1>1, <1>2, <1>3, <1>5, <1>6, <1>12, Zenon DEF f, GoesTo

LEMMA GoesToMessage ==
    ASSUME ReadInv, DescendMessage \/ ClearInMessage, call.path # <<>>
    PROVE  \E r : GoesTo(r)
<1> DEFINE f == Head(segs).field
<1> DEFINE v == heap[cur].vals[f]
<1>1. Walking /\ Len(segs) > 1 /\ ~Head(segs).hasIdx /\ Advance(v.ref) /\ heap' = heap
      /\ f \in heap[cur].set /\ v.kind = "message"
    BY DEF DescendMessage, ClearInMessage, HoldsMessage, Descending, Clearing, Walking
<1>2. WayOut = "nil"
    BY DescendAgrees, ClearAgrees, <1>1 DEF DescendMessage, ClearInMessage
<1>3. IsPresent(pre, place.msg, f) /\ v = pre[place.msg].vals[f]
      /\ lookupName(heap[cur].schema, f) = lookupName(place.schema, f)
    BY <1>1, SlotIsRead
<1>4. v.ref = nextMessage(pre, place, Head(segs))
    BY <1>1, <1>3 DEF nextMessage
<1>5. StoreInv /\ cur \in Allocated(heap) /\ f \in Field
    BY <1>1, NextSegment DEF ReadInv, CallInv
<1>6. v.ref \in Allocated(heap)
    BY <1>1, <1>5, SlotMessage DEF HoldsMessage
<1>7. v.ref # Nil
    BY <1>6, HeapAssumption DEF Allocated
<1>8. v.ref \in Pointees(v)
    BY <1>1 DEF Pointees
<1>9. heap[v.ref].schema = lookupName(heap[cur].schema, f).schema
    BY <1>1, <1>5, <1>8 DEF StoreInv, Sound, SlotFits
<1> HIDE DEF v, f
<1> QED BY <1>1, <1>2, <1>4, <1>7, <1>9, Zenon DEF f, GoesTo

LEMMA ReadsMessage ==
    ASSUME ReadInv, call.path # <<>>,
           DescendElement \/ ClearInElement \/ DescendMessage \/ ClearInMessage
    PROVE  WalkIsRead' /\ WalksAgree' /\ PanicsExplained'
BY GoesToElement, GoesToMessage, SameMessage DEF GoesTo

\* Where no message is set, Get goes on below an unset field.
LEMMA ReadsUnset ==
    ASSUME ReadInv, Walking, call.path # <<>>, ~Head(segs).hasIdx,
           ~HoldsMessage(cur, Head(segs).field)
    PROVE  nextMessage(pre, place, Head(segs)) = Nil
BY SlotIsRead DEF nextMessage, HoldsMessage

LEMMA ReadsCreated ==
    ASSUME ReadInv, DescendCreate, call.path # <<>>
    PROVE  WalkIsRead' /\ WalksAgree' /\ PanicsExplained'
<1> DEFINE f == Head(segs).field
<1> DEFINE t == lookupName(heap[cur].schema, f).schema
<1>1. Walking /\ Len(segs) > 1 /\ ~Head(segs).hasIdx /\ ~HoldsMessage(cur, f) /\ Descending
    BY DEF DescendCreate, Descending, Walking
<1>2. WayOut = "nil"
    BY <1>1, DescendAgrees DEF DescendCreate
<1>3. nextMessage(pre, place, Head(segs)) = Nil
    BY <1>1, ReadsUnset
<1>4. PICK nm \in Unused(heap) :
          /\ heap' = Put([heap EXCEPT ![nm] = newMessage(t)], cur, f, MessageVal(nm))
          /\ Advance(nm)
    BY DEF DescendCreate
<1>5. cur \in Allocated(heap) /\ DOMAIN heap = Ref
    BY <1>1, NextSegment DEF ReadInv, CallInv, StoreInv, TypeOK, Heap
<1>6. nm \in Ref /\ nm # cur
    BY <1>5 DEF Unused
<1>7. heap'[nm] = newMessage(t)
    BY <1>4, <1>5, <1>6 DEF Put
<1>8. heap'[nm].schema = t /\ heap'[nm].set = {}
    BY <1>7 DEF newMessage
<1>9. Running /\ Running' /\ Walking' /\ pc' # "verifyClearPath" /\ call' = call /\ pre' = pre
      /\ segs' = Tail(segs) /\ cur' = nm
    BY <1>1, <1>4 DEF Advance, Running, Walking
<1>10. t = lookupName(place.schema, f).schema
    BY <1>1, SlotIsRead
<1> HIDE DEF t
<1> QED BY <1>1, <1>2, <1>3, <1>8, <1>9, <1>10, ReadsOn

LEMMA ReadsBelow ==
    ASSUME ReadInv, ClearInUnset \/ VerifyNext, call.path # <<>>
    PROVE  WalkIsRead' /\ WalksAgree' /\ PanicsExplained'
<1> DEFINE f == Head(segs).field
<1>1. /\ Len(segs) > 1 /\ pc' = "verifyClearPath" /\ segs' = Tail(segs) /\ call' = call /\ pre' = pre
      /\ Running /\ Running' /\ ~Walking'
    BY DEF ClearInUnset, VerifyNext, Clearing, Goto, Running, Walking
<1>2. CASE ClearInUnset
    <2>1. Walking /\ ~Head(segs).hasIdx /\ ~HoldsMessage(cur, f) /\ clearPathErr = "nil" /\ Clearing
          /\ vschema' = lookupName(heap[cur].schema, f).schema
        BY <1>2 DEF ClearInUnset, Clearing, Walking
    <2>2. WayOut = "nil" /\ nextMessage(pre, place, Head(segs)) = Nil
        BY <1>1, <2>1, ClearAgrees, ReadsUnset
    <2>3. vschema' = lookupName(place.schema, f).schema
        BY <2>1, SlotIsRead
    <2>4. call.op = "Clear"
        BY <2>1 DEF Clearing, ReadInv, CallInv, PathLeft
    <2> QED BY <1>1, <2>2, <2>3, <2>4, ReadsOn
<1>3. CASE VerifyNext
    <2>1. pc = "verifyClearPath" /\ verifyErr = "nil" /\ vschema' = lookupName(vschema, f).schema
        BY <1>3 DEF VerifyNext
    <2>2. WayOut = "nil" /\ nextMessage(pre, place, Head(segs)) = Nil
        BY <1>1, <2>1, VerifyAgrees
    <2>3. place.schema = vschema /\ call.op = "Clear"
        BY <2>1 DEF ReadInv, WalkIsRead, Running, Walking
    <2> QED BY <1>1, <2>1, <2>2, <2>3, ReadsOn
<1> QED BY <1>2, <1>3

LEMMA WalkReads ==
    ASSUME ReadInv, Walk
    PROVE  WalkIsRead' /\ WalksAgree' /\ PanicsExplained'
<1>1. CASE VerifyNext /\ call.path = <<>>
    BY <1>1 DEF VerifyNext, WalkIsRead, WalksAgree, PanicsExplained
<1> SUFFICES ASSUME ~(VerifyNext /\ call.path = <<>>)
             PROVE  WalkIsRead' /\ WalksAgree' /\ PanicsExplained'
    BY <1>1
<1>2. call.path # <<>>
    <2>1. CASE VerifyNext
        BY <2>1
    <2>2. CASE ~VerifyNext
        <3>1. Walking /\ segs # <<>>
            <4>1. segs \in Seq(Seg)
                BY DEF ReadInv, CallInv, StoreInv, TypeOK
            <4>2. Len(<<>>) = 0
                OBVIOUS
            <4>3. Walking /\ (Len(segs) > 1 \/ segs # <<>>)
                BY <2>2
                DEF Walk, DescendFail, DescendElement, DescendMessage, DescendCreate, Descending,
                    ClearInElement, ClearInMessage, ClearInUnset, Clearing, Walking
            <4> QED BY <4>1, <4>2, <4>3
        <3>2. segs \in Seq(Seg) /\ call.path \in Seq(Seg) /\ Len(segs) =< Len(call.path)
            BY <3>1, MessageAssumption
            DEF ReadInv, CallInv, StoreInv, TypeOK, PreExists, Walking, Call, PathLeft
        <3>3. Len(segs) \in Nat /\ Len(segs) # 0
            BY <3>1, <3>2, LenProperties, EmptySeq
        <3>4. Len(call.path) # 0
            BY <3>2, <3>3, LenProperties
        <3> QED BY <3>4, EmptySeq
    <2> QED BY <2>1, <2>2
<1>3. CASE DescendFail
    <2>1. Descending /\ Running /\ Len(segs) > 1 /\ WayOut # "nil" /\ pc' = "done" /\ err' = WayOut
          /\ call' = call /\ pre' = pre
        BY <1>2, <1>3, DescendAgrees DEF DescendFail, Descending, Running, Walking, Done, Goto
    <2>2. WalkIsRead'
        BY <2>1 DEF WalkIsRead, Running, Walking
    <2> QED BY <1>2, <2>1, <2>2, WayFails
<1> QED BY <1>2, <1>3, ReadsMessage, ReadsCreated, ReadsBelow DEF Walk

-----------------------------------------------------------------------------
(* Ending *)
\* A call with the empty path walks nowhere.
LEMMA SelfReads ==
    ASSUME ReadInv, SetSelfFail \/ setSelf \/ ClearSelf
    PROVE  WalkIsRead' /\ WalksAgree' /\ PanicsExplained'
<1>1. pc' = "done" /\ err' \in {"nil", "ErrTypeMismatch"} /\ call' = call
    BY DEF SetSelfFail, setSelf, ClearSelf, setSelfErr, Finish, Done, Goto
<1>2. Walking /\ segs = <<>>
    BY DEF SetSelfFail, setSelf, ClearSelf, Walking
<1>3. call.path = <<>>
    BY <1>2 DEF ReadInv, CallInv, PathLeft
<1> QED BY <1>1, <1>3 DEF WalkIsRead, WalksAgree, PanicsExplained, Running, Walking

LEMMA SetReads ==
    ASSUME ReadInv, SetFail \/ setField \/ setElement
    PROVE  WalkIsRead' /\ WalksAgree' /\ PanicsExplained'
<1>1. /\ AtEnd("Set") /\ Walking /\ Running /\ Len(segs) = 1
      /\ pc' = "done" /\ err' = setErr /\ call' = call /\ pre' = pre
    BY DEF SetFail, setField, setElement, Setting, AtEnd, Finish, Done, Goto, Running, Walking
<1>2. call.path # <<>> /\ call.op = "Set"
    <2>1. Len(call.path) >= 1
        BY <1>1, TargetIsLast DEF ReadInv
    <2> QED BY <1>1, <2>1, EmptySeq DEF AtEnd, ReadInv, CallInv, PathLeft
<1>3. /\ IF segErr(pre, place, last) # "nil" THEN setErr = segErr(pre, place, last)
         ELSE setErr \in {"nil", "ErrTypeMismatch", "panic"}
      /\ setErr = "panic" =>
             /\ call.arg.kind = "anys"
             /\ \E i \in DOMAIN call.arg.elems : call.arg.elems[i] = MessageVal(Nil)
    BY <1>1, <1>2, SetAgrees
<1>4. WalksAgree'
    BY <1>1, <1>2, <1>3, EndAgrees
<1>5. PanicsExplained'
    BY <1>1, <1>2, <1>3 DEF PanicsExplained, MessageVal
<1>6. WalkIsRead'
    BY <1>1 DEF WalkIsRead, Running, Walking
<1> QED BY <1>4, <1>5, <1>6

LEMMA AppendReads ==
    ASSUME ReadInv, AppendFail \/ appendField
    PROVE  WalkIsRead' /\ WalksAgree' /\ PanicsExplained'
<1>1. /\ AtEnd("Append") /\ Walking /\ Running /\ Len(segs) = 1
      /\ pc' = "done" /\ err' = appendErr /\ call' = call /\ pre' = pre
    BY DEF AppendFail, appendField, AtEnd, Finish, Done, Goto, Running, Walking
<1>2. call.op = "Append"
    BY <1>1 DEF AtEnd, ReadInv, CallInv, PathLeft
<1>3. /\ call.path # <<>>
      /\ IF segErr(pre, place, last) # "nil" THEN appendErr = segErr(pre, place, last)
         ELSE appendErr \in {"nil", "ErrTypeMismatch", "panic"}
      /\ appendErr = "panic" =>
             endValue(pre, place, last).isSet /\ endValue(pre, place, last).val.kind # "messages"
    BY <1>1, AppendAgrees
<1>4. WalksAgree'
    BY <1>1, <1>2, <1>3, EndAgrees
<1>5. Get(pre, call.recv, call.path) = endValue(pre, place, last)
    <2>1. /\ call.path \in Seq(Seg) /\ passed = Len(call.path) - 1 /\ Len(call.path) \in Nat
          /\ last = call.path[passed + 1]
          /\ IsAt(pre, call.recv, call.path, passed)
        BY <1>1, <1>3, PlaceIs
    <2>2. passed + 1 = Len(call.path)
        BY <2>1
    <2> QED BY <1>3, <2>1, <2>2, ReadEnds DEF place
<1>6. PanicsExplained'
    BY <1>1, <1>2, <1>3, <1>5 DEF PanicsExplained
<1>7. WalkIsRead'
    BY <1>1 DEF WalkIsRead, Running, Walking
<1> QED BY <1>4, <1>6, <1>7

LEMMA ClearReads ==
    ASSUME ReadInv, ClearFail \/ clearField \/ clearElement
    PROVE  WalkIsRead' /\ WalksAgree' /\ PanicsExplained'
<1>1. /\ Clearing /\ Walking /\ Running
      /\ pc' = "done" /\ err' = clearPathErr /\ call' = call /\ pre' = pre
    BY DEF ClearFail, clearField, clearElement, Clearing, Finish, Done, Goto, Running, Walking
<1>2. call.path # <<>> /\ call.op = "Clear"
    <2>1. /\ call.path \in Seq(Seg) /\ segs \in Seq(Seg) /\ segs # <<>> /\ Len(segs) =< Len(call.path)
          /\ call.op = "Clear"
        BY <1>1, MessageAssumption
        DEF Clearing, ReadInv, CallInv, StoreInv, TypeOK, PreExists, Walking, Call, PathLeft
    <2>2. Len(segs) \in Nat /\ Len(segs) # 0
        BY <2>1, LenProperties, EmptySeq
    <2>3. Len(call.path) # 0
        BY <2>1, <2>2, LenProperties
    <2> QED BY <2>1, <2>3, EmptySeq
<1>3. Len(segs) > 1 \/ Len(segs) = 1
    BY <1>1, <1>2, PlaceIs
<1>4. WalkIsRead'
    BY <1>1 DEF WalkIsRead, Running, Walking
<1>5. CASE Len(segs) > 1
    <2>1. clearPathErr # "nil"
        <3>1. Len(segs) # 1
            BY <1>1, <1>2, <1>5, PlaceIs
        <3> QED BY <3>1 DEF ClearFail, clearField, clearElement
    <2>2. clearPathErr = WayOut
        BY <1>1, <1>2, <1>5, ClearAgrees
    <2> QED BY <1>1, <1>2, <1>4, <1>5, <2>1, <2>2, WayFails
<1>6. CASE Len(segs) = 1
    <2>1. IF segErr(pre, place, last) # "nil" THEN clearPathErr = segErr(pre, place, last)
          ELSE \/ clearPathErr = "nil"
               \/ /\ clearPathErr = "ErrFieldNotFound"
                  /\ endValue(pre, place, last).val.kind = "scalar"
        BY <1>1, <1>2, <1>6, ClearEndAgrees
    <2>2. WalksAgree'
        BY <1>1, <1>2, <1>6, <2>1, EndAgrees
    <2>3. err' # "panic"
        BY <1>1 DEF clearPathErr
    <2> QED BY <1>4, <2>2, <2>3 DEF PanicsExplained
<1> QED BY <1>3, <1>5, <1>6

LEMMA VerifyReads ==
    ASSUME ReadInv, VerifyEnd
    PROVE  WalkIsRead' /\ WalksAgree' /\ PanicsExplained'
<1>1. /\ pc = "verifyClearPath" /\ Running /\ (verifyErr # "nil" \/ Len(segs) = 1)
      /\ pc' = "done" /\ err' = verifyErr /\ call' = call /\ pre' = pre
    BY DEF VerifyEnd, Done, Goto, Running
<1>2. WalkIsRead'
    BY <1>1 DEF WalkIsRead, Running, Walking
<1>3. verifyErr # "panic"
    BY DEF verifyErr
<1>4. PanicsExplained'
    BY <1>1, <1>3 DEF PanicsExplained
<1>5. CASE call.path = <<>>
    BY <1>1, <1>2, <1>4, <1>5 DEF WalksAgree
<1>6. CASE call.path # <<>>
    <2>1. Len(segs) > 1 \/ Len(segs) = 1
        BY <1>1, <1>6, PlaceIs
    <2>2. CASE Len(segs) > 1
        <3>1. verifyErr # "nil"
            <4>1. Len(segs) # 1
                BY <1>1, <1>6, <2>2, PlaceIs
            <4> QED BY <1>1, <4>1
        <3>2. verifyErr = WayOut
            BY <1>1, <1>6, <2>2, VerifyAgrees
        <3> QED BY <1>1, <1>2, <1>6, <2>2, <3>1, <3>2, WayFails
    <2>3. CASE Len(segs) = 1
        <3>1. verifyErr = segErr(pre, place, last)
            BY <1>1, <1>6, <2>3, VerifyAgrees, PlaceIs
        <3>2. call.op = "Clear"
            BY <1>1, <1>6 DEF ReadInv, WalkIsRead
        <3> QED BY <1>1, <1>2, <1>4, <1>6, <2>3, <3>1, <3>2, EndAgrees
    <2> QED BY <2>1, <2>2, <2>3
<1> QED BY <1>5, <1>6

-----------------------------------------------------------------------------
(* Starting *)
LEMMA StartReads ==
    ASSUME ReadInv, NEW op \in {"Set", "Append", "Clear"}, NEW v \in Var,
           NEW p \in Path, NEW a, Start(op, v, p, a), pc' = op
    PROVE  WalkIsRead' /\ WalksAgree' /\ PanicsExplained'
<1>1. /\ call' = [op |-> op, recv |-> held[v], path |-> p, arg |-> a] /\ pre' = heap
      /\ heap' = heap /\ segs' = p /\ cur' = held[v] /\ held[v] # Nil
    BY DEF Start
<1>2. p \in Seq(Seg) /\ Len(p) \in Nat
    BY MessageAssumption, LenProperties
<1>3. passed' = 0 /\ \A k \in 1 .. Len(p) : p[k] = p[0 + k]
    BY <1>1, <1>2 DEF passed
<1>4. Walking' /\ Running' /\ pc' # "done" /\ pc' # "verifyClearPath"
    BY DEF Walking, Running
<1>5. ASSUME p # <<>>
      PROVE  WalkIsRead'
    <2>1. walked(heap, held[v], p)[0] = Place(held[v], heap[held[v]].schema)
        BY <1>2, <1>5, WalkedIs
    <2>2. place' = Place(held[v], heap[held[v]].schema)
        BY <1>1, <1>3, <2>1 DEF place
    <2>3. place'.msg = held[v] /\ place'.schema = heap[held[v]].schema
        BY <2>2 DEF Place
    <2>4. IsAt(heap, held[v], p, 0)
        <3>1. \A j \in 1 .. 0 : FALSE
            OBVIOUS
        <3> QED BY <2>1, <3>1 DEF IsAt, Place
    <2>5. IsAt(pre', call'.recv, call'.path, passed')
        BY <1>1, <1>3, <2>4
    <2>6. IsAt(pre, call.recv, call.path, passed)'
        BY <2>5 DEF IsAt
    <2> QED BY <1>1, <1>2, <1>3, <1>4, <1>5, <2>3, <2>6 DEF WalkIsRead
<1> QED BY <1>1, <1>4, <1>5 DEF WalkIsRead, WalksAgree, PanicsExplained

LEMMA IdleReads ==
    ASSUME pc' = "idle"
    PROVE  WalkIsRead' /\ WalksAgree' /\ PanicsExplained'
BY DEF WalkIsRead, WalksAgree, PanicsExplained, Running, Walking

LEMMA BeginReads ==
    ASSUME ReadInv, Begin
    PROVE  WalkIsRead' /\ WalksAgree' /\ PanicsExplained'
<1>1. PICK v \in Var :
        \/ \E t \in Top : New(v, t)
        \/ \E w \in Var, p \in Path : Len(p) = 1 /\ GetMessage(v, w, p[1])
        \/ \E p \in Path, a \in Passed(ElemArgs \cup SliceArgs) : BeginSet(v, p, a)
        \/ \E p \in Path, a \in Passed(ElemArgs) : BeginAppend(v, p, a)
        \/ \E p \in Path : BeginClear(v, p)
    BY DEF Begin
<1>2. pc = "idle"
    BY DEF Begin, Ready
<1>3. CASE \E t \in Top : New(v, t)
    BY <1>2, <1>3, IdleReads DEF New, Hold
<1>4. CASE \E w \in Var, p \in Path : Len(p) = 1 /\ GetMessage(v, w, p[1])
    BY <1>2, <1>4, IdleReads DEF GetMessage, Hold
<1>5. CASE \E p \in Path, a \in Passed(ElemArgs \cup SliceArgs) : BeginSet(v, p, a)
    BY <1>5, StartReads DEF BeginSet, Goto
<1>6. CASE \E p \in Path, a \in Passed(ElemArgs) : BeginAppend(v, p, a)
    <2>1. PICK p \in Path, a \in Passed(ElemArgs) : BeginAppend(v, p, a)
        BY <1>6
    <2>2. Start("Append", v, p, a)
        BY <2>1 DEF BeginAppend
    <2>3. CASE pc' = "Append"
        BY <2>2, <2>3, StartReads
    <2>4. CASE ~NamesField(p) /\ Done("ErrFieldNotFound")
        <3>1. call'.op = "Append" /\ call'.path = p /\ pc' = "done" /\ err' = "ErrFieldNotFound"
            BY <2>2, <2>4 DEF Start, Done, Goto
        <3> QED BY <2>4, <3>1
            DEF WalkIsRead, WalksAgree, PanicsExplained, Running, Walking, NamesField
    <2> QED BY <2>1, <2>3, <2>4 DEF BeginAppend, Goto
<1>7. CASE \E p \in Path : BeginClear(v, p)
    BY <1>7, StartReads DEF BeginClear, Goto
<1> QED BY <1>1, <1>3, <1>4, <1>5, <1>6, <1>7

-----------------------------------------------------------------------------
LEMMA InitReadInv == Init => ReadInv
BY InitCallInv DEF Init, ReadInv, WalkIsRead, WalksAgree, PanicsExplained, Running, Walking

LEMMA StepReadInv == ReadInv /\ [Next]_vars => ReadInv'
<1> SUFFICES ASSUME ReadInv, [Next]_vars PROVE ReadInv'
    OBVIOUS
<1>1. CallInv'
    BY StepCallInv DEF ReadInv
<1>2. CASE Begin
    BY <1>1, <1>2, BeginReads DEF ReadInv
<1>3. CASE Walk
    BY <1>1, <1>3, WalkReads DEF ReadInv
<1>4. CASE End
    BY <1>1, <1>4, SelfReads, SetReads, AppendReads, ClearReads, VerifyReads DEF End, ReadInv
<1>5. CASE Return \/ Collect
    BY <1>1, <1>5, IdleReads DEF Return, Collect, Goto, ReadInv
<1>6. CASE UNCHANGED vars
    <2>1. UNCHANGED <<heap, pc, call, segs, cur, vschema, err, pre>>
        BY <1>6 DEF vars
    <2>2. WalkIsRead'
        BY <2>1 DEF ReadInv, WalkIsRead, IsAt, place, passed, Running, Walking
    <2>3. WalksAgree' /\ PanicsExplained'
        BY <2>1 DEF ReadInv, WalksAgree, PanicsExplained
    <2> QED BY <1>1, <2>2, <2>3 DEF ReadInv
<1> QED BY <1>2, <1>3, <1>4, <1>5, <1>6 DEF Next

(* While a call walks its path it is where Get would be on the same path, in the heap the
   call began in: at the same message, or at the schema below the same unset field. *)
THEOREM ReadInvariance == Spec => []ReadInv
BY InitReadInv, StepReadInv, PTL DEF Spec

(* The walks of Get, Set and Append, Clear, and Clear below an unset message classify a
   path alike: a write reports the error that Get would have reported before it, and one
   whose path Get accepts fails only for its value, below a nil element of a list, or for
   clearing one element of a scalar list. *)
THEOREM WalksAlike == Spec => []WalksAgree
<1>1. ReadInv => WalksAgree
    BY DEF ReadInv
<1> QED BY <1>1, ReadInvariance, PTL

(* A call panics only on appending to a repeated message field that is set and holds no
   list, and on a nil *Message inside a []any. *)
THEOREM PanicsKnown == Spec => []PanicsExplained
<1>1. ReadInv => PanicsExplained
    BY DEF ReadInv
<1> QED BY <1>1, ReadInvariance, PTL

-----------------------------------------------------------------------------
(* Trees of messages *)
\* The levels that Levels defines by recursion exist.
LEMMA LevelsAre ==
    ASSUME NEW h
    PROVE  /\ Cardinality(Type) + 1 \in Nat
           /\ \A d \in 0 .. Cardinality(Type) + 1 : Levels(h)[d]
                  = [r \in Ref \cup {Nil} |-> IF d = 0 THEN Nil ELSE Node(h, Levels(h)[d - 1], r)]
<1> DEFINE N == Cardinality(Type) + 1
<1>1. N \in Nat
    BY SchemasAreFinite, FS_CardinalityType
<1> DEFINE L(f, d) == [r \in Ref \cup {Nil} |-> IF d = 0 THEN Nil ELSE Node(h, f[d - 1], r)]
           P(f, n) == f = [d \in 0 .. n |-> [r \in Ref \cup {Nil} |-> IF d = 0 THEN Nil
                                                                 ELSE Node(h, f[d - 1], r)]]
           S == {n \in Nat : \E f : P(f, n)}
<1>2. 0 \in S
    <2>1. P([d \in 0 .. 0 |-> [r \in Ref \cup {Nil} |-> Nil]], 0)
        OBVIOUS
    <2> QED BY <2>1
<1>3. ASSUME NEW n \in Nat, n \in S
      PROVE  n + 1 \in S
    <2>1. PICK f : P(f, n)
        BY <1>3
    <2> DEFINE g == [d \in 0 .. n + 1 |-> IF d = n + 1 THEN L(f, d) ELSE f[d]]
    <2>2. ASSUME NEW d \in 0 .. n + 1
          PROVE  g[d] = L(g, d)
        <3>1. CASE d = n + 1
            <4>1. d # 0 /\ d - 1 = n /\ n \in 0 .. n + 1 /\ n # n + 1
                BY <3>1
            <4>2. g[d - 1] = f[d - 1]
                BY <4>1
            <4>3. g[d] = L(f, d)
                BY <3>1
            <4> HIDE DEF g
            <4> QED BY <4>1, <4>2, <4>3
        <3>2. CASE d # n + 1
            <4>1. d \in 0 .. n /\ (d # 0 => d - 1 \in 0 .. n /\ d - 1 # n + 1 /\ d - 1 \in 0 .. n + 1)
                BY <3>2
            <4>2. d # 0 => g[d - 1] = f[d - 1]
                BY <4>1
            <4>3. g[d] = f[d]
                BY <3>2
            <4>4. f[d] = L(f, d)
                BY <2>1, <4>1
            <4> HIDE DEF g, P
            <4> QED BY <4>2, <4>3, <4>4
        <3> QED BY <3>1, <3>2
    <2>3. P(g, n + 1)
        BY <2>2
    <2> HIDE DEF P, g
    <2> QED BY <2>3
<1> HIDE DEF P, S
<1>4. \E f : P(f, N)
    BY <1>1, <1>2, <1>3, NatSetInduction DEF S
<1>5. Levels(h) = CHOOSE f : P(f, N)
    BY DEF P, Levels
<1>6. P(Levels(h), N)
    BY <1>4, <1>5, Zenon
<1> HIDE DEF N, L
<1>7. \A d \in 0 .. N : Levels(h)[d]
          = [r \in Ref \cup {Nil} |-> IF d = 0 THEN Nil ELSE Node(h, Levels(h)[d - 1], r)]
    <2> DEFINE w == Levels(h)
    <2>1. w = [d \in 0 .. N |-> [r \in Ref \cup {Nil} |-> IF d = 0 THEN Nil
                                                       ELSE Node(h, w[d - 1], r)]]
        BY <1>6 DEF P
    <2> HIDE DEF w
    <2>2. \A d \in 0 .. N : w[d]
          = [r \in Ref \cup {Nil} |-> IF d = 0 THEN Nil ELSE Node(h, w[d - 1], r)]
        BY <2>1
    <2> QED BY <2>2 DEF w
<1> QED BY <1>1, <1>7 DEF N

\* No level is level 0; the next one has the messages with level d in them.
LEMMA NextLevel ==
    ASSUME NEW h, NEW r \in Ref \cup {Nil}
    PROVE  /\ Levels(h)[0][r] = Nil
           /\ \A d \in Nat :
                  d + 1 =< Cardinality(Type) + 1 => Levels(h)[d + 1][r] = Node(h, Levels(h)[d], r)
<1> DEFINE N == Cardinality(Type) + 1
           L(d) == [x \in Ref \cup {Nil} |-> IF d = 0 THEN Nil ELSE Node(h, Levels(h)[d - 1], x)]
<1>1. N \in Nat /\ \A d \in 0 .. N : Levels(h)[d] = L(d)
    BY LevelsAre
<1>2. \A d : L(d)[r] = IF d = 0 THEN Nil ELSE Node(h, Levels(h)[d - 1], r)
    OBVIOUS
<1> HIDE DEF L, N
<1>3. \A d \in 0 .. N : Levels(h)[d][r] = IF d = 0 THEN Nil ELSE Node(h, Levels(h)[d - 1], r)
    BY <1>1, <1>2
<1>4. 0 \in 0 .. N
    BY <1>1
<1>5. ASSUME NEW d \in Nat, d + 1 =< N
      PROVE  Levels(h)[d + 1][r] = Node(h, Levels(h)[d], r)
    <2>1. d + 1 \in 0 .. N /\ d + 1 # 0 /\ (d + 1) - 1 = d
        BY <1>1, <1>5
    <2> QED BY <1>3, <2>1
<1>6. Levels(h)[0][r] = Nil
    BY <1>3, <1>4
<1> QED BY <1>5, <1>6 DEF N

\* Two messages, or none, in two heaps; two values, and two messages, that hold the same
\* but for the messages in them, which are such pairs.
Both(B, x, y) == (x = Nil /\ y = Nil) \/ <<x, y>> \in B

SameVal(B, v, w) ==
    /\ v.kind = w.kind
    /\ v.kind = "message" => Both(B, v.ref, w.ref)
    /\ v.kind = "messages" => /\ DOMAIN v.elems = DOMAIN w.elems
                              /\ \A i \in DOMAIN v.elems : Both(B, v.elems[i], w.elems[i])
    /\ v.kind \notin {"message", "messages"} => v = w

SameContent(B, h, x, k, y) ==
    /\ h[x].schema = k[y].schema /\ h[x].set = k[y].set
    /\ \A f \in Field : SameVal(B, h[x].vals[f], k[y].vals[f])

PairsMessages(B, h, k) == \A x, y \in Ref : <<x, y>> \in B => SameContent(B, h, x, k, y)

\* They have the same trees.
LEMMA SameTrees ==
    ASSUME NEW h, NEW k, NEW B \in SUBSET (Ref \X Ref), PairsMessages(B, h, k)
    PROVE  /\ \A x, y : Both(B, x, y) => Tree(h, x) = Tree(k, y)
           /\ \A v, w : SameVal(B, v, w) => TreeOf(h, v) = TreeOf(k, w)
<1> DEFINE N == Cardinality(Type) + 1
           Trees(d) == \A x, y : Both(B, x, y) => Levels(h)[d][x] = Levels(k)[d][y]
           Values(d) == \A v, w : SameVal(B, v, w) => WithTrees(Levels(h)[d], v) = WithTrees(Levels(k)[d], w)
           S == {d \in Nat : d =< N => Trees(d)}
<1>1. \A x, y : Both(B, x, y) => /\ x \in Ref \cup {Nil} /\ y \in Ref \cup {Nil}
                                 /\ x = Nil <=> y = Nil
                                 /\ x # Nil => SameContent(B, h, x, k, y)
    BY HeapAssumption DEF Both, PairsMessages
<1>2. N \in Nat
    BY LevelsAre
<1>3. ASSUME NEW d, Trees(d)
      PROVE  Values(d)
    <2> SUFFICES ASSUME NEW v, NEW w, SameVal(B, v, w)
                 PROVE  WithTrees(Levels(h)[d], v) = WithTrees(Levels(k)[d], w)
        OBVIOUS
    <2>1. CASE v.kind = "message"
        BY <1>3, <2>1 DEF SameVal, WithTrees
    <2>2. CASE v.kind = "messages"
        <3>1. \A i \in DOMAIN v.elems : Levels(h)[d][v.elems[i]] = Levels(k)[d][w.elems[i]]
            BY <1>3, <2>2 DEF SameVal
        <3>2. [i \in DOMAIN v.elems |-> Levels(h)[d][v.elems[i]]]
                  = [i \in DOMAIN w.elems |-> Levels(k)[d][w.elems[i]]]
            BY <2>2, <3>1 DEF SameVal
        <3> QED BY <2>2, <3>2 DEF SameVal, WithTrees
    <2>3. CASE v.kind \notin {"message", "messages"}
        BY <2>3 DEF SameVal, WithTrees
    <2> QED BY <2>1, <2>2, <2>3
<1>4. 0 \in S
    <2>1. \A r \in Ref \cup {Nil} : Levels(h)[0][r] = Nil /\ Levels(k)[0][r] = Nil
        BY NextLevel
    <2> QED BY <1>1, <2>1
<1>5. ASSUME NEW d \in Nat, d \in S
      PROVE  d + 1 \in S
    <2> SUFFICES ASSUME d + 1 =< N, NEW x, NEW y, Both(B, x, y)
                 PROVE  Levels(h)[d + 1][x] = Levels(k)[d + 1][y]
        OBVIOUS
    <2>1. Values(d)
        BY <1>2, <1>3, <1>5
    <2>3. /\ Levels(h)[d + 1][x] = Node(h, Levels(h)[d], x)
          /\ Levels(k)[d + 1][y] = Node(k, Levels(k)[d], y)
        BY <1>1, NextLevel
    <2>4. CASE x = Nil
        BY <1>1, <2>3, <2>4 DEF Node
    <2>5. CASE x # Nil
        <3>1. SameContent(B, h, x, k, y) /\ y # Nil
            BY <1>1, <2>5
        <3>2. \A f \in Field : WithTrees(Levels(h)[d], h[x].vals[f]) = WithTrees(Levels(k)[d], k[y].vals[f])
            BY <2>1, <3>1 DEF SameContent
        <3>3. [f \in Field |-> WithTrees(Levels(h)[d], h[x].vals[f])]
                  = [f \in Field |-> WithTrees(Levels(k)[d], k[y].vals[f])]
            BY <3>2
        <3> QED BY <2>3, <2>5, <3>1, <3>3 DEF Node, SameContent
    <2> QED BY <2>4, <2>5
<1> HIDE DEF S
<1>6. Trees(N)
    <2>1. N \in S /\ N =< N
        BY <1>2, <1>4, <1>5, NatSetInduction
    <2> HIDE DEF Trees
    <2> QED BY <2>1 DEF S
<1>7. Values(N)
    BY <1>3, <1>6
<1> QED BY <1>6, <1>7 DEF Tree, TreeOf

-----------------------------------------------------------------------------
(* The trees of copies *)
HoldsSlices(h, x) == \A f \in h[x].set :
    lookupName(h[x].schema, f).repeated => h[x].vals[f].kind \in {"scalars", "messages"}

\* What Sound says of a slot.
LEMMA SlotIs ==
    ASSUME NEW h \in Heap, Sound(h), NEW x \in Allocated(h), NEW f \in Field
    PROVE  /\ h[x].vals[f] \in Val /\ lookupName(h[x].schema, f) \in FieldSchema \cup {NoField}
           /\ f \notin h[x].set => h[x].vals[f] = NilVal
           /\ f \in h[x].set => /\ lookupName(h[x].schema, f).type # "none"
                                /\ SlotFits(h, lookupName(h[x].schema, f), h[x].vals[f])
<1>1. h[x].vals \in [Field -> Val] /\ h[x].schema \in Type
    BY ObjectType DEF Allocated
<1>2. lookupName(h[x].schema, f) \in FieldSchema \cup {NoField}
    BY <1>1, HeapAssumption DEF lookupName
<1> QED BY <1>1, <1>2 DEF Sound

\* A copy of a message is the same as the message.
LEMMA CopyIsSame ==
    ASSUME NEW h \in Heap, Sound(h), NEW x \in Allocated(h), HoldsSlices(h, x),
           NEW i, NEW g, NEW k, NEW y, k[y] = deepCopy(h, x, g, i),
           NEW B, \A c \in Children(h, x) : <<c, g[<<i, c>>]>> \in B
    PROVE  SameContent(B, h, x, k, y)
<1>1. k[y].schema = h[x].schema /\ k[y].set = h[x].set
    BY DEF deepCopy
<1>2. ASSUME NEW f \in Field
      PROVE  SameVal(B, h[x].vals[f], k[y].vals[f])
    <2> DEFINE fs == lookupName(h[x].schema, f)
               v == h[x].vals[f]
               w == k[y].vals[f]
    <2>1. w = IF f \in h[x].set THEN deepCopyValue(fs, v, g, i) ELSE NilVal
        BY DEF deepCopy
    <2>2. /\ v \in Val /\ fs \in FieldSchema \cup {NoField}
          /\ f \notin h[x].set => v = NilVal
          /\ f \in h[x].set => fs.type # "none" /\ SlotFits(h, fs, v)
        BY SlotIs
    <2>3. f \in h[x].set => /\ fs.repeated => v.kind \in {"scalars", "messages"}
                            /\ \A c \in Pointees(v) : <<c, g[<<i, c>>]>> \in B
        BY DEF HoldsSlices, Children
    <2> SUFFICES SameVal(B, v, w)
        OBVIOUS
    <2> HIDE DEF fs, v, w
    <2>4. CASE f \notin h[x].set
        BY <2>1, <2>2, <2>4 DEF SameVal, NilVal
    <2>5. CASE f \in h[x].set /\ v.kind = "message"
        <3>1. ~fs.repeated /\ fs.type = "message"
            BY <2>2, <2>3, <2>5 DEF SlotFits
        <3>2. w = MessageVal(Clone(g, i, v.ref))
            BY <2>1, <2>5, <3>1 DEF deepCopyValue
        <3>3. v.ref \in Pointees(v) /\ v.ref \in Ref
            BY <2>2, <2>5 DEF Pointees, Val, NilVal
        <3>4. w.kind = "message" /\ w.ref = g[<<i, v.ref>>]
            BY <3>2, <3>3, HeapAssumption DEF MessageVal, Clone
        <3> QED BY <2>3, <2>5, <3>3, <3>4 DEF SameVal, Both
    <2>6. CASE f \in h[x].set /\ v.kind = "messages"
        <3>1. fs.repeated
            BY <2>2, <2>6 DEF SlotFits
        <3>2. w = MessagesVal([j \in DOMAIN v.elems |-> Clone(g, i, v.elems[j])])
            BY <2>1, <2>6, <3>1 DEF deepCopyValue
        <3>3. w.kind = "messages" /\ w.elems = [j \in DOMAIN v.elems |-> Clone(g, i, v.elems[j])]
            BY <3>2 DEF MessagesVal
        <3>4. ASSUME NEW j \in DOMAIN v.elems
              PROVE  Both(B, v.elems[j], w.elems[j])
            <4>1. w.elems[j] = Clone(g, i, v.elems[j])
                BY <3>3
            <4>2. v.elems[j] # Nil => v.elems[j] \in Pointees(v)
                BY <2>6 DEF Pointees, Range
            <4> QED BY <2>3, <2>6, <4>1, <4>2 DEF Both, Clone
        <3>5. DOMAIN w.elems = DOMAIN v.elems
            BY <3>3
        <3> QED BY <2>6, <3>3, <3>4, <3>5 DEF SameVal
    <2>7. CASE f \in h[x].set /\ v.kind \notin {"message", "messages"}
        <3>1. w = v
            BY <2>1, <2>2, <2>3, <2>7 DEF deepCopyValue, SlotFits
        <3> QED BY <2>7, <3>1 DEF SameVal
    <2> QED BY <2>4, <2>5, <2>6, <2>7
<1> QED BY <1>1, <1>2 DEF SameContent

\* Where a copy is.
LEMMA CopyAt ==
    ASSUME NEW h, NEW D, NEW g \in [D -> Unused(h)], IsInjective(g)
    PROVE  \A d \in D : g[d] \in Unused(h) /\ g[d] \in Ref
                        /\ WithCopies(h, g)[g[d]] = deepCopy(h, d[2], g, d[1])
<1>1. \A d \in D : AntiFunction(g)[g[d]] = d /\ g[d] \in Range(g) /\ g[d] \in Ref
    BY DEF AntiFunction, Inverse, IsInjective, Range, Unused
<1> QED BY <1>1 DEF WithCopies

\* So deep copies have the trees of what they are copies of.
LEMMA CopiesAreSame ==
    ASSUME NEW h \in Heap, Sound(h),
           NEW D \in SUBSET (Nat \X Allocated(h)),
           \A d \in D : \A c \in Children(h, d[2]) : <<d[1], c>> \in D,
           NEW g \in [D -> Unused(h)], IsInjective(g),
           \A d \in D : HoldsSlices(h, d[2]),
           NEW k, \A d \in D : k[g[d]] = WithCopies(h, g)[g[d]],
           NEW o, \A d \in D : o[d[2]] = h[d[2]]
    PROVE  \A i, x : x = Nil \/ <<i, x>> \in D => Tree(k, Clone(g, i, x)) = Tree(o, x)
<1>1. \A d \in D : g[d] \in Ref /\ k[g[d]] = deepCopy(h, d[2], g, d[1])
    BY CopyAt
<1> DEFINE B == {<<d[2], g[d]>> : d \in D}
<1>3. \A d \in D : d[1] \in Nat /\ d[2] \in Allocated(h) /\ d[2] \in Ref /\ d = <<d[1], d[2]>>
    BY DEF Allocated
<1>4. B \in SUBSET (Ref \X Ref)
    BY <1>1, <1>3
<1>5. ASSUME NEW d \in D
      PROVE  SameContent(B, o, d[2], k, g[d])
    <2> DEFINE x == d[2]
               i == d[1]
    <2>1. \A c \in Children(h, x) : <<i, c>> \in D
        OBVIOUS
    <2>2. \A c \in Children(h, x) : <<c, g[<<i, c>>]>> \in B
        <3> TAKE c \in Children(h, x)
        <3>1. <<i, c>> \in D /\ <<i, c>>[2] = c
            BY <2>1
        <3> QED BY <3>1
    <2>3. x \in Allocated(h) /\ HoldsSlices(h, x) /\ k[g[d]] = deepCopy(h, x, g, i) /\ o[x] = h[x]
        BY <1>1, <1>3
    <2> HIDE DEF x, i, B
    <2>4. SameContent(B, h, x, k, g[d])
        BY <2>2, <2>3, CopyIsSame
    <2>5. SameContent(B, o, x, k, g[d])
        BY <2>3, <2>4 DEF SameContent
    <2> QED BY <2>5 DEF x
<1>6. PairsMessages(B, o, k)
    <2> SUFFICES \A x, y \in Ref : <<x, y>> \in B => SameContent(B, o, x, k, y)
        BY DEF PairsMessages
    <2> TAKE x, y \in Ref
    <2> HAVE <<x, y>> \in B
    <2>1. PICK d \in D : <<x, y>> = <<d[2], g[d]>>
        OBVIOUS
    <2>2. x = d[2] /\ y = g[d]
        BY <2>1
    <2> HIDE DEF B
    <2> QED BY <1>5, <2>2
<1>7. ASSUME NEW i, NEW x, x = Nil \/ <<i, x>> \in D
      PROVE  Both(B, x, Clone(g, i, x))
    <2>1. CASE x = Nil
        BY <2>1 DEF Both, Clone
    <2>2. CASE x # Nil
        <3>1. <<i, x>> \in D /\ <<i, x>>[2] = x
            BY <1>7, <2>2
        <3>2. <<x, g[<<i, x>>]>> \in B
            BY <3>1
        <3> QED BY <2>2, <3>2 DEF Both, Clone
    <2> QED BY <2>1, <2>2
<1> HIDE DEF B
<1> QED BY <1>4, <1>6, <1>7, SameTrees

\* A message that another is copied to has its tree.
LEMMA CopyFromIsSame ==
    ASSUME NEW h \in Heap, Sound(h), NEW m \in Allocated(h), NEW src \in Allocated(h), m # src,
           \A x \in Allocated(h) : HoldsSlices(h, x),
           NEW g \in [{<<1, x>> : x \in Reach(h, Children(h, src))} -> Unused(h)],
           IsInjective(g)
    PROVE  Tree(copyFrom(h, m, src, g), m) = Tree(h, src)
<1> DEFINE R == Reach(h, Children(h, src))
           D == {<<1, x>> : x \in R}
           k == copyFrom(h, m, src, g)
           B == {<<src, m>>} \cup {<<x, g[<<1, x>>]>> : x \in R}
<1>1. k = [WithCopies(h, g) EXCEPT ![m] = deepCopy(h, src, g, 1)] /\ DOMAIN WithCopies(h, g) = Ref
    BY DEF copyFrom, WithCopies
<1>2. m \in Ref /\ src \in Ref
    BY DEF Allocated
<1>3. R \subseteq Allocated(h) /\ \A x \in R : Children(h, x) \subseteq R
    BY ReachCloses
<1>4. Children(h, src) \subseteq R
    <2>1. Children(h, src) \subseteq Allocated(h)
        BY ChildExists DEF Children
    <2> QED BY <2>1, ReachCloses
<1>5. \A d \in D : g[d] \in Unused(h) /\ g[d] \in Ref
                   /\ WithCopies(h, g)[g[d]] = deepCopy(h, d[2], g, d[1])
    <2> HIDE DEF D
    <2>1. g \in [D -> Unused(h)]
        BY DEF D
    <2> QED BY <2>1, CopyAt
<1>6. ASSUME NEW x \in R
      PROVE  g[<<1, x>>] \in Ref /\ k[g[<<1, x>>]] = deepCopy(h, x, g, 1)
    <2> DEFINE d == <<1, x>>
    <2>1. d \in D /\ d[1] = 1 /\ d[2] = x
        OBVIOUS
    <2>2. g[d] \in Unused(h) /\ g[d] \in Ref /\ WithCopies(h, g)[g[d]] = deepCopy(h, x, g, 1)
        BY <1>5, <2>1
    <2>3. g[d] # m
        BY <2>2 DEF Unused
    <2> HIDE DEF d, k, D, B
    <2>4. k[g[d]] = WithCopies(h, g)[g[d]]
        BY <1>1, <2>2, <2>3
    <2> QED BY <2>2, <2>4 DEF d
<1>7. k[m] = deepCopy(h, src, g, 1)
    BY <1>1, <1>2
<1>8. B \in SUBSET (Ref \X Ref)
    <2>1. R \subseteq Ref
        BY <1>3 DEF Allocated
    <2>2. \A x \in R : g[<<1, x>>] \in Ref
        BY <1>6
    <2> HIDE DEF R, k
    <2>3. ASSUME NEW b \in B
          PROVE  b \in Ref \X Ref
        <3>1. CASE b = <<src, m>>
            BY <1>2, <3>1
        <3>2. CASE b # <<src, m>>
            <4>1. PICK x \in R : b = <<x, g[<<1, x>>]>>
                BY <3>2
            <4>2. x \in Ref /\ g[<<1, x>>] \in Ref
                BY <2>1, <2>2
            <4> QED BY <4>1, <4>2
        <3> QED BY <3>1, <3>2
    <2> HIDE DEF B
    <2> QED BY <2>3
<1>9. \A c \in R : <<c, g[<<1, c>>]>> \in B
    OBVIOUS
<1>10. ASSUME NEW x \in Ref, NEW y \in Ref, <<x, y>> \in B
       PROVE  SameContent(B, h, x, k, y)
    <2>1. (x = src /\ y = m) \/ (x \in R /\ y = g[<<1, x>>])
        BY <1>10
    <2>2. x \in Allocated(h) /\ k[y] = deepCopy(h, x, g, 1) /\ Children(h, x) \subseteq R
        BY <1>3, <1>4, <1>6, <1>7, <2>1
    <2>3. \A c \in Children(h, x) : <<c, g[<<1, c>>]>> \in B
        BY <1>9, <2>2
    <2> HIDE DEF B, k, R
    <2> QED BY <2>2, <2>3, CopyIsSame
<1>11. PairsMessages(B, h, k)
    BY <1>10 DEF PairsMessages
<1>12. Both(B, src, m)
    BY DEF Both
<1> HIDE DEF B, k
<1>13. Tree(h, src) = Tree(k, m)
    BY <1>8, <1>11, <1>12, SameTrees
<1> QED BY <1>13 DEF k

-----------------------------------------------------------------------------
(* Trees below a message *)
\* The tree of a value.
LEMMA TreeOfIs ==
    ASSUME NEW h, NEW v
    PROVE  /\ v.kind = "message" => TreeOf(h, v) = [kind |-> "message", tree |-> Tree(h, v.ref)]
           /\ v.kind = "messages" =>
                  TreeOf(h, v) = [kind |-> "messages",
                                  trees |-> [i \in DOMAIN v.elems |-> Tree(h, v.elems[i])]]
           /\ v.kind \notin {"message", "messages"} => TreeOf(h, v) = v
BY DEF TreeOf, WithTrees, Tree

\* Where no message is there is no tree.
LEMMA NilTree ==
    ASSUME NEW h
    PROVE  Tree(h, Nil) = Nil
<1> DEFINE N == Cardinality(Type)
<1>1. N \in Nat
    BY SchemasAreFinite, FS_CardinalityType
<1>2. N + 1 =< N + 1
    BY <1>1
<1>3. Levels(h)[N + 1][Nil] = Node(h, Levels(h)[N], Nil)
    BY <1>1, <1>2, NextLevel
<1> QED BY <1>3 DEF Tree, Node

\* The messages of a tree are all that its value depends on.
LEMMA SameMessagesSameTrees ==
    ASSUME NEW h \in Heap, Sound(h), NEW S \in SUBSET Allocated(h),
           \A y \in S : Children(h, y) \subseteq S,
           NEW k, \A y \in S : k[y] = h[y]
    PROVE  \A x \in S : Tree(k, x) = Tree(h, x)
<1> DEFINE B == {<<y, y>> : y \in S}
<1>1. B \in SUBSET (Ref \X Ref)
    BY DEF Allocated
<1>2. ASSUME NEW y \in S
      PROVE  SameContent(B, h, y, k, y)
    <2>1. \A c \in Children(h, y) : <<c, c>> \in B
        OBVIOUS
    <2> HIDE DEF B
    <2>2. ASSUME NEW f \in Field
          PROVE  SameVal(B, h[y].vals[f], h[y].vals[f])
        <3> DEFINE v == h[y].vals[f]
        <3>1. f \notin h[y].set => v.kind = "nil"
            BY SlotIs DEF NilVal
        <3>2. \A c \in Pointees(v) : v.kind \in {"message", "messages"} => <<c, c>> \in B
            BY <2>1, <3>1 DEF Children
        <3> SUFFICES SameVal(B, v, v)
            OBVIOUS
        <3> HIDE DEF v
        <3>3. v.kind = "message" => Both(B, v.ref, v.ref)
            BY <3>2 DEF Pointees, Both
        <3>4. ASSUME v.kind = "messages", NEW i \in DOMAIN v.elems
              PROVE  Both(B, v.elems[i], v.elems[i])
            <4>1. v.elems[i] # Nil => v.elems[i] \in Pointees(v)
                BY <3>4 DEF Pointees, Range
            <4> QED BY <3>2, <3>4, <4>1 DEF Both
        <3> QED BY <3>3, <3>4 DEF SameVal
    <2> QED BY <2>2 DEF SameContent
<1>3. PairsMessages(B, h, k)
    <2> SUFFICES \A x, y \in Ref : <<x, y>> \in B => SameContent(B, h, x, k, y)
        BY DEF PairsMessages
    <2> TAKE x, y \in Ref
    <2> HAVE <<x, y>> \in B
    <2>1. PICK z \in S : <<x, y>> = <<z, z>>
        OBVIOUS
    <2>2. x = z /\ y = z
        BY <2>1
    <2> HIDE DEF B
    <2> QED BY <1>2, <2>2
<1>4. \A x \in S : Both(B, x, x)
    BY DEF Both
<1> HIDE DEF B
<1> QED BY <1>1, <1>3, <1>4, SameTrees

\* What a call writes to the message it is at is in no tree below that message.
LEMMA TreesBelow ==
    ASSUME NEW h \in Heap, Sound(h), NEW r \in Allocated(h), NEW k,
           \A q \in Allocated(h) : q # r => k[q] = h[q]
    PROVE  \A c \in Children(h, r) : Tree(k, c) = Tree(h, c)
<1> DEFINE S == Reach(h, Children(h, r))
<1>1. Children(h, r) \subseteq Allocated(h)
    BY ChildExists DEF Children
<1>2. /\ S \subseteq Allocated(h) /\ Children(h, r) \subseteq S
      /\ \A y \in S : Children(h, y) \subseteq S
    BY <1>1, ReachCloses
<1>3. r \notin S
    BY NoCycles
<1> HIDE DEF S
<1>4. \A y \in S : k[y] = h[y]
    BY <1>2, <1>3
<1> QED BY <1>2, <1>4, SameMessagesSameTrees

\* The trees of a list with one more message.
LEMMA LongerTrees ==
    ASSUME NEW S, NEW s \in Seq(S), NEW c, NEW h, NEW k, NEW x,
           \A i \in DOMAIN s : Tree(k, s[i]) = Tree(h, s[i]), Tree(k, c) = Tree(h, x)
    PROVE  [i \in DOMAIN Append(s, c) |-> Tree(k, Append(s, c)[i])]
               = Append([i \in DOMAIN s |-> Tree(h, s[i])], Tree(h, x))
<1> DEFINE n == Len(s)
           t == [i \in DOMAIN s |-> Tree(h, s[i])]
           y == Tree(h, x)
           u == Append(s, c)
<1>1. n \in Nat /\ DOMAIN s = 1 .. n
    BY LenProperties
<1>2. s \in Seq(S \cup {c}) /\ c \in S \cup {c}
    BY SeqMonotonic
<1>3. DOMAIN u = 1 .. n + 1 /\ u[n + 1] = c /\ \A i \in 1 .. n : u[i] = s[i]
    BY <1>2, AppendProperties, LenProperties
<1>4. t \in Seq({t[i] : i \in 1 .. n} \cup {y}) /\ Len(t) = n
    <2> DEFINE T == {t[i] : i \in 1 .. n} \cup {y}
    <2>1. t \in [1 .. n -> T]
        BY <1>1
    <2> HIDE DEF t, T
    <2>2. t \in Seq(T)
        BY <1>1, <2>1, SeqDef
    <2>3. Len(t) = n
        BY <1>1, <2>1, <2>2, LenProperties
    <2> QED BY <2>2, <2>3 DEF T
<1>5. \A i \in 1 .. n : t[i] = Tree(h, s[i])
    BY <1>1
<1> DEFINE T == {t[i] : i \in 1 .. n} \cup {y}
<1>6. t \in Seq(T) /\ y \in T
    BY <1>4
<1> HIDE DEF t, y, u, T
<1>7. Append(t, y) \in Seq(T) /\ Len(Append(t, y)) = n + 1
      /\ Append(t, y)[n + 1] = y /\ \A i \in 1 .. n : Append(t, y)[i] = t[i]
    BY <1>4, <1>6, AppendProperties
<1>8. Append(t, y) = [i \in 1 .. n + 1 |-> Append(t, y)[i]]
    <2>1. Append(t, y) \in [1 .. n + 1 -> T]
        BY <1>7, LenProperties
    <2> QED BY <2>1
<1>9. ASSUME NEW i \in 1 .. n + 1
      PROVE  Tree(k, u[i]) = Append(t, y)[i]
    <2>1. CASE i = n + 1
        BY <1>3, <1>7, <2>1 DEF y
    <2>2. CASE i # n + 1
        <3>1. i \in 1 .. n
            BY <1>1, <2>2
        <3> QED BY <1>1, <1>3, <1>5, <1>7, <3>1
    <2> QED BY <2>1, <2>2
<1>10. [i \in DOMAIN u |-> Tree(k, u[i])] = Append(t, y)
    BY <1>3, <1>8, <1>9
<1> QED BY <1>10 DEF t, y, u

\* How many messages a schema can nest.
Depth == CHOOSE depth \in [Type -> 0 .. Cardinality(Type)] : \A t \in Type, f \in Field :
             Fields[t][f].type = "message" => depth[Fields[t][f].schema] < depth[t]

\* Schemas nest no schema in itself, and so have depths.
LEMMA DepthIs ==
    /\ \A t \in Type : Depth[t] \in Nat /\ Depth[t] =< Cardinality(Type)
    /\ \A t \in Type, f \in Field : lookupName(t, f).type = "message" =>
           lookupName(t, f).schema \in Type /\ Depth[lookupName(t, f).schema] < Depth[t]
<1> DEFINE IsDepth(depth) == \A t \in Type, f \in Field :
               Fields[t][f].type = "message" => depth[Fields[t][f].schema] < depth[t]
<1>1. \E depth \in [Type -> 0 .. Cardinality(Type)] : IsDepth(depth)
    BY SchemasAreFinite
<1>2. Depth = CHOOSE depth \in [Type -> 0 .. Cardinality(Type)] : IsDepth(depth)
    BY DEF Depth
<1>3. Depth \in [Type -> 0 .. Cardinality(Type)] /\ IsDepth(Depth)
    <2> HIDE DEF IsDepth
    <2> QED BY <1>1, <1>2, Zenon
<1>4. Cardinality(Type) \in Nat
    BY SchemasAreFinite, FS_CardinalityType
<1> QED BY <1>3, <1>4, HeapAssumption DEF lookupName

\* What a message has in a level depends on its children in the level below.
LEMMA SameBelow ==
    ASSUME NEW h \in Heap, Sound(h), NEW r \in Allocated(h), NEW s, NEW t,
           s[Nil] = t[Nil], \A c \in Children(h, r) : s[c] = t[c]
    PROVE  Node(h, s, r) = Node(h, t, r)
<1>1. ASSUME NEW f \in Field
      PROVE  WithTrees(s, h[r].vals[f]) = WithTrees(t, h[r].vals[f])
    <2> DEFINE v == h[r].vals[f]
    <2>1. v \in Val /\ (f \notin h[r].set => v = NilVal)
        BY SlotIs
    <2>2. f \in h[r].set => Pointees(v) \subseteq Children(h, r)
        BY DEF Children
    <2> SUFFICES WithTrees(s, v) = WithTrees(t, v)
        OBVIOUS
    <2> HIDE DEF v
    <2>3. CASE v.kind \notin {"message", "messages"}
        BY <2>3 DEF WithTrees
    <2>4. CASE v.kind \in {"message", "messages"}
        <3>1. \A c \in Pointees(v) : s[c] = t[c]
            BY <2>1, <2>2, <2>4 DEF NilVal
        <3>2. CASE v.kind = "message"
            BY <3>1, <3>2 DEF Pointees, WithTrees
        <3>3. CASE v.kind = "messages"
            <4>1. \A i \in DOMAIN v.elems : s[v.elems[i]] = t[v.elems[i]]
                BY <3>1, <3>3 DEF Pointees, Range
            <4>2. [i \in DOMAIN v.elems |-> s[v.elems[i]]] = [i \in DOMAIN v.elems |-> t[v.elems[i]]]
                BY <4>1
            <4> QED BY <3>3, <4>2 DEF WithTrees
        <3> QED BY <2>4, <3>2, <3>3
    <2> QED BY <2>3, <2>4
<1>2. [f \in Field |-> WithTrees(s, h[r].vals[f])] = [f \in Field |-> WithTrees(t, h[r].vals[f])]
    BY <1>1
<1> QED BY <1>2 DEF Node

\* No message has no levels.
LEMMA NilLevels ==
    ASSUME NEW h, NEW d \in Nat, d =< Cardinality(Type) + 1
    PROVE  Levels(h)[d][Nil] = Nil
<1>1. Cardinality(Type) + 1 \in Nat
    BY LevelsAre
<1>2. Levels(h)[0][Nil] = Nil
    BY NextLevel
<1>3. ASSUME d # 0
      PROVE  Levels(h)[d][Nil] = Nil
    <2>1. PICK e \in Nat : d = e + 1
        <3>1. d - 1 \in Nat /\ d = (d - 1) + 1
            BY <1>3
        <3> QED BY <3>1
    <2>2. Levels(h)[e + 1][Nil] = Node(h, Levels(h)[e], Nil)
        BY <2>1, NextLevel
    <2> QED BY <2>1, <2>2 DEF Node
<1> QED BY <1>2, <1>3

\* A message in another has a lesser depth than it.
LEMMA ChildIsDeeper ==
    ASSUME NEW h \in Heap, Sound(h), NEW r \in Allocated(h), NEW c \in Children(h, r)
    PROVE  c \in Allocated(h) /\ Depth[h[c].schema] < Depth[h[r].schema]
<1>1. PICK f \in h[r].set : c \in Pointees(h[r].vals[f])
    BY DEF Children
<1>2. c \in Allocated(h) /\ lookupName(h[r].schema, f).type = "message"
      /\ h[c].schema = lookupName(h[r].schema, f).schema
    BY <1>1, ChildExists
<1>3. h[r].schema \in Type /\ f \in Field
    BY <1>1, ObjectType DEF Allocated, Object
<1> QED BY <1>2, <1>3, DepthIs

\* Above its depth a message is the same in all levels.
LEMMA DeepLevels ==
    ASSUME NEW h \in Heap, Sound(h)
    PROVE  \A d \in Nat : d =< Cardinality(Type) =>
               \A r \in Allocated(h) :
                   Depth[h[r].schema] < d => Levels(h)[d + 1][r] = Levels(h)[d][r]
<1> DEFINE N == Cardinality(Type)
           P(d) == \A r \in Allocated(h) : Depth[h[r].schema] < d => Levels(h)[d + 1][r] = Levels(h)[d][r]
           S == {d \in Nat : d =< N => P(d)}
<1>1. N \in Nat
    BY SchemasAreFinite, FS_CardinalityType
<1>2. \A r \in Allocated(h) : r \in Ref /\ Depth[h[r].schema] \in Nat
    BY DepthIs, ObjectType DEF Allocated
<1>3. 0 \in S
    BY <1>2
<1>4. ASSUME NEW d \in Nat, d \in S
      PROVE  d + 1 \in S
    <2> SUFFICES ASSUME d + 1 =< N, NEW r \in Allocated(h), Depth[h[r].schema] < d + 1
                 PROVE  Levels(h)[(d + 1) + 1][r] = Levels(h)[d + 1][r]
        OBVIOUS
    <2>1. \A x \in Ref \cup {Nil} : /\ Levels(h)[(d + 1) + 1][x] = Node(h, Levels(h)[d + 1], x)
                                    /\ Levels(h)[d + 1][x] = Node(h, Levels(h)[d], x)
        <3>1. /\ d + 1 \in Nat /\ (d + 1) + 1 =< Cardinality(Type) + 1 /\ d + 1 =< Cardinality(Type) + 1
            BY <1>1
        <3> QED BY <3>1, NextLevel
    <2>2. \A c \in Children(h, r) : Levels(h)[d + 1][c] = Levels(h)[d][c]
        <3>1. \A c \in Children(h, r) : c \in Allocated(h) /\ Depth[h[c].schema] < Depth[h[r].schema]
            BY ChildIsDeeper
        <3>2. \A c \in Children(h, r) : Depth[h[c].schema] < d
            BY <1>2, <3>1
        <3>3. P(d)
            BY <1>1, <1>4
        <3> QED BY <3>1, <3>2, <3>3
    <2>3. Levels(h)[d + 1][Nil] = Levels(h)[d][Nil]
        BY <1>1, NilLevels
    <2>4. Node(h, Levels(h)[d + 1], r) = Node(h, Levels(h)[d], r)
        BY <2>2, <2>3, SameBelow
    <2> QED BY <1>2, <2>1, <2>4
<1> HIDE DEF S
<1>5. \A d \in Nat : d \in S
    BY <1>3, <1>4, NatSetInduction
<1> QED BY <1>5 DEF S

(* A tree goes down to the leaves: it is its root with the tree of every message in it. *)
THEOREM TreesAreWhole ==
    ASSUME NEW h \in Heap, Sound(h), NEW r \in Allocated(h)
    PROVE  Tree(h, r) = [schema |-> h[r].schema, set |-> h[r].set,
                         vals |-> [f \in Field |-> TreeOf(h, h[r].vals[f])]]
<1> DEFINE N == Cardinality(Type)
<1>1. N \in Nat /\ N =< N /\ N + 1 =< N + 1
    BY SchemasAreFinite, FS_CardinalityType
<1>2. r \in Ref /\ r # Nil
    BY HeapAssumption DEF Allocated
<1>3. Tree(h, r) = Node(h, Levels(h)[N], r)
    BY <1>1, <1>2, NextLevel DEF Tree
<1>4. \A c \in Children(h, r) : Levels(h)[N + 1][c] = Levels(h)[N][c]
    <2>1. \A c \in Children(h, r) : c \in Allocated(h) /\ Depth[h[c].schema] < Depth[h[r].schema]
        BY ChildIsDeeper
    <2>2. \A x \in Allocated(h) : Depth[h[x].schema] \in Nat /\ Depth[h[x].schema] =< N
        BY DepthIs, ObjectType DEF Allocated
    <2>3. \A c \in Children(h, r) : Depth[h[c].schema] < N
        BY <1>1, <2>1, <2>2
    <2> QED BY <1>1, <2>1, <2>3, DeepLevels
<1>5. Levels(h)[N + 1][Nil] = Levels(h)[N][Nil]
    BY <1>1, NilLevels
<1>6. Tree(h, r) = Node(h, Levels(h)[N + 1], r)
    BY <1>3, <1>4, <1>5, SameBelow
<1> QED BY <1>2, <1>6 DEF Node, TreeOf

-----------------------------------------------------------------------------
(* The messages on the way of a walk *)
\* The walk has come to a message, and before that to others.
OnMessages(h, m, p, j) == \A i \in 0 .. j :
    walked(h, m, p)[i].err = "nil" /\ walked(h, m, p)[i].msg # Nil

\* From a message the walk goes on to one below it.
LEMMA GoesToChild ==
    ASSUME NEW h \in Heap, Sound(h), NEW w, w.err = "nil",
           w.msg \in Allocated(h), w.schema = h[w.msg].schema,
           NEW seg \in Seg, goOn(h, w, seg).err = "nil", goOn(h, w, seg).msg # Nil
    PROVE  LET n == goOn(h, w, seg)
               fs == lookupName(w.schema, seg.field)
           IN  /\ seg.field \in h[w.msg].set /\ n.msg \in Pointees(h[w.msg].vals[seg.field])
               /\ n.msg \in Allocated(h) /\ n.schema = h[n.msg].schema
               /\ fs.type = "message" /\ n.schema = fs.schema
<1> DEFINE n == goOn(h, w, seg)
           f == seg.field
           fs == lookupName(w.schema, f)
           v == h[w.msg].vals[f]
<1>0. f \in Field /\ seg.idx \in Nat /\ w.msg # Nil
    BY HeapAssumption DEF Seg, Allocated
<1>1. /\ wayErr(h, w, seg) = "nil"
      /\ n = Place(nextMessage(h, w, seg), fs.schema)
    BY DEF goOn, Stopped
<1>2. fs.type = "message" /\ segErr(h, w, seg) = "nil"
    BY <1>1 DEF wayErr
<1>3. n.msg = nextMessage(h, w, seg) /\ n.schema = fs.schema
    BY <1>1 DEF Place
<1>4. f \in h[w.msg].set
    BY <1>0, <1>3 DEF nextMessage, IsPresent
<1>5. v \in Val /\ SlotFits(h, fs, v)
    BY <1>0, <1>4, SlotIs
<1>6. n.msg \in Pointees(v)
    <2>1. CASE seg.hasIdx
        <3>1. n.msg = v.elems[seg.idx + 1]
            BY <1>3, <1>4, <2>1, <1>0 DEF nextMessage, IsPresent
        <3>2. ~(seg.idx >= sliceLen(v))
            BY <1>0, <1>2, <1>4, <2>1 DEF segErr, IsPresent
        <3>3. v.kind = "messages"
            BY <1>0, <1>2, <1>5, <3>2 DEF sliceLen, SlotFits
        <3>4. v.elems \in Seq(Ref \cup {Nil})
            BY <1>5, <3>3 DEF Val, NilVal
        <3>5. seg.idx + 1 \in DOMAIN v.elems
            BY <1>0, <3>2, <3>3, <3>4, LenProperties DEF sliceLen
        <3>6. n.msg \in Range(v.elems) \ {Nil}
            BY <3>1, <3>5 DEF Range
        <3> QED BY <3>3, <3>6 DEF Pointees
    <2>2. CASE ~seg.hasIdx
        BY <1>0, <1>3, <1>4, <2>2 DEF nextMessage, IsPresent, Pointees
    <2> QED BY <2>1, <2>2
<1>7. n.msg \in Allocated(h) /\ h[n.msg].schema = fs.schema
    BY <1>4, <1>6, ChildExists
<1> QED BY <1>2, <1>3, <1>4, <1>6, <1>7

\* Every message on the way is above those after it.
LEMMA WayIs ==
    ASSUME NEW h \in Heap, Sound(h), NEW m \in Allocated(h),
           NEW p \in Seq(Seg), p # <<>>, NEW j \in 0 .. Len(p) - 1, OnMessages(h, m, p, j)
    PROVE  LET w == walked(h, m, p)
           IN  /\ \A i \in 0 .. j : w[i].msg \in Allocated(h) /\ w[i].schema = h[w[i].msg].schema
               /\ \A i \in 0 .. j : i # j => Depth[w[j].schema] < Depth[w[i].schema]
<1> DEFINE w == walked(h, m, p)
           Good(i) == w[i].msg \in Allocated(h) /\ w[i].schema = h[w[i].msg].schema
           Above(i) == \A l \in 0 .. i : l # i => Depth[w[i].schema] < Depth[w[l].schema]
           S == {i \in Nat : i =< j => (\A l \in 0 .. i : Good(l)) /\ Above(i)}
<1>0. Len(p) \in Nat /\ j \in Nat /\ j =< Len(p) - 1 /\ \A i \in 1 .. Len(p) : p[i] \in Seg
    BY LenProperties, EmptySeq, ElementOfSeq
<1>1. w[0] = Place(m, h[m].schema) /\ \A i \in 1 .. Len(p) - 1 : w[i] = goOn(h, w[i - 1], p[i])
    BY WalkedIs
<1>2. \A i \in 0 .. j : w[i].err = "nil" /\ w[i].msg # Nil
    BY DEF OnMessages
<1> HIDE DEF w
<1>3. 0 \in S
    BY <1>1 DEF Place
<1>4. ASSUME NEW i \in Nat, i \in S
      PROVE  i + 1 \in S
    <2> SUFFICES ASSUME i + 1 =< j
                 PROVE  (\A l \in 0 .. i + 1 : Good(l)) /\ Above(i + 1)
        OBVIOUS
    <2>1. (\A l \in 0 .. i : Good(l)) /\ Above(i) /\ i \in 0 .. i
          /\ i \in 0 .. j /\ i + 1 \in 0 .. j /\ i + 1 \in 1 .. Len(p) - 1
          /\ p[i + 1] \in Seg /\ (i + 1) - 1 = i
        BY <1>0, <1>4
    <2>2. w[i + 1] = goOn(h, w[i], p[i + 1])
        BY <1>1, <2>1
    <2>3. /\ w[i + 1].msg \in Allocated(h) /\ w[i + 1].schema = h[w[i + 1].msg].schema
          /\ lookupName(w[i].schema, p[i + 1].field).type = "message"
          /\ w[i + 1].schema = lookupName(w[i].schema, p[i + 1].field).schema
        BY <1>2, <2>1, <2>2, GoesToChild
    <2>4. \A l \in 0 .. i : w[l].schema \in Type
        BY <2>1, ObjectType DEF Allocated
    <2>5. \A l \in 0 .. i : Depth[w[l].schema] \in Nat
        BY <2>4, DepthIs
    <2>6. Depth[w[i + 1].schema] \in Nat /\ Depth[w[i + 1].schema] < Depth[w[i].schema]
        <3>1. p[i + 1].field \in Field /\ w[i].schema \in Type
            BY <2>1, <2>4 DEF Seg
        <3> QED BY <2>3, <3>1, DepthIs
    <2>7. \A l \in 0 .. i + 1 : l = i + 1 \/ l \in 0 .. i
        BY <1>4
    <2>8. Above(i + 1)
        <3> SUFFICES ASSUME NEW l \in 0 .. i + 1, l # i + 1
                     PROVE  Depth[w[i + 1].schema] < Depth[w[l].schema]
            OBVIOUS
        <3>1. l \in 0 .. i
            BY <2>7
        <3>2. l = i \/ Depth[w[i].schema] < Depth[w[l].schema]
            BY <2>1, <3>1
        <3> QED BY <2>1, <2>5, <2>6, <3>1, <3>2
    <2>9. \A l \in 0 .. i + 1 : Good(l)
        BY <2>1, <2>3, <2>7
    <2> QED BY <2>8, <2>9
<1>5. j \in S
    BY <1>0, <1>3, <1>4, NatSetInduction
<1>6. (\A l \in 0 .. j : Good(l)) /\ Above(j)
    BY <1>0, <1>5
<1> QED BY <1>6 DEF w

\* The walk reads only the messages on its way.
AgreeOnWay(h, k, m, p, j) ==
    /\ p \in Seq(Seg) /\ p # <<>> /\ j \in 0 .. Len(p) - 1
    /\ k[m].schema = h[m].schema
    /\ \A i \in 0 .. j : i # j => k[walked(h, m, p)[i].msg] = h[walked(h, m, p)[i].msg]

\* So it goes the same way in two heaps that agree on them.
LEMMA SameWay ==
    ASSUME NEW h, NEW k, NEW m, NEW p, NEW j, AgreeOnWay(h, k, m, p, j)
    PROVE  \A i \in 0 .. j : walked(k, m, p)[i] = walked(h, m, p)[i]
<1> DEFINE w == walked(h, m, p)
           u == walked(k, m, p)
           S == {i \in Nat : i =< j => u[i] = w[i]}
<1>1. p \in Seq(Seg) /\ p # <<>> /\ j \in 0 .. Len(p) - 1 /\ k[m].schema = h[m].schema
    BY DEF AgreeOnWay
<1>2. Len(p) \in Nat /\ j \in Nat /\ j =< Len(p) - 1
    BY <1>1, LenProperties, EmptySeq
<1>3. /\ w[0] = Place(m, h[m].schema) /\ \A i \in 1 .. Len(p) - 1 : w[i] = goOn(h, w[i - 1], p[i])
      /\ u[0] = Place(m, k[m].schema) /\ \A i \in 1 .. Len(p) - 1 : u[i] = goOn(k, u[i - 1], p[i])
    BY <1>1, WalkedIs
<1> HIDE DEF w, u
<1>4. 0 \in S
    BY <1>3, <1>1
<1>5. ASSUME NEW i \in Nat, i \in S
      PROVE  i + 1 \in S
    <2> SUFFICES ASSUME i + 1 =< j
                 PROVE  u[i + 1] = w[i + 1]
        OBVIOUS
    <2>1. u[i] = w[i] /\ i + 1 \in 1 .. Len(p) - 1 /\ (i + 1) - 1 = i /\ i \in 0 .. j /\ i # j
        BY <1>2, <1>5
    <2>2. k[w[i].msg] = h[w[i].msg]
        BY <2>1 DEF w, AgreeOnWay
    <2>3. goOn(k, w[i], p[i + 1]) = goOn(h, w[i], p[i + 1])
        BY <2>2 DEF goOn, wayErr, segErr, nextMessage, IsPresent
    <2> QED BY <1>3, <2>1, <2>3
<1> HIDE DEF S
<1>6. Nat \subseteq S
    BY <1>4, <1>5, NatSetInduction
<1>7. \A i \in 0 .. j : i \in S /\ i =< j
    BY <1>2, <1>6
<1> QED BY <1>7 DEF u, w, S

\* How far Get would be in the heap as it is.
here == walked(heap, call.recv, call.path)

\* A call that walks is where Get would be after it.  What it has written so far is in
\* messages on the way; a Clear writes nothing before it ends.
WayIsWritten == Running =>
    /\ call.op = "Clear" => heap = pre
    /\ pc = "verifyClearPath" => call.path # <<>>
    /\ Walking =>
        /\ ArgRefs(call.arg) \subseteq Allocated(pre)
        /\ IF call.path = <<>> THEN cur = call.recv /\ heap = pre
           ELSE /\ OnMessages(heap, call.recv, call.path, passed)
                /\ here[passed] = Place(cur, heap[cur].schema)
                /\ \A r \in Allocated(pre) :
                       heap[r] = pre[r] \/ \E i \in 0 .. passed - 1 : here[i].msg = r

\* What the walk has come by is above the message it is at.
LEMMA HereIs ==
    ASSUME ReadInv, WayIsWritten, Walking, call.path # <<>>
    PROVE  /\ call.recv \in Allocated(heap) /\ Allocated(pre) \subseteq Allocated(heap)
           /\ heap \in Heap /\ Sound(heap) /\ Owned(heap)
           /\ call.path \in Seq(Seg) /\ passed \in 0 .. Len(call.path) - 1 /\ Len(call.path) \in Nat
           /\ cur \in Allocated(heap) /\ here[passed] = Place(cur, heap[cur].schema)
           /\ OnMessages(heap, call.recv, call.path, passed)
           /\ \A i \in 0 .. passed : i # passed =>
                  /\ here[i].msg \in Allocated(heap) /\ here[i].msg # cur
                  /\ Depth[heap[cur].schema] < Depth[heap[here[i].msg].schema]
<1>1. /\ call.recv \in Allocated(heap) /\ Allocated(pre) \subseteq Allocated(heap)
      /\ heap \in Heap /\ Sound(heap) /\ Owned(heap) /\ cur \in Allocated(heap)
    BY DEF ReadInv, CallInv, PreExists, StoreInv, TypeOK, WalkExists, Walking
<1>2. call.path \in Seq(Seg) /\ passed \in 0 .. Len(call.path) - 1 /\ Len(call.path) \in Nat
    BY PlaceIs DEF Running
<1>3. here[passed] = Place(cur, heap[cur].schema) /\ OnMessages(heap, call.recv, call.path, passed)
    BY DEF WayIsWritten, Running
<1>4. /\ \A i \in 0 .. passed :
             here[i].msg \in Allocated(heap) /\ here[i].schema = heap[here[i].msg].schema
      /\ \A i \in 0 .. passed : i # passed => Depth[here[passed].schema] < Depth[here[i].schema]
    BY <1>1, <1>2, <1>3, WayIs DEF here
<1>5. here[passed].schema = heap[cur].schema
    BY <1>3 DEF Place
<1>6. heap[cur].schema \in Type /\ Depth[heap[cur].schema] \in Nat
    BY <1>1, ObjectType, DepthIs DEF Allocated
<1>7. ASSUME NEW i \in 0 .. passed, i # passed
      PROVE  Depth[heap[cur].schema] < Depth[heap[here[i].msg].schema] /\ here[i].msg # cur
    <2>1. Depth[heap[cur].schema] < Depth[heap[here[i].msg].schema]
        BY <1>4, <1>5, <1>7
    <2>2. ~(Depth[heap[cur].schema] < Depth[heap[cur].schema])
        BY <1>6
    <2> QED BY <2>1, <2>2
<1> QED BY <1>1, <1>2, <1>3, <1>4, <1>7

\* What is written to the message the walk is at, and to new ones, does not change its way.
LEMMA WayKept ==
    ASSUME ReadInv, WayIsWritten, Walking, call.path # <<>>, NEW k,
           \A q \in Allocated(heap) : q # cur => k[q] = heap[q], k[cur].schema = heap[cur].schema
    PROVE  \A i \in 0 .. passed : walked(k, call.recv, call.path)[i] = here[i]
<1>1. /\ call.recv \in Allocated(heap)
      /\ call.path \in Seq(Seg) /\ passed \in 0 .. Len(call.path) - 1
      /\ \A i \in 0 .. passed : i # passed => here[i].msg \in Allocated(heap) /\ here[i].msg # cur
    BY HereIs
<1>2. k[call.recv].schema = heap[call.recv].schema
    BY <1>1
<1>3. \A i \in 0 .. passed : i # passed => k[here[i].msg] = heap[here[i].msg]
    BY <1>1
<1> DEFINE p == call.path
           m == call.recv
           j == passed
<1>4. AgreeOnWay(heap, k, m, p, j)
    BY <1>1, <1>2, <1>3 DEF here, AgreeOnWay
<1> HIDE DEF p, m, j
<1>5. \A i \in 0 .. j : walked(k, m, p)[i] = walked(heap, m, p)[i]
    BY <1>4, SameWay
<1> QED BY <1>5 DEF here, p, m, j

-----------------------------------------------------------------------------
(* A walk stays on its way *)
\* The walk goes on to the message that it has found or made.
LEMMA WayGoesOn ==
    ASSUME ReadInv, WayIsWritten, Walking, call.path # <<>>, Len(segs) > 1,
           Walking', segs' = Tail(segs), call' = call, pre' = pre,
           \A q \in Allocated(heap) : q # cur => heap'[q] = heap[q],
           heap'[cur].schema = heap[cur].schema,
           call.op = "Clear" => heap' = heap,
           goOn(heap', Place(cur, heap[cur].schema), Head(segs)) = Place(cur', heap'[cur'].schema),
           cur' # Nil
    PROVE  WayIsWritten'
<1> DEFINE p == call.path
           m == call.recv
           j == passed
           u == walked(heap', m, p)
<1>1. /\ p \in Seq(Seg) /\ p # <<>> /\ Len(p) \in Nat /\ segs \in Seq(Seg) /\ segs # <<>>
      /\ Len(segs) \in Nat /\ j \in 0 .. Len(p) - 2 /\ Head(segs) = p[j + 1]
    BY PlaceIs, EmptySeq DEF Running
<1>2. passed' = j + 1
    <2>1. Len(segs') = Len(segs) - 1
        BY <1>1, HeadTailProperties
    <2>2. \A n, k \in Nat : n - (k - 1) = n - k + 1
        OBVIOUS
    <2> QED BY <1>1, <2>1, <2>2 DEF passed
<1>3. \A i \in 0 .. j : u[i] = here[i]
    BY WayKept
<1>4. here[j] = Place(cur, heap[cur].schema) /\ OnMessages(heap, m, p, j)
    BY HereIs
<1>5. j + 1 \in 1 .. Len(p) - 1 /\ (j + 1) - 1 = j /\ j \in 0 .. j
    BY <1>1
<1>6. u[j + 1] = Place(cur', heap'[cur'].schema)
    <2> DEFINE k == heap'
    <2> HIDE DEF p, j, m, k
    <2>1. p \in Seq(Seg) /\ p # <<>> /\ j + 1 \in 1 .. Len(p) - 1
        BY <1>1, <1>5
    <2>2. walked(k, m, p)[j + 1] = goOn(k, walked(k, m, p)[(j + 1) - 1], p[j + 1])
        BY <2>1, WalkedNext
    <2>3. u[j + 1] = goOn(heap', u[j], p[j + 1])
        BY <1>5, <2>2 DEF k
    <2> QED BY <1>1, <1>3, <1>4, <1>5, <2>3
<1>7. here' = u
    BY DEF here
<1>8. OnMessages(heap', m, p, j + 1)
    <2> SUFFICES ASSUME NEW i \in 0 .. j + 1
                 PROVE  u[i].err = "nil" /\ u[i].msg # Nil
        BY DEF OnMessages
    <2>1. i = j + 1 \/ i \in 0 .. j
        BY <1>1
    <2>2. CASE i = j + 1
        BY <1>6, <2>2 DEF Place
    <2>3. CASE i \in 0 .. j
        BY <1>3, <1>4, <2>3 DEF OnMessages, here
    <2> QED BY <2>1, <2>2, <2>3
<1>9. ASSUME NEW r \in Allocated(pre)
      PROVE  heap'[r] = pre[r] \/ \E i \in 0 .. (j + 1) - 1 : u[i].msg = r
    <2>1. CASE r = cur
        BY <1>3, <1>4, <1>5, <2>1 DEF Place
    <2>2. CASE r # cur
        <3>1. heap'[r] = heap[r]
            BY <2>2, HereIs
        <3>2. heap[r] = pre[r] \/ \E i \in 0 .. j - 1 : here[i].msg = r
            BY DEF WayIsWritten, Running
        <3>3. \A i \in 0 .. j - 1 : i \in 0 .. (j + 1) - 1 /\ i \in 0 .. j
            BY <1>1
        <3> QED BY <1>3, <3>1, <3>2, <3>3
    <2> QED BY <2>1, <2>2
<1>10. call.op = "Clear" => heap' = pre
    BY DEF WayIsWritten, Running
<1>11. ArgRefs(call.arg) \subseteq Allocated(pre)
    BY DEF WayIsWritten, Running
<1>12. OnMessages(heap, call.recv, call.path, passed)'
    <2>1. OnMessages(heap', call'.recv, call'.path, passed')
        BY <1>2, <1>8
    <2> QED BY <2>1 DEF OnMessages
<1>13. \A r \in Allocated(pre') : heap'[r] = pre'[r] \/ \E i \in 0 .. passed' - 1 : here'[i].msg = r
    BY <1>2, <1>7, <1>9
<1>14. here'[passed'] = Place(cur', heap'[cur'].schema)
    BY <1>2, <1>6, <1>7
<1> HIDE DEF u, j
<1>15. Walking' => pc' # "verifyClearPath"
    BY DEF Walking
<1> QED BY <1>10, <1>11, <1>12, <1>13, <1>14, <1>15 DEF WayIsWritten

LEMMA WayGoesTo ==
    ASSUME ReadInv, WayIsWritten, call.path # <<>>, NEW r, GoesTo(r)
    PROVE  WayIsWritten'
<1>1. /\ Walking /\ Len(segs) > 1 /\ WayOut = "nil" /\ Advance(r) /\ heap' = heap
      /\ Head(segs).field \in heap[cur].set /\ r # Nil
      /\ r = nextMessage(pre, place, Head(segs))
      /\ heap[r].schema = lookupName(heap[cur].schema, Head(segs).field).schema
    BY DEF GoesTo
<1>2. heap = pre /\ cur = place.msg /\ place.schema = heap[cur].schema
    BY <1>1 DEF ReadInv, WalkIsRead, Running
<1>3. wayErr(pre, place, Head(segs)) = "nil"
    BY <1>1, Zenon DEF WayOut
<1> DEFINE w == Place(cur, heap[cur].schema)
<1>4. w.msg = place.msg /\ w.schema = place.schema /\ w.err = "nil"
    BY <1>2 DEF Place
<1> HIDE DEF w
<1>5. wayErr(heap, w, Head(segs)) = "nil" /\ nextMessage(heap, w, Head(segs)) = r
    BY <1>1, <1>2, <1>3, <1>4 DEF wayErr, segErr, nextMessage
<1>6. goOn(heap, w, Head(segs)) = Place(r, heap[r].schema)
    BY <1>1, <1>2, <1>4, <1>5 DEF goOn
<1>7. segs' = Tail(segs) /\ call' = call /\ pre' = pre /\ cur' = r /\ Walking'
    BY <1>1 DEF Advance, Walking
<1> QED BY <1>1, <1>6, <1>7, WayGoesOn DEF w

LEMMA WayCreated ==
    ASSUME ReadInv, WayIsWritten, DescendCreate
    PROVE  WayIsWritten'
<1> DEFINE f == Head(segs).field
           t == lookupName(heap[cur].schema, f).schema
<1>1. Walking /\ Len(segs) > 1 /\ ~Head(segs).hasIdx /\ Descending /\ call.op # "Clear"
    BY DEF DescendCreate, Descending, Walking, ReadInv, CallInv, PathLeft
<1>0. call.path # <<>>
    <2>1. call.path \in Seq(Seg) /\ segs \in Seq(Seg) /\ Len(segs) =< Len(call.path)
        BY <1>1, MessageAssumption DEF ReadInv, CallInv, PathLeft, StoreInv, TypeOK, PreExists, Walking, Call
    <2> QED BY <1>1, <2>1, LenProperties, EmptySeq
<1>2. PICK nm \in Unused(heap) :
          /\ heap' = Put([heap EXCEPT ![nm] = newMessage(t)], cur, f, MessageVal(nm))
          /\ Advance(nm)
    BY DEF DescendCreate
<1>3. cur \in Allocated(heap) /\ DOMAIN heap = Ref /\ f \in Field
    BY <1>1, NextSegment DEF ReadInv, CallInv, StoreInv, TypeOK, Heap
<1>4. nm \in Ref /\ nm # cur /\ nm \notin Allocated(heap) /\ nm # Nil
    BY <1>3, HeapAssumption DEF Unused
<1> DEFINE h == [heap EXCEPT ![nm] = newMessage(t)]
<1>5. DOMAIN h = Ref /\ \A q \in Allocated(heap) : h[q] = heap[q]
    BY <1>3, <1>4
<1>6. /\ ChangesOnly(heap', cur, f)
      /\ heap'[cur].vals[f] = MessageVal(nm) /\ f \in heap'[cur].set
      /\ heap'[nm].schema = t
    <2> HIDE DEF h, f, t
    <2>1. heap' = Put(h, cur, f, MessageVal(nm))
        BY <1>2 DEF h, f, t
    <2>2. h[nm] = newMessage(t)
        BY <1>3, <1>4 DEF h
    <2>3. heap'[nm].schema = t
        BY <1>4, <1>5, <2>1, <2>2 DEF Put, newMessage
    <2>4. StoreInv
        BY DEF ReadInv, CallInv
    <2> QED BY <1>3, <1>5, <2>1, <2>3, <2>4, PutChanges
<1>7. /\ lookupName(heap[cur].schema, f).type = "message"
    <2>1. descendErr(cur, Head(segs)) = "nil"
        BY DEF DescendCreate
    <2> QED BY <1>1, <2>1 DEF descendErr
<1> DEFINE w == Place(cur, heap[cur].schema)
<1>8. w.msg = cur /\ w.schema = heap[cur].schema /\ w.err = "nil"
    BY DEF Place
<1> HIDE DEF w, t, h
<1>9. wayErr(heap', w, Head(segs)) = "nil"
    BY <1>1, <1>7, <1>8 DEF wayErr, segErr
<1>10. nextMessage(heap', w, Head(segs)) = nm
    <2>1. cur # Nil
        BY <1>3, HeapAssumption DEF Allocated
    <2>2. heap'[cur].vals[f].kind = "message" /\ heap'[cur].vals[f].ref = nm
        BY <1>6 DEF MessageVal
    <2> QED BY <1>1, <1>6, <1>8, <2>1, <2>2 DEF nextMessage, IsPresent
<1>11. goOn(heap', w, Head(segs)) = Place(nm, heap'[nm].schema)
    BY <1>6, <1>8, <1>9, <1>10 DEF goOn, t
<1>12. segs' = Tail(segs) /\ call' = call /\ pre' = pre /\ cur' = nm /\ Walking'
    BY <1>1, <1>2 DEF Advance, Walking
<1>13. /\ \A q \in Allocated(heap) : q # cur => heap'[q] = heap[q]
       /\ heap'[cur].schema = heap[cur].schema
    BY <1>6 DEF ChangesOnly
<1> QED BY <1>0, <1>1, <1>4, <1>11, <1>12, <1>13, WayGoesOn DEF w

LEMMA WalkWrites ==
    ASSUME ReadInv, WayIsWritten, Walk
    PROVE  WayIsWritten'
<1>1. ASSUME Walking, Len(segs) > 1
      PROVE  call.path # <<>>
    <2>1. call.path \in Seq(Seg) /\ segs \in Seq(Seg) /\ Len(segs) =< Len(call.path)
        BY <1>1, MessageAssumption
        DEF ReadInv, CallInv, PathLeft, StoreInv, TypeOK, PreExists, Walking, Call
    <2> QED BY <1>1, <2>1, LenProperties, EmptySeq
<1>2. CASE DescendFail
    BY <1>2 DEF DescendFail, Done, Goto, WayIsWritten, Running, Walking
<1>3. CASE DescendCreate
    BY <1>3, WayCreated
<1>4. CASE DescendElement \/ ClearInElement \/ DescendMessage \/ ClearInMessage
    <2>1. Walking /\ Len(segs) > 1
        BY <1>4 DEF DescendElement, ClearInElement, DescendMessage, ClearInMessage, Descending,
                    Clearing, Walking
    <2> QED BY <1>1, <1>4, <2>1, GoesToElement, GoesToMessage, WayGoesTo
<1>5. CASE ClearInUnset
    <2>1. Walking /\ Len(segs) > 1 /\ pc' = "verifyClearPath" /\ UNCHANGED <<heap, call, pre>>
          /\ call.op = "Clear"
        BY <1>5 DEF ClearInUnset, Clearing, Walking, Goto, ReadInv, CallInv, PathLeft
    <2> QED BY <1>1, <2>1 DEF WayIsWritten, Running, Walking
<1>6. CASE VerifyNext
    <2>1. pc = "verifyClearPath" /\ UNCHANGED <<heap, call, pre, pc>>
        BY <1>6 DEF VerifyNext
    <2> QED BY <2>1 DEF WayIsWritten, Running, Walking
<1> QED BY <1>2, <1>3, <1>4, <1>5, <1>6 DEF Walk

\* The walk has written to no message in a tree that is nested less deep than where it is.
LEMMA ArgumentKept ==
    ASSUME ReadInv, WayIsWritten, Walking, call.path # <<>>,
           NEW x \in Allocated(pre), Depth[heap[x].schema] < Depth[heap[cur].schema]
    PROVE  \A y \in Reach(heap, {x}) : y \in Allocated(pre) /\ heap[y] = pre[y]
<1> DEFINE S == {y \in Allocated(pre) : Depth[heap[y].schema] < Depth[heap[cur].schema]}
<1>1. /\ Allocated(pre) \subseteq Allocated(heap) /\ cur \in Allocated(heap)
      /\ heap \in Heap /\ Sound(heap)
      /\ passed \in Nat
      /\ \A i \in 0 .. passed : i # passed => Depth[heap[cur].schema] < Depth[heap[here[i].msg].schema]
    BY HereIs
<1>2. pre \in Heap /\ Sound(pre)
    BY DEF ReadInv, CallInv, StoreInv, TypeOK, PreExists, Walking
<1>3. \A y \in Allocated(heap) : heap[y].schema \in Type /\ Depth[heap[y].schema] \in Nat
    BY <1>1, ObjectType, DepthIs DEF Allocated
<1>4. ASSUME NEW y \in S
      PROVE  heap[y] = pre[y]
    <2>1. heap[y] = pre[y] \/ \E i \in 0 .. passed - 1 : here[i].msg = y
        BY DEF WayIsWritten, Running
    <2>2. ASSUME NEW i \in 0 .. passed - 1, here[i].msg = y
          PROVE  FALSE
        <3>1. i \in 0 .. passed /\ i # passed
            BY <1>1
        <3>2. /\ Depth[heap[cur].schema] < Depth[heap[y].schema]
              /\ Depth[heap[y].schema] < Depth[heap[cur].schema]
            BY <1>1, <2>2, <3>1
        <3> QED BY <1>1, <1>3, <3>2
    <2> QED BY <2>1, <2>2
<1>5. ASSUME NEW y \in S, NEW c \in Children(heap, y)
      PROVE  c \in S
    <2>1. y \in Allocated(heap) /\ y \in Allocated(pre)
        BY <1>1
    <2>2. PICK f \in heap[y].set : c \in Pointees(heap[y].vals[f])
        BY DEF Children
    <2>3. /\ c \in Allocated(heap)
          /\ lookupName(heap[y].schema, f).type = "message"
          /\ heap[c].schema = lookupName(heap[y].schema, f).schema
        BY <1>1, <2>1, <2>2, ChildExists
    <2>4. f \in pre[y].set /\ c \in Pointees(pre[y].vals[f])
        BY <1>4, <2>2
    <2>5. c \in Allocated(pre)
        BY <1>2, <2>1, <2>4, ChildExists
    <2>6. f \in Field
        BY <1>1, <2>1, <2>2, ObjectType DEF Allocated
    <2>7. Depth[heap[c].schema] < Depth[heap[y].schema]
        BY <1>3, <2>1, <2>3, <2>6, DepthIs
    <2> QED BY <1>1, <1>3, <2>1, <2>3, <2>5, <2>7
<1>6. x \in S /\ S \subseteq Allocated(heap) /\ \A y \in S : Children(heap, y) \subseteq S
    BY <1>1, <1>5
<1> HIDE DEF S
<1>7. Reach(heap, {x}) \subseteq S
    BY <1>1, <1>6, ReachCloses
<1> QED BY <1>4, <1>7 DEF S

-----------------------------------------------------------------------------
(* What is read back *)
\* The kinds of write, by what the next read should see.
LEMMA UnsetIsRead ==
    ASSUME call' = call, call.op = "Clear" \/ (call.op = "Set" /\ call.arg = NilVal),
           LET now == Get(heap', call.recv, call.path)
           IN  IF call.path = <<>> THEN heap'[call.recv].set = {}
               ELSE IF call.path[Len(call.path)].hasIdx THEN now.isSet /\ now.val.ref = Nil
               ELSE ~now.isSet
    PROVE  WritesAreRead'
BY DEF WritesAreRead

LEMMA SelfIsRead ==
    ASSUME call' = call, pre' = pre, call.op = "Set", call.path = <<>>, call.arg # NilVal,
           RepeatedHoldsSlice(pre) /\ call.arg.ref # call.recv =>
               TreeOf(heap', Get(heap', call.recv, call.path).val) = Stored(call.arg)
    PROVE  WritesAreRead'
BY DEF WritesAreRead, Stored, RepeatedHoldsSlice

LEMMA ValueIsRead ==
    ASSUME call' = call, pre' = pre, cur' = cur,
           call.op = "Set", call.path # <<>>, call.arg # NilVal,
           heap'[cur].schema = heap[cur].schema, last = call.path[Len(call.path)],
           RepeatedHoldsSlice(pre) =>
               TreeOf(heap', Get(heap', call.recv, call.path).val)
                   = IF lastSchema.repeated /\ ~last.hasIdx
                     THEN StoredSlice(lastSchema, call.arg) ELSE Stored(call.arg)
    PROVE  WritesAreRead'
<1> DEFINE fs == lookupName(heap'[cur].schema, call.path[Len(call.path)].field)
           seen == TreeOf(heap', Get(heap', call.recv, call.path).val)
<1>1. fs = lastSchema
    BY DEF lastSchema
<1>2. RepeatedHoldsSlice(pre) => seen = IF fs.repeated /\ ~call.path[Len(call.path)].hasIdx
                                        THEN StoredSlice(fs, call.arg) ELSE Stored(call.arg)
    BY <1>1
<1> HIDE DEF fs, seen
<1> QED BY <1>2 DEF WritesAreRead, Stored, StoredSlice, RepeatedHoldsSlice, fs, seen

LEMMA AppendIsRead ==
    ASSUME call' = call, pre' = pre, call.op = "Append", call.arg # NilVal,
           RepeatedHoldsSlice(pre) =>
               TreeOf(heap', Get(heap', call.recv, call.path).val)
                   = Longer(Get(pre, call.recv, call.path).val, call.arg)
    PROVE  WritesAreRead'
BY DEF WritesAreRead, Longer, RepeatedHoldsSlice

LEMMA FailIsRead ==
    ASSUME pc' # "done" \/ err' # "nil"
    PROVE  WritesAreRead'
BY DEF WritesAreRead

\* Get finds the slot that the path names where the call left it.
LEMMA ReadBack ==
    ASSUME ReadInv, WayIsWritten, Walking, call.path # <<>>, Len(segs) = 1,
           ChangesOnly(heap', cur, last.field), lastSchema.type # "none"
    PROVE  LET now == Get(heap', call.recv, call.path)
               v == heap'[cur].vals[last.field]
           IN  /\ last = call.path[Len(call.path)]
               /\ ~last.hasIdx => now = IF last.field \in heap'[cur].set THEN Found(v) ELSE NotSet
               /\ last.hasIdx /\ lastSchema.repeated /\ last.field \in heap'[cur].set
                  /\ ~(last.idx >= sliceLen(v)) => now = elementValue(v, last.idx)
<1> DEFINE k == heap'
           p == call.path
           m == call.recv
           w == Place(cur, heap[cur].schema)
           j == passed
<1>1. /\ p \in Seq(Seg) /\ p # <<>> /\ Len(p) \in Nat /\ passed = Len(p) - 1 /\ passed \in 0 .. Len(p) - 1
      /\ Head(segs) = p[passed + 1] /\ Head(segs) = last
    BY PlaceIs DEF Running
<1>2. last = p[Len(p)] /\ passed = Len(p) - 1
    <2>1. passed + 1 = Len(p)
        BY <1>1
    <2> QED BY <1>1, <2>1
<1>3. /\ \A q \in Allocated(heap) : q # cur => k[q] = heap[q]
      /\ k[cur].schema = heap[cur].schema
    BY DEF ChangesOnly
<1>4. cur \in Allocated(heap) /\ here[passed] = Place(cur, heap[cur].schema)
      /\ OnMessages(heap, call.recv, call.path, passed)
    BY HereIs
<1>5. cur # Nil
    BY <1>4, HeapAssumption DEF Allocated
<1> HIDE DEF k
<1>6. \A i \in 0 .. passed : walked(k, m, p)[i] = here[i]
    BY <1>3, WayKept
<1>7. walked(k, m, p)[Len(p) - 1] = w /\ IsAt(k, m, p, Len(p) - 1)
    <2>1. passed \in 0 .. passed /\ \A i \in 1 .. passed : i \in 0 .. passed
        BY <1>1
    <2>2. walked(k, m, p)[passed] = w
        BY <1>4, <1>6, <2>1
    <2>3. IsAt(k, m, p, passed)
        BY <1>4, <1>6, <2>1 DEF IsAt, OnMessages, here
    <2> HIDE DEF w
    <2> QED BY <1>2, <2>2, <2>3
<1> HIDE DEF p, m, j
<1>8. Get(k, m, p) = endValue(k, w, p[Len(p)])
    BY <1>1, <1>7, ReadEnds
<1>9. Get(k, m, p) = endValue(k, w, last)
    BY <1>2, <1>8
<1>10. w.msg = cur /\ w.schema = heap[cur].schema
    BY DEF Place
<1> HIDE DEF w
<1>11. lookupName(w.schema, last.field) = lastSchema
    BY <1>10 DEF lastSchema
<1>12. IsPresent(k, w.msg, last.field) <=> last.field \in k[cur].set
    BY <1>5, <1>10 DEF IsPresent
<1>13. ~last.hasIdx => segErr(k, w, last) = "nil"
    BY <1>11 DEF segErr
<1>14. last.hasIdx /\ lastSchema.repeated /\ last.field \in k[cur].set
       /\ ~(last.idx >= sliceLen(k[cur].vals[last.field])) => segErr(k, w, last) = "nil"
    BY <1>10, <1>11, <1>12 DEF segErr
<1> QED BY <1>2, <1>9, <1>10, <1>12, <1>13, <1>14 DEF endValue, k, p, m

\* Before the call it found what the call has found.
LEMMA ReadBefore ==
    ASSUME ReadInv, Running, call.path # <<>>, Len(segs) = 1
    PROVE  /\ Get(pre, call.recv, call.path) = endValue(pre, place, last)
           /\ last = call.path[Len(call.path)]
<1>1. /\ call.path \in Seq(Seg) /\ passed = Len(call.path) - 1 /\ Len(call.path) \in Nat
      /\ last = call.path[passed + 1]
      /\ IsAt(pre, call.recv, call.path, passed)
    BY PlaceIs
<1>2. passed + 1 = Len(call.path)
    BY <1>1
<1> QED BY <1>1, <1>2, ReadEnds DEF place

-----------------------------------------------------------------------------
(* The copies that a call stores have the trees of its argument *)
LEMMA EmptyReach ==
    ASSUME NEW h \in Heap, Sound(h)
    PROVE  Reach(h, {}) = {}
<1>1. {} \in SUBSET Allocated(h) /\ {} \subseteq {} /\ \A r \in {} : Children(h, r) \subseteq {}
    OBVIOUS
<1>2. Reach(h, {}) \subseteq {}
    BY <1>1, ReachCloses
<1> QED BY <1>2

\* The copies that a slot is filled with have the trees that their sources had before the call.
LEMMA StoredTrees ==
    ASSUME ReadInv, WayIsWritten, Walking, call.path # <<>>, Len(segs) = 1, RepeatedHoldsSlice(pre),
           lastSchema.type = "message",
           NEW n \in Nat, NEW roots \in [1 .. n -> Allocated(heap) \cup {Nil}],
           \A i \in 1 .. n : roots[i] # Nil =>
               roots[i] \in Allocated(pre) /\ heap[roots[i]].schema = lastSchema.schema,
           HasRoomFor(heap, CopyPairs(heap, roots)),
           NEW v,
           heap' = Put(WithCopies(heap, Placement(heap, CopyPairs(heap, roots))), cur, last.field, v)
    PROVE  \A i \in 1 .. n :
               Tree(heap', Clone(Placement(heap, CopyPairs(heap, roots)), i, roots[i])) = Tree(pre, roots[i])
<1> DEFINE D == CopyPairs(heap, roots)
           g == Placement(heap, D)
           k == heap'
<1>1. /\ heap \in Heap /\ Sound(heap) /\ cur \in Allocated(heap)
    BY HereIs
<1>2. g \in [D -> Unused(heap)] /\ IsInjective(g)
    BY PlacementIs
<1>3. /\ D \in SUBSET (Nat \X Allocated(heap))
      /\ \A d \in D : \A c \in Children(heap, d[2]) : <<d[1], c>> \in D
      /\ \A i \in 1 .. n : roots[i] # Nil => <<i, roots[i]>> \in D
    BY <1>1, CopyPairsClose
<1>4. /\ \A d \in D : g[d] \in Ref /\ g[d] # cur
    BY <1>1, <1>2 DEF Unused
<1>5. \A d \in D : k[g[d]] = WithCopies(heap, g)[g[d]]
    <2> HIDE DEF g, D
    <2>1. DOMAIN WithCopies(heap, g) = Ref
        BY DEF WithCopies
    <2>2. k = Put(WithCopies(heap, g), cur, last.field, v)
        BY DEF g, D
    <2> HIDE DEF k
    <2> QED BY <1>4, <2>1, <2>2 DEF Put
<1>6. ASSUME NEW d \in D
      PROVE  pre[d[2]] = heap[d[2]] /\ HoldsSlices(heap, d[2])
    <2>1. PICK i \in 1 .. n : \E x \in Reach(heap, {roots[i]} \ {Nil}) : d = <<i, x>>
        BY DEF CopyPairs
    <2>2. d[2] \in Reach(heap, {roots[i]} \ {Nil})
        BY <2>1
    <2>3. roots[i] # Nil
        <3>1. {Nil} \ {Nil} = {}
            OBVIOUS
        <3> QED BY <1>1, <2>2, <3>1, EmptyReach
    <2>4. {roots[i]} \ {Nil} = {roots[i]}
        BY <2>3
    <2>5. d[2] \in Reach(heap, {roots[i]})
        BY <2>2, <2>4
    <2>6. roots[i] \in Allocated(pre) /\ heap[roots[i]].schema = lastSchema.schema
        BY <2>3
    <2>7. Depth[heap[roots[i]].schema] < Depth[heap[cur].schema]
        <3>1. heap[cur].schema \in Type
            BY <1>1, ObjectType DEF Allocated
        <3>2. last.field \in Field
            BY LastSegment DEF ReadInv
        <3> QED BY <2>6, <3>1, <3>2, DepthIs DEF lastSchema
    <2>8. d[2] \in Allocated(pre) /\ heap[d[2]] = pre[d[2]]
        BY <2>5, <2>6, <2>7, ArgumentKept
    <2> HIDE DEF D
    <2>9. HoldsSlices(pre, d[2])
        BY <2>8 DEF RepeatedHoldsSlice, HoldsSlices
    <2> QED BY <2>8, <2>9 DEF HoldsSlices
<1>7. \A i, x : x = Nil \/ <<i, x>> \in D => Tree(k, Clone(g, i, x)) = Tree(pre, x)
    <2> DEFINE o == pre
    <2>1. (\A d \in D : o[d[2]] = heap[d[2]]) /\ (\A d \in D : HoldsSlices(heap, d[2]))
        BY <1>6
    <2> HIDE DEF D, g, k, o
    <2>2. \A i, x : x = Nil \/ <<i, x>> \in D => Tree(k, Clone(g, i, x)) = Tree(o, x)
        BY <1>1, <1>2, <1>3, <1>5, <2>1, CopiesAreSame
    <2> QED BY <2>2 DEF o
<1> QED BY <1>3, <1>7

-----------------------------------------------------------------------------
(* What the end of a call stores is what Get finds *)
\* What Set, Append and Clear store at the end of the path is what Get finds.
LEMMA EndIs ==
    ASSUME ReadInv, Walking, Len(segs) = 1
    PROVE  /\ AtLast /\ StoreInv /\ CallInv /\ call.path # <<>> /\ Running /\ pc = call.op
           /\ last = call.path[Len(call.path)]
           /\ lastSchema.type # "none" => lastSchema.type \in {"scalar", "message"}
<1>1. AtLast /\ StoreInv /\ CallInv /\ Running /\ pc = call.op
    BY EndIsAtLast DEF ReadInv, CallInv, Walking, Running, PathLeft
<1>2. Len(call.path) >= 1 /\ last = call.path[Len(call.path)]
    BY <1>1, TargetIsLast
<1>3. heap[cur].schema \in Type /\ last.field \in Field
    BY <1>1, ObjectType DEF AtLast, StoreInv, TypeOK, Allocated
<1>4. lastSchema.type # "none" => lastSchema.type \in {"scalar", "message"}
    BY <1>3, HeapAssumption DEF lastSchema, lookupName, FieldSchema, NoField
<1> QED BY <1>1, <1>2, <1>4, EmptySeq

\* A value that is stored in the last field.
LEMMA StoredIsRead ==
    ASSUME ReadInv, WayIsWritten, Walking, Len(segs) = 1, lastSchema.type # "none", NEW v,
           \/ heap' = Put(heap, cur, last.field, v)
           \/ \E D : /\ HasRoomFor(heap, D)
                     /\ heap' = Put(WithCopies(heap, Placement(heap, D)), cur, last.field, v)
    PROVE  /\ ChangesOnly(heap', cur, last.field) /\ heap'[cur].schema = heap[cur].schema
           /\ ~last.hasIdx => Get(heap', call.recv, call.path) = Found(v)
           /\ last.hasIdx /\ lastSchema.repeated /\ ~(last.idx >= sliceLen(v)) =>
                  Get(heap', call.recv, call.path) = elementValue(v, last.idx)
<1>1. AtLast /\ StoreInv /\ call.path # <<>>
    BY EndIs
<1>2. cur \in Allocated(heap) /\ last.field \in Field
    BY <1>1 DEF AtLast
<1>3. ChangesOnly(heap', cur, last.field) /\ heap'[cur].vals[last.field] = v /\ last.field \in heap'[cur].set
    BY <1>1, <1>2, StoreChanges
<1>4. heap'[cur].schema = heap[cur].schema
    BY <1>3 DEF ChangesOnly
<1> QED BY <1>1, <1>3, <1>4, ReadBack

\* A field that is cleared.
LEMMA ClearedIsRead ==
    ASSUME ReadInv, WayIsWritten, Walking, Len(segs) = 1, lastSchema.type # "none", ~last.hasIdx,
           heap' = Unset(heap, cur, last.field)
    PROVE  Get(heap', call.recv, call.path) = NotSet
<1>1. AtLast /\ StoreInv /\ call.path # <<>>
    BY EndIs
<1>2. cur \in Allocated(heap) /\ last.field \in Field /\ heap \in Heap
    BY <1>1 DEF AtLast, StoreInv, TypeOK
<1>3. ChangesOnly(heap', cur, last.field)
    BY <1>1, <1>2, UnsetChanges
<1>4. last.field \notin heap'[cur].set
    BY <1>2 DEF Unset, Heap, Allocated
<1> QED BY <1>1, <1>3, <1>4, ReadBack

\* Get finds an element of the list.
LEMMA ElementIsRead ==
    ASSUME NEW s \in Seq(Ref \cup {Nil} \cup Scalar), NEW j \in Nat, j + 1 \in DOMAIN s, NEW x
    PROVE  LET t == [s EXCEPT ![j + 1] = x]
           IN  /\ ~(j >= sliceLen(MessagesVal(t))) /\ ~(j >= sliceLen(ScalarsVal(t)))
               /\ elementValue(MessagesVal(t), j) = Found(MessageVal(x))
               /\ elementValue(ScalarsVal(t), j) = Found(ScalarVal(x))
<1> DEFINE t == [s EXCEPT ![j + 1] = x]
<1>1. Len(s) \in Nat /\ DOMAIN s = 1 .. Len(s)
    BY LenProperties
<1>2. DOMAIN t = 1 .. Len(s) /\ t[j + 1] = x
    BY <1>1
<1>3. Len(t) = Len(s)
    BY <1>1, <1>2
<1> HIDE DEF t
<1>4. ~(j >= Len(t))
    BY <1>1, <1>3
<1>5. /\ MessagesVal(t).kind = "messages" /\ MessagesVal(t).elems = t
      /\ ScalarsVal(t).kind = "scalars" /\ ScalarsVal(t).elems = t
    BY DEF MessagesVal, ScalarsVal
<1>6. ~(j >= sliceLen(MessagesVal(t))) /\ ~(j >= sliceLen(ScalarsVal(t)))
    BY <1>4, <1>5 DEF sliceLen
<1>7. /\ elementValue(MessagesVal(t), j) = Found(MessageVal(x))
      /\ elementValue(ScalarsVal(t), j) = Found(ScalarVal(x))
    BY <1>2, <1>5 DEF elementValue, MessageVal
<1> QED BY <1>6, <1>7 DEF t

\* What the copies of an argument's messages become in the slot.
LEMMA CopiesAreRead ==
    ASSUME ReadInv, WayIsWritten, Walking, Len(segs) = 1, RepeatedHoldsSlice(pre),
           lastSchema.type = "message",
           NEW n \in Nat, NEW roots \in [1 .. n -> Allocated(heap) \cup {Nil}],
           \A i \in 1 .. n : roots[i] # Nil =>
               roots[i] \in ArgRefs(call.arg) /\ heap[roots[i]].schema = lastSchema.schema,
           NEW v,
           LET D == CopyPairs(heap, roots)
           IN  /\ HasRoomFor(heap, D)
               /\ heap' = Put(WithCopies(heap, Placement(heap, D)), cur, last.field, v)
    PROVE  \A i \in 1 .. n :
               Tree(heap', Clone(Placement(heap, CopyPairs(heap, roots)), i, roots[i])) = Tree(pre, roots[i])
<1>1. call.path # <<>> /\ Running
    BY EndIs
<1>2. ArgRefs(call.arg) \subseteq Allocated(pre)
    BY <1>1 DEF WayIsWritten
<1>3. \A i \in 1 .. n : roots[i] # Nil =>
          roots[i] \in Allocated(pre) /\ heap[roots[i]].schema = lastSchema.schema
    BY <1>2
<1> QED BY <1>1, <1>3, StoredTrees

\* What the copy of one message becomes.
LEMMA OneCopyIsRead ==
    ASSUME ReadInv, WayIsWritten, Walking, Len(segs) = 1,
           lastSchema.type = "message",
           NEW x \in ArgRefs(call.arg), x \in Allocated(heap), heap[x].schema = lastSchema.schema,
           NEW v,
           LET D == CopyPairs(heap, <<x>>)
           IN  /\ HasRoomFor(heap, D)
               /\ heap' = Put(WithCopies(heap, Placement(heap, D)), cur, last.field, v)
    PROVE  RepeatedHoldsSlice(pre) =>
               Tree(heap', Clone(Placement(heap, CopyPairs(heap, <<x>>)), 1, x)) = Tree(pre, x)
<1> DEFINE roots == <<x>>
<1>1. roots \in [1 .. 1 -> Allocated(heap) \cup {Nil}] /\ 1 \in Nat /\ 1 \in 1 .. 1 /\ roots[1] = x
    OBVIOUS
<1>2. \A i \in 1 .. 1 : roots[i] # Nil =>
          roots[i] \in ArgRefs(call.arg) /\ heap[roots[i]].schema = lastSchema.schema
    OBVIOUS
<1>3. /\ HasRoomFor(heap, CopyPairs(heap, roots))
      /\ heap' = Put(WithCopies(heap, Placement(heap, CopyPairs(heap, roots))), cur, last.field, v)
    OBVIOUS
<1> HIDE DEF roots
<1>4. RepeatedHoldsSlice(pre) => \A i \in 1 .. 1 :
          Tree(heap', Clone(Placement(heap, CopyPairs(heap, roots)), i, roots[i])) = Tree(pre, roots[i])
    BY <1>1, <1>2, <1>3, CopiesAreRead
<1> QED BY <1>1, <1>4 DEF roots

\* Set stores a scalar, a message or a list in a field.
LEMMA setFieldWrites ==
    ASSUME ReadInv, WayIsWritten, setField
    PROVE  WritesAreRead'
<1> DEFINE a == call.arg
           fs == lastSchema
           now == Get(heap', call.recv, call.path)
<1>1. /\ Walking /\ Len(segs) = 1 /\ pc = "Set" /\ setErr = "nil" /\ ~last.hasIdx
      /\ call' = call /\ pre' = pre /\ cur' = cur
    BY DEF setField, Setting, AtEnd, Walking, Finish, walk
<1>2. /\ AtLast /\ StoreInv /\ call.path # <<>> /\ call.op = "Set"
      /\ last = call.path[Len(call.path)] /\ Running
    BY <1>1, EndIs
<1>3. fs.type \in {"scalar", "message"} /\ setFieldErr(fs, a) = "nil"
    BY <1>1, EndIs DEF setErr
<1>4. CASE a = NilVal /\ heap' = Unset(heap, cur, last.field)
    <2>1. now = NotSet
        BY <1>1, <1>3, <1>4, ClearedIsRead
    <2>2. ~now.isSet
        BY <2>1 DEF NotSet
    <2> QED BY <1>1, <1>2, <1>4, <2>2, UnsetIsRead
<1>5. ASSUME a # NilVal, NEW v,
             \/ heap' = Put(heap, cur, last.field, v)
             \/ \E D : /\ HasRoomFor(heap, D)
                       /\ heap' = Put(WithCopies(heap, Placement(heap, D)), cur, last.field, v),
             RepeatedHoldsSlice(pre) =>
                 TreeOf(heap', v) = IF fs.repeated THEN StoredSlice(fs, a) ELSE Stored(a)
      PROVE  WritesAreRead'
    <2>1. now = Found(v) /\ heap'[cur].schema = heap[cur].schema
        BY <1>1, <1>3, <1>5, StoredIsRead
    <2>2. now.val = v
        BY <2>1 DEF Found
    <2> HIDE DEF now
    <2>3. RepeatedHoldsSlice(pre) =>
              TreeOf(heap', now.val) = IF fs.repeated /\ ~last.hasIdx THEN StoredSlice(fs, a) ELSE Stored(a)
        BY <1>1, <1>5, <2>2
    <2> QED BY <1>1, <1>2, <1>5, <2>1, <2>3, ValueIsRead DEF now
<1>6. CASE a # NilVal /\ fs.repeated /\ fs.type = "message" /\ StoreCopies(Roots(a), MessagesVal)
    <2> DEFINE D == CopyPairs(heap, Roots(a))
               g == Placement(heap, D)
               s == [i \in DOMAIN Roots(a) |-> Clone(g, i, Roots(a)[i])]
               v == MessagesVal(s)
    <2>1. convertMessageSlice(fs.schema, a) = "nil"
        BY <1>3, <1>6 DEF setFieldErr, convertToSlice
    <2>2. PICK n \in Nat :
              /\ Roots(a) \in [1 .. n -> Allocated(heap) \cup {Nil}]
              /\ \A i \in 1 .. n : Roots(a)[i] # Nil =>
                     Roots(a)[i] \in ArgRefs(a) /\ heap[Roots(a)[i]].schema = fs.schema
        BY <1>2, <2>1, ConvertedMessages DEF AtLast
    <2>3. HasRoomFor(heap, D) /\ heap' = Put(WithCopies(heap, g), cur, last.field, v)
        BY <1>6 DEF StoreCopies
    <2>4. RepeatedHoldsSlice(pre) =>
              \A i \in 1 .. n : Tree(heap', Clone(g, i, Roots(a)[i])) = Tree(pre, Roots(a)[i])
        <3> DEFINE r == Roots(a)
        <3> HIDE DEF r, v
        <3>1. /\ r \in [1 .. n -> Allocated(heap) \cup {Nil}]
              /\ \A i \in 1 .. n : r[i] # Nil =>
                     r[i] \in ArgRefs(call.arg) /\ heap[r[i]].schema = lastSchema.schema
              /\ HasRoomFor(heap, CopyPairs(heap, r))
              /\ heap' = Put(WithCopies(heap, Placement(heap, CopyPairs(heap, r))), cur, last.field, v)
            BY <2>2, <2>3 DEF r
        <3>2. RepeatedHoldsSlice(pre) =>
                  \A i \in 1 .. n :
                      Tree(heap', Clone(Placement(heap, CopyPairs(heap, r)), i, r[i])) = Tree(pre, r[i])
            BY <1>1, <1>6, <3>1, CopiesAreRead
        <3> QED BY <3>2 DEF r
    <2>5. v.kind = "messages" /\ v.elems = s /\ DOMAIN s = DOMAIN a.elems /\ DOMAIN a.elems = 1 .. n
        <3>1. DOMAIN Roots(a) = DOMAIN a.elems
            BY DEF Roots
        <3> QED BY <2>2, <3>1 DEF MessagesVal
    <2> DEFINE k == heap'
    <2> HIDE DEF k, g, D
    <2>6. RepeatedHoldsSlice(pre) => \A i \in DOMAIN a.elems :
              Tree(k, s[i]) = IF a.elems[i] = NilVal THEN Nil ELSE Tree(pre, a.elems[i].ref)
        <3>1. ASSUME RepeatedHoldsSlice(pre), NEW i \in DOMAIN a.elems
              PROVE  Tree(k, s[i]) = IF a.elems[i] = NilVal THEN Nil ELSE Tree(pre, a.elems[i].ref)
            <4>1. Tree(k, s[i]) = Tree(pre, Roots(a)[i])
                BY <2>4, <2>5, <3>1 DEF k
            <4>2. Roots(a)[i] = IF a.elems[i] = NilVal THEN Nil ELSE a.elems[i].ref
                BY DEF Roots
            <4> QED BY <4>1, <4>2, NilTree
        <3> QED BY <3>1
    <2> HIDE DEF s, v
    <2>7. TreeOf(k, v) = [kind |-> "messages", trees |-> [i \in DOMAIN a.elems |-> Tree(k, s[i])]]
        BY <2>5, TreeOfIs
    <2>8. RepeatedHoldsSlice(pre) => TreeOf(k, v) = StoredSlice(fs, a)
        BY <1>6, <2>6, <2>7 DEF StoredSlice
    <2>9. RepeatedHoldsSlice(pre) =>
                 TreeOf(heap', v) = IF fs.repeated THEN StoredSlice(fs, a) ELSE Stored(a)
        BY <1>6, <2>8 DEF k
    <2> QED BY <1>5, <1>6, <2>3, <2>9 DEF g
<1>7. CASE a # NilVal /\ fs.repeated /\ fs.type = "scalar"
           /\ heap' = Put(heap, cur, last.field, ScalarsVal(
                          [i \in DOMAIN a.elems |-> convertScalar[a.elems[i].val]]))
    <2> DEFINE v == ScalarsVal([i \in DOMAIN a.elems |-> convertScalar[a.elems[i].val]])
    <2>1. v.kind \notin {"message", "messages"}
        BY DEF ScalarsVal
    <2>2. StoredSlice(fs, a) = v
        BY <1>7 DEF StoredSlice
    <2> DEFINE k == heap'
    <2> HIDE DEF v, k
    <2>3. TreeOf(k, v) = v
        BY <2>1, TreeOfIs
    <2> QED BY <1>5, <1>7, <2>2, <2>3 DEF v, k
<1>8. CASE a # NilVal /\ ~fs.repeated /\ fs.type = "message"
           /\ StoreCopies(<<a.ref>>, LAMBDA c : MessageVal(c[1]))
    <2> DEFINE D == CopyPairs(heap, <<a.ref>>)
               g == Placement(heap, D)
               c == Clone(g, 1, a.ref)
               v == MessageVal(c)
    <2>1. IsMessageOf(fs.schema, a) /\ a.kind = "message"
        BY <1>3, <1>8 DEF setFieldErr, convertElement, IsMessageOf
    <2>2. a.ref \in ArgRefs(a) /\ a.ref \in Allocated(heap) /\ heap[a.ref].schema = fs.schema
        BY <1>2, <2>1, ConvertedMessage DEF AtLast
    <2>3. HasRoomFor(heap, D) /\ heap' = Put(WithCopies(heap, g), cur, last.field, v)
        BY <1>8 DEF StoreCopies
    <2>4. RepeatedHoldsSlice(pre) => Tree(heap', c) = Tree(pre, a.ref)
        BY <1>1, <1>8, <2>2, <2>3, OneCopyIsRead
    <2> DEFINE k == heap'
    <2> HIDE DEF k, g, D, c
    <2>5. TreeOf(k, v) = [kind |-> "message", tree |-> Tree(k, c)]
        BY TreeOfIs DEF MessageVal
    <2>6. TreeOf(pre, a) = [kind |-> "message", tree |-> Tree(pre, a.ref)]
        BY <2>1, TreeOfIs
    <2>7. RepeatedHoldsSlice(pre) => TreeOf(k, v) = Stored(a)
        BY <2>1, <2>4, <2>5, <2>6 DEF Stored, k
    <2> QED BY <1>5, <1>8, <2>3, <2>7 DEF k, g
<1>9. CASE a # NilVal /\ ~fs.repeated /\ fs.type = "scalar"
           /\ heap' = Put(heap, cur, last.field, ScalarVal(convertScalar[a.val]))
    <2> DEFINE v == ScalarVal(convertScalar[a.val])
               k == heap'
    <2>1. v.kind \notin {"message", "messages"}
        BY DEF ScalarVal
    <2>2. Stored(a) = v
        BY <1>3, <1>9 DEF Stored, setFieldErr, convertElement, IsScalar
    <2> HIDE DEF v, k
    <2>3. TreeOf(k, v) = v
        BY <2>1, TreeOfIs
    <2> QED BY <1>5, <1>9, <2>2, <2>3 DEF v, k
<1> QED BY <1>4, <1>6, <1>7, <1>8, <1>9 DEF setField, Roots

\* It replaces an element of a list.
LEMMA setElementWrites ==
    ASSUME ReadInv, WayIsWritten, setElement
    PROVE  WritesAreRead'
<1> DEFINE a == call.arg
           fs == lastSchema
           i == last.idx + 1
           now == Get(heap', call.recv, call.path)
<1>1. /\ Walking /\ Len(segs) = 1 /\ pc = "Set" /\ setErr = "nil" /\ last.hasIdx
      /\ call' = call /\ pre' = pre /\ cur' = cur
    BY DEF setElement, Setting, AtEnd, Walking, Finish, walk
<1>2. /\ AtLast /\ StoreInv /\ call.path # <<>> /\ call.op = "Set"
      /\ last = call.path[Len(call.path)] /\ Running
    BY <1>1, EndIs
<1>3. fs.type \in {"scalar", "message"} /\ setElementErr(fs, a) = "nil"
    BY <1>1, EndIs DEF setErr
<1>4. fs.repeated /\ slotIsSet /\ ~(last.idx >= sliceLen(slot))
    BY <1>3 DEF setElementErr
<1>5. /\ slot.elems \in Seq(Ref \cup {Nil} \cup Scalar) /\ i \in DOMAIN slot.elems /\ last.idx \in Nat
    BY <1>2, <1>3, <1>4, NamedElement DEF AtLast
<1>6. ASSUME NEW x, NEW v, NEW w,
             \/ v = MessagesVal([slot.elems EXCEPT ![i] = x]) /\ w = MessageVal(x)
             \/ v = ScalarsVal([slot.elems EXCEPT ![i] = x]) /\ w = ScalarVal(x),
             \/ heap' = Put(heap, cur, last.field, v)
             \/ \E D : /\ HasRoomFor(heap, D)
                       /\ heap' = Put(WithCopies(heap, Placement(heap, D)), cur, last.field, v)
      PROVE  now = Found(w) /\ heap'[cur].schema = heap[cur].schema
    <2>1. ~(last.idx >= sliceLen(v)) /\ elementValue(v, last.idx) = Found(w)
        BY <1>5, <1>6, ElementIsRead
    <2> QED BY <1>1, <1>3, <1>4, <1>6, <2>1, StoredIsRead
<1>7. ASSUME a # NilVal, NEW w, now = Found(w), heap'[cur].schema = heap[cur].schema,
             RepeatedHoldsSlice(pre) => TreeOf(heap', w) = Stored(a)
      PROVE  WritesAreRead'
    <2>1. now.val = w
        BY <1>7 DEF Found
    <2> HIDE DEF now
    <2>2. RepeatedHoldsSlice(pre) =>
              TreeOf(heap', now.val) = IF fs.repeated /\ ~last.hasIdx THEN StoredSlice(fs, a) ELSE Stored(a)
        BY <1>1, <1>7, <2>1
    <2> QED BY <1>1, <1>2, <1>7, <2>2, ValueIsRead DEF now
<1>8. CASE a = NilVal /\ heap' = Put(heap, cur, last.field, MessagesVal([slot.elems EXCEPT ![i] = Nil]))
    <2>1. now = Found(MessageVal(Nil))
        BY <1>6, <1>8
    <2>2. now.isSet /\ now.val.ref = Nil
        BY <2>1 DEF Found, MessageVal
    <2> QED BY <1>1, <1>2, <1>8, <2>2, UnsetIsRead
<1>9. CASE /\ a # NilVal /\ fs.type = "message"
           /\ StoreCopies(<<a.ref>>, LAMBDA c : MessagesVal([slot.elems EXCEPT ![i] = c[1]]))
    <2> DEFINE D == CopyPairs(heap, <<a.ref>>)
               g == Placement(heap, D)
               c == Clone(g, 1, a.ref)
               v == MessagesVal([slot.elems EXCEPT ![i] = c])
    <2>1. IsMessageOf(fs.schema, a) /\ a.kind = "message"
        BY <1>3, <1>4, <1>9 DEF setElementErr, convertElement, IsMessageOf
    <2>2. a.ref \in ArgRefs(a) /\ a.ref \in Allocated(heap) /\ heap[a.ref].schema = fs.schema
        BY <1>2, <2>1, ConvertedMessage DEF AtLast
    <2>3. HasRoomFor(heap, D) /\ heap' = Put(WithCopies(heap, g), cur, last.field, v)
        BY <1>9 DEF StoreCopies
    <2>4. RepeatedHoldsSlice(pre) => Tree(heap', c) = Tree(pre, a.ref)
        BY <1>1, <1>9, <2>2, <2>3, OneCopyIsRead
    <2> DEFINE k == heap'
               w == MessageVal(c)
    <2>5. TreeOf(k, w) = [kind |-> "message", tree |-> Tree(k, c)]
        <3> HIDE DEF k, c
        <3> QED BY TreeOfIs DEF MessageVal
    <2>6. TreeOf(pre, a) = [kind |-> "message", tree |-> Tree(pre, a.ref)]
        BY <2>1, TreeOfIs
    <2> HIDE DEF k, c
    <2>7. RepeatedHoldsSlice(pre) => TreeOf(k, w) = Stored(a)
        BY <2>1, <2>4, <2>5, <2>6 DEF Stored, k
    <2>8. now = Found(w) /\ heap'[cur].schema = heap[cur].schema
        <3> HIDE DEF g, D
        <3>1. HasRoomFor(heap, D) /\ heap' = Put(WithCopies(heap, Placement(heap, D)), cur, last.field, v)
            BY <2>3 DEF g
        <3> QED BY <1>6, <3>1
    <2> QED BY <1>7, <1>9, <2>7, <2>8 DEF k
<1>10. CASE /\ a # NilVal /\ fs.type = "scalar"
            /\ heap' = Put(heap, cur, last.field, ScalarsVal(
                           [slot.elems EXCEPT ![i] = convertScalar[a.val]]))
    <2> DEFINE w == ScalarVal(convertScalar[a.val])
               k == heap'
    <2>1. now = Found(w) /\ heap'[cur].schema = heap[cur].schema
        BY <1>6, <1>10
    <2>2. w.kind \notin {"message", "messages"}
        BY DEF ScalarVal
    <2>3. Stored(a) = w
        BY <1>3, <1>4, <1>10 DEF Stored, setElementErr, convertElement, IsScalar
    <2> HIDE DEF w, k
    <2>4. TreeOf(k, w) = w
        BY <2>2, TreeOfIs
    <2> QED BY <1>7, <1>10, <2>1, <2>3, <2>4 DEF k
<1> QED BY <1>8, <1>9, <1>10 DEF setElement

\* Clear sets an element to nil, or unsets the field.
LEMMA ClearEndWrites ==
    ASSUME ReadInv, WayIsWritten, clearField \/ clearElement
    PROVE  WritesAreRead'
<1> DEFINE now == Get(heap', call.recv, call.path)
<1>1. /\ Walking /\ Len(segs) = 1 /\ pc = "Clear" /\ clearPathErr = "nil"
      /\ call' = call
    BY DEF clearField, clearElement, Clearing, Walking, Finish
<1>2. /\ AtLast /\ StoreInv /\ CallInv /\ call.path # <<>> /\ call.op = "Clear"
      /\ last = call.path[Len(call.path)]
    BY <1>1, EndIs
<1>3. Head(segs) = last
    BY <1>1, <1>2, LastSegment
<1>4. lastSchema.type # "none"
    BY <1>1, <1>3 DEF clearPathErr, lastSchema
<1>5. CASE clearField
    <2>1. ~last.hasIdx /\ heap' = Unset(heap, cur, last.field)
        BY <1>5 DEF clearField
    <2>2. now = NotSet
        BY <1>1, <1>4, <2>1, ClearedIsRead
    <2>3. ~now.isSet
        BY <2>2 DEF NotSet
    <2> QED BY <1>1, <1>2, <2>1, <2>3, UnsetIsRead
<1>6. CASE clearElement
    <2> DEFINE v == MessagesVal([slot.elems EXCEPT ![last.idx + 1] = Nil])
    <2>1. last.hasIdx /\ heap' = Put(heap, cur, last.field, v)
        BY <1>6 DEF clearElement
    <2>2. slotIsSet /\ lastSchema.repeated /\ lastSchema.type = "message" /\ ~(last.idx >= sliceLen(slot))
        BY <1>1, <1>3, <2>1 DEF clearPathErr, lastSchema, slot, slotIsSet
    <2>3. /\ slot.elems \in Seq(Ref \cup {Nil} \cup Scalar)
          /\ last.idx + 1 \in DOMAIN slot.elems /\ last.idx \in Nat
        BY <1>2, <2>2, NamedElement DEF AtLast
    <2>4. ~(last.idx >= sliceLen(v)) /\ elementValue(v, last.idx) = Found(MessageVal(Nil))
        BY <2>3, ElementIsRead
    <2> HIDE DEF v
    <2>5. now = Found(MessageVal(Nil))
        BY <1>1, <1>4, <2>1, <2>2, <2>4, StoredIsRead
    <2>6. now.isSet /\ now.val.ref = Nil
        BY <2>5 DEF Found, MessageVal
    <2> QED BY <1>1, <1>2, <2>1, <2>6, UnsetIsRead
<1> QED BY <1>5, <1>6

\* Below an unset message nothing is set.
LEMMA VerifyWrites ==
    ASSUME ReadInv, WayIsWritten, VerifyEnd
    PROVE  WritesAreRead'
<1>1. CASE verifyErr # "nil"
    BY <1>1, FailIsRead DEF VerifyEnd, Done
<1>2. call.path # <<>>
    BY DEF WayIsWritten, VerifyEnd, Running
<1>3. CASE verifyErr = "nil"
    <2>1. /\ pc = "verifyClearPath" /\ Running /\ ~Walking /\ Len(segs) = 1
          /\ call' = call /\ heap' = heap
        BY <1>3 DEF VerifyEnd, Running, Walking
    <2>2. call.op = "Clear" /\ heap = pre /\ place.msg = Nil
        BY <1>2, <1>3, <2>1 DEF WayIsWritten, ReadInv, WalkIsRead
    <2>3. last = call.path[Len(call.path)] /\ Get(pre, call.recv, call.path) = endValue(pre, place, last)
        BY <1>2, <1>3, <2>1, ReadBefore
    <2>4. ~last.hasIdx /\ segErr(pre, place, last) = "nil"
        BY <1>2, <1>3, <2>1, VerifyAgrees, PlaceIs
    <2>5. Get(heap', call.recv, call.path) = NotSet
        BY <2>1, <2>2, <2>3, <2>4 DEF endValue, IsPresent
    <2>6. ~Get(heap', call.recv, call.path).isSet
        BY <2>5 DEF NotSet
    <2> QED BY <1>2, <1>3, <2>1, <2>2, <2>3, <2>4, <2>6, UnsetIsRead
<1> QED BY <1>1, <1>3

\* Before an Append, Get finds the list that it appends to, or that the field is not set.
LEMMA ListIsRead ==
    ASSUME ReadInv, Walking, call.path # <<>>, Len(segs) = 1, ~last.hasIdx, lastSchema.type # "none"
    PROVE  /\ slotIsSet => Get(pre, call.recv, call.path) = Found(slot) /\ heap = pre
           /\ ~slotIsSet => Get(pre, call.recv, call.path) = NotSet
<1>1. Running /\ Get(pre, call.recv, call.path) = endValue(pre, place, last)
    BY ReadBefore DEF Running
<1>2. /\ lastSchema = lookupName(place.schema, last.field)
      /\ slotIsSet <=> IsPresent(pre, place.msg, last.field)
      /\ slotIsSet => slot = pre[place.msg].vals[last.field]
    BY SlotIsRead DEF lastSchema, slotIsSet, slot
<1>3. segErr(pre, place, last) = "nil"
    BY <1>2 DEF segErr
<1>4. slotIsSet => heap = pre
    BY <1>1, <1>2 DEF IsPresent, ReadInv, WalkIsRead
<1> QED BY <1>1, <1>2, <1>3, <1>4 DEF endValue

\* Append makes the list one longer.
LEMMA appendFieldWrites ==
    ASSUME ReadInv, WayIsWritten, appendField
    PROVE  WritesAreRead'
<1> DEFINE a == call.arg
           fs == lastSchema
           old == IF slotIsSet THEN slot.elems ELSE <<>>
           was == Get(pre, call.recv, call.path)
           now == Get(heap', call.recv, call.path)
<1>1. /\ Walking /\ Len(segs) = 1 /\ pc = "Append" /\ appendErr = "nil"
      /\ call' = call /\ pre' = pre /\ cur' = cur
    BY DEF appendField, AtEnd, Walking, Finish, walk
<1>2. /\ AtLast /\ StoreInv /\ call.path # <<>> /\ call.op = "Append"
      /\ last = call.path[Len(call.path)] /\ Running /\ CallInv
    BY <1>1, EndIs
<1>3. fs.type \in {"scalar", "message"} /\ fs.repeated /\ convertElement(fs, a) = "nil"
    BY <1>1, EndIs DEF appendErr
<1>4. ~last.hasIdx
    BY <1>1, <1>2 DEF CallInv, PathLeft, NamesField
<1>5. /\ slotIsSet => was.val = slot /\ heap = pre
      /\ ~slotIsSet => was.val = NilVal
    BY <1>1, <1>2, <1>3, <1>4, ListIsRead DEF Found, NotSet
<1>6. ASSUME a # NilVal, NEW v,
             \/ heap' = Put(heap, cur, last.field, v)
             \/ \E D : /\ HasRoomFor(heap, D)
                       /\ heap' = Put(WithCopies(heap, Placement(heap, D)), cur, last.field, v),
             RepeatedHoldsSlice(pre) => TreeOf(heap', v) = Longer(was.val, a)
      PROVE  WritesAreRead'
    <2>1. now = Found(v)
        BY <1>1, <1>3, <1>4, <1>6, StoredIsRead
    <2>2. now.val = v
        BY <2>1 DEF Found
    <2> HIDE DEF now
    <2>3. RepeatedHoldsSlice(pre) => TreeOf(heap', now.val) = Longer(was.val, a)
        BY <1>6, <2>2
    <2> QED BY <1>1, <1>2, <1>6, <2>3, AppendIsRead DEF now
<1>7. CASE fs.type = "message" /\ StoreCopies(<<a.ref>>, LAMBDA c : MessagesVal(Append(old, c[1])))
    <2> DEFINE D == CopyPairs(heap, <<a.ref>>)
               g == Placement(heap, D)
               c == Clone(g, 1, a.ref)
               v == MessagesVal(Append(old, c))
    <2>1. IsMessageOf(fs.schema, a) /\ a.kind = "message" /\ a # NilVal
        BY <1>3, <1>7 DEF convertElement, IsMessageOf, NilVal
    <2>2. a.ref \in ArgRefs(a) /\ a.ref \in Allocated(heap) /\ heap[a.ref].schema = fs.schema
        BY <1>2, <2>1, ConvertedMessage DEF AtLast
    <2>3. HasRoomFor(heap, D) /\ heap' = Put(WithCopies(heap, g), cur, last.field, v)
        BY <1>7 DEF StoreCopies
    <2>4. RepeatedHoldsSlice(pre) => Tree(heap', c) = Tree(pre, a.ref)
        BY <1>1, <1>7, <2>2, <2>3, OneCopyIsRead
    <2>5. slotIsSet => /\ slot.kind = "messages" /\ slot.elems \in Seq(Ref \cup {Nil})
                       /\ Pointees(MessagesVal(slot.elems)) = Pointees(slot)
        BY <1>1, <1>2, <1>7, ListInSlot DEF appendErr
    <2>6. old \in Seq(Ref \cup {Nil})
        BY <2>5, EmptySeq
    <2> DEFINE k == heap'
    <2>7. /\ heap \in Heap /\ Sound(heap) /\ cur \in Allocated(heap) /\ last.field \in Field
        BY <1>2 DEF AtLast, StoreInv, TypeOK
    <2>8. \A q \in Allocated(heap) : q # cur => k[q] = heap[q]
        <3> HIDE DEF g, D, c, v
        <3>1. \/ heap' = Put(heap, cur, last.field, v)
              \/ \E E : /\ HasRoomFor(heap, E)
                        /\ heap' = Put(WithCopies(heap, Placement(heap, E)), cur, last.field, v)
            BY <2>3 DEF g
        <3>2. ChangesOnly(heap', cur, last.field)
            BY <1>2, <2>7, <3>1, StoreChanges
        <3> QED BY <3>2 DEF ChangesOnly
    <2> HIDE DEF k, g, D, c
    <2>9. \A i \in DOMAIN old : Tree(k, old[i]) = Tree(pre, old[i])
        <3>1. ASSUME NEW i \in DOMAIN old, old[i] # Nil
              PROVE  Tree(k, old[i]) = Tree(pre, old[i])
            <4>1. slotIsSet /\ old = slot.elems
                BY <3>1
            <4>2. old[i] \in Range(old) \ {Nil}
                BY <3>1 DEF Range
            <4>3. old[i] \in Pointees(slot)
                BY <2>5, <4>1, <4>2 DEF Pointees
            <4>4. old[i] \in Children(heap, cur)
                BY <4>1, <4>3 DEF Children, slot, slotIsSet
            <4> HIDE DEF old
            <4>5. Tree(k, old[i]) = Tree(heap, old[i])
                BY <2>7, <2>8, <4>4, TreesBelow
            <4> QED BY <1>5, <4>1, <4>5
        <3> QED BY <3>1, NilTree
    <2> DEFINE trees == [i \in DOMAIN old |-> Tree(pre, old[i])]
    <2>10. IF was.val.kind = "nil" THEN trees = <<>> ELSE TreeOf(pre, was.val).trees = trees
        <3>1. CASE slotIsSet
            <4>1. was.val = slot /\ slot.kind = "messages" /\ old = slot.elems
                BY <1>5, <2>5, <3>1
            <4> HIDE DEF old, was
            <4>2. TreeOf(pre, slot) = [kind |-> "messages", trees |-> trees]
                BY <4>1, TreeOfIs
            <4> QED BY <4>1, <4>2
        <3>2. CASE ~slotIsSet
            <4>1. was.val = NilVal /\ old = <<>>
                BY <1>5, <3>2
            <4>2. trees = <<>>
                BY <4>1
            <4> QED BY <4>1, <4>2 DEF NilVal
        <3> QED BY <3>1, <3>2
    <2>11. was.val.kind = "messages" \/ (was.val.kind = "nil" /\ a.kind = "message")
        BY <1>5, <2>1, <2>5 DEF NilVal
    <2>12. TreeOf(k, v) = [kind |-> "messages",
                           trees |-> [i \in DOMAIN Append(old, c) |-> Tree(k, Append(old, c)[i])]]
        <3> DEFINE s == Append(old, c)
        <3> HIDE DEF s
        <3>1. MessagesVal(s).kind = "messages" /\ MessagesVal(s).elems = s
            BY DEF MessagesVal
        <3>2. TreeOf(k, MessagesVal(s)) = [kind |-> "messages", trees |-> [i \in DOMAIN s |-> Tree(k, s[i])]]
            BY <3>1, TreeOfIs
        <3> QED BY <3>2 DEF s
    <2> HIDE DEF old, was
    <2>13. RepeatedHoldsSlice(pre) =>
               [i \in DOMAIN Append(old, c) |-> Tree(k, Append(old, c)[i])] = Append(trees, Tree(pre, a.ref))
        BY <2>4, <2>6, <2>9, LongerTrees DEF k
    <2> HIDE DEF trees, v
    <2>14. Longer(was.val, a)
               = [kind |-> "messages", trees |-> Append(trees, Tree(pre, a.ref))]
        BY <2>10, <2>11 DEF Longer
    <2>15. RepeatedHoldsSlice(pre) => TreeOf(k, v) = Longer(was.val, a)
        BY <2>12, <2>13, <2>14
    <2> QED BY <1>6, <2>1, <2>3, <2>15 DEF k, g
<1>8. CASE fs.type = "scalar"
           /\ heap' = Put(heap, cur, last.field, ScalarsVal(Append(old, convertScalar[a.val])))
    <2> DEFINE v == ScalarsVal(Append(old, convertScalar[a.val]))
               k == heap'
    <2>1. a.kind = "scalar" /\ a # NilVal
        BY <1>3, <1>8 DEF convertElement, IsScalar, NilVal
    <2>2. slotIsSet => slot.kind = "scalars"
        BY <1>2, <1>3, <1>8, SlotScalars DEF AtLast, slot, slotIsSet, lastSchema
    <2>3. Longer(was.val, a) = v
        <3>1. CASE slotIsSet
            BY <1>5, <2>1, <2>2, <3>1 DEF Longer
        <3>2. CASE ~slotIsSet
            <4>1. was.val = NilVal /\ old = <<>> /\ NilVal.kind = "nil"
                BY <1>5, <3>2 DEF NilVal
            <4> HIDE DEF was, old
            <4> QED BY <2>1, <4>1 DEF Longer
        <3> QED BY <3>1, <3>2
    <2>4. v.kind \notin {"message", "messages"}
        BY DEF ScalarsVal
    <2> HIDE DEF v, k
    <2>5. TreeOf(k, v) = v
        BY <2>4, TreeOfIs
    <2> QED BY <1>6, <1>8, <2>1, <2>3, <2>5 DEF v, k
<1> QED BY <1>7, <1>8 DEF appendField

\* Clear("") and Set("", nil) clear the message, Set("", m) copies m to it.
LEMMA SelfWrites ==
    ASSUME ReadInv, WayIsWritten, setSelf \/ ClearSelf
    PROVE  WritesAreRead'
<1>1. Walking /\ Running /\ segs = <<>> /\ call' = call /\ pre' = pre
    BY DEF setSelf, ClearSelf, Finish, Walking, Running
<1>2. call.path = <<>> /\ call.op = pc /\ call \in Call /\ StoreInv /\ cur \in Allocated(heap)
    BY <1>1 DEF ReadInv, CallInv, PathLeft, StoreInv, WalkExists, Walking
<1>3. cur = call.recv /\ heap = pre /\ ArgRefs(call.arg) \subseteq Allocated(heap)
    BY <1>1, <1>2 DEF WayIsWritten
<1>4. heap \in Heap /\ Sound(heap) /\ cur \in Ref
    BY <1>2 DEF StoreInv, TypeOK, Allocated
<1>5. CASE clearAll /\ (call.op = "Clear" \/ (call.op = "Set" /\ call.arg = NilVal))
    <2>1. heap'[cur].set = {}
        BY <1>4, <1>5 DEF clearAll, newMessage, Heap
    <2> QED BY <1>1, <1>2, <1>3, <1>5, <2>1, UnsetIsRead
<1>6. CASE setSelf /\ call.arg # NilVal
    <2> DEFINE a == call.arg
               src == a.ref
               D == {<<1, x>> : x \in Reach(heap, Children(heap, src))}
               g == Placement(heap, D)
               k == heap'
    <2>1. IsMessageOf(heap[cur].schema, a) /\ a.kind = "message" /\ call.op = "Set"
        BY <1>2, <1>6 DEF setSelf, setSelfErr, IsMessageOf
    <2>2. src \in Allocated(heap)
        BY <1>2, <1>3, <2>1, ConvertedMessage
    <2>3. HasRoomFor(heap, D) /\ k = copyFrom(heap, cur, src, g)
        BY <1>6 DEF setSelf
    <2>4. g \in [D -> Unused(heap)] /\ IsInjective(g)
        BY <2>3, PlacementIs
    <2> HIDE DEF g, k
    <2>5. ASSUME RepeatedHoldsSlice(pre), src # call.recv
          PROVE  Tree(k, cur) = Tree(heap, src)
        <3>1. \A x \in Allocated(heap) : HoldsSlices(heap, x)
            BY <1>3, <2>5 DEF RepeatedHoldsSlice, HoldsSlices
        <3>2. cur # src
            BY <1>3, <2>5
        <3> QED BY <1>2, <1>4, <2>2, <2>3, <2>4, <3>1, <3>2, CopyFromIsSame
    <2>6. Get(k, call.recv, call.path).val = MessageVal(cur)
        BY <1>2, <1>3 DEF Get, Found
    <2>7. TreeOf(k, MessageVal(cur)) = [kind |-> "message", tree |-> Tree(k, cur)]
        BY TreeOfIs DEF MessageVal
    <2>8. TreeOf(pre, a) = [kind |-> "message", tree |-> Tree(pre, src)]
        BY <2>1, TreeOfIs
    <2>9. RepeatedHoldsSlice(pre) /\ src # call.recv =>
              TreeOf(k, Get(k, call.recv, call.path).val) = Stored(a)
        BY <1>3, <2>1, <2>5, <2>6, <2>7, <2>8 DEF Stored
    <2> QED BY <1>1, <1>2, <1>6, <2>1, <2>9, SelfIsRead DEF k
<1> QED BY <1>2, <1>5, <1>6 DEF setSelf, ClearSelf

-----------------------------------------------------------------------------
(* The steps together *)
\* A call that has ended is no longer on the way.
LEMMA NotOnTheWay ==
    ASSUME pc' \in {"done", "idle"}
    PROVE  WayIsWritten' /\ (pc' = "idle" => WritesAreRead')
BY FailIsRead DEF WayIsWritten, Running, Walking

\* Whatever ends a call, the write is read.
LEMMA EndWrites ==
    ASSUME ReadInv, WayIsWritten, End
    PROVE  WayIsWritten' /\ WritesAreRead'
<1>1. pc' = "done"
    BY DEF End, SetFail, setField, setElement, SetSelfFail, setSelf, AppendFail, appendField,
           ClearSelf, ClearFail, clearField, clearElement, VerifyEnd, Finish, Done, Goto
<1>2. CASE SetFail \/ SetSelfFail \/ AppendFail \/ ClearFail
    <2>1. err' # "nil"
        BY <1>2 DEF SetFail, SetSelfFail, AppendFail, ClearFail, Done
    <2> QED BY <1>1, <2>1, FailIsRead, NotOnTheWay
<1> QED BY <1>1, <1>2, NotOnTheWay, setFieldWrites, setElementWrites, appendFieldWrites, SelfWrites,
           ClearEndWrites, VerifyWrites DEF End

\* A call starts where Get does, and has written nothing.
LEMMA StartWrites ==
    ASSUME ReadInv, NEW op \in {"Set", "Append", "Clear"}, NEW v \in Var,
           NEW p \in Path, NEW a, ArgRefs(a) \subseteq Allocated(heap), Start(op, v, p, a), pc' = op
    PROVE  WayIsWritten' /\ WritesAreRead'
<1>1. /\ call' = [op |-> op, recv |-> held[v], path |-> p, arg |-> a] /\ pre' = heap
      /\ heap' = heap /\ segs' = p /\ cur' = held[v] /\ held[v] # Nil
    BY DEF Start
<1>2. p \in Seq(Seg) /\ Len(p) \in Nat
    BY MessageAssumption, LenProperties
<1>3. passed' = 0
    BY <1>1, <1>2 DEF passed
<1>4. pc' # "done" /\ pc' # "verifyClearPath"
    OBVIOUS
<1>5. WritesAreRead'
    BY <1>4, FailIsRead
<1>6. ASSUME p # <<>>
      PROVE  OnMessages(heap, call.recv, call.path, passed)'
             /\ here'[passed'] = Place(cur', heap'[cur'].schema)
    <2> DEFINE w == walked(heap, held[v], p)
    <2>1. w[0] = Place(held[v], heap[held[v]].schema)
        BY <1>2, <1>6, WalkedIs
    <2>2. \A i \in 0 .. 0 : i = 0
        OBVIOUS
    <2>3. w[0].err = "nil" /\ w[0].msg # Nil
        BY <1>1, <2>1 DEF Place
    <2>4. OnMessages(heap, held[v], p, 0)
        BY <2>2, <2>3 DEF OnMessages
    <2>5. OnMessages(heap', call'.recv, call'.path, passed')
        BY <1>1, <1>3, <2>4
    <2>6. here' = w
        BY <1>1 DEF here
    <2> QED BY <1>1, <1>3, <2>1, <2>5, <2>6 DEF OnMessages
<1>7. WayIsWritten'
    BY <1>1, <1>4, <1>6 DEF WayIsWritten
<1> QED BY <1>5, <1>7

LEMMA BeginWrites ==
    ASSUME ReadInv, Begin
    PROVE  WayIsWritten' /\ WritesAreRead'
<1>1. PICK v \in Var :
        \/ \E t \in Top : New(v, t)
        \/ \E w \in Var, p \in Path : Len(p) = 1 /\ GetMessage(v, w, p[1])
        \/ \E p \in Path, a \in Passed(ElemArgs \cup SliceArgs) : BeginSet(v, p, a)
        \/ \E p \in Path, a \in Passed(ElemArgs) : BeginAppend(v, p, a)
        \/ \E p \in Path : BeginClear(v, p)
    BY DEF Begin
<1>2. pc = "idle" /\ StoreInv
    BY DEF Begin, Ready, ReadInv, CallInv
<1>3. CASE \E t \in Top : New(v, t)
    BY <1>2, <1>3, NotOnTheWay DEF New, Hold
<1>4. CASE \E w \in Var, p \in Path : Len(p) = 1 /\ GetMessage(v, w, p[1])
    BY <1>2, <1>4, NotOnTheWay DEF GetMessage, Hold
<1>5. CASE \E p \in Path, a \in Passed(ElemArgs \cup SliceArgs) : BeginSet(v, p, a)
    BY <1>2, <1>5, ArgsExist, StartWrites DEF BeginSet, Goto
<1>6. CASE \E p \in Path, a \in Passed(ElemArgs) : BeginAppend(v, p, a)
    <2>1. PICK p \in Path, a \in Passed(ElemArgs) : BeginAppend(v, p, a)
        BY <1>6
    <2>2. Start("Append", v, p, a)
        BY <2>1 DEF BeginAppend
    <2>3. ArgRefs(a) \subseteq Allocated(heap)
        BY <1>2, ArgsExist DEF Passed
    <2>4. CASE pc' = "Append"
        BY <2>2, <2>3, <2>4, StartWrites
    <2>5. CASE Done("ErrFieldNotFound")
        BY <2>5, NotOnTheWay, FailIsRead DEF Done, Goto
    <2> QED BY <2>1, <2>4, <2>5 DEF BeginAppend, Goto
<1>7. CASE \E p \in Path : BeginClear(v, p)
    <2>1. ArgRefs(NilVal) = {}
        BY DEF ArgRefs, NilVal, MessageVal, IsSlice
    <2> QED BY <1>7, <2>1, StartWrites DEF BeginClear, Goto
<1> QED BY <1>1, <1>3, <1>4, <1>5, <1>6, <1>7

\* What a walk writes is on its way, and what a call has written is read.
WriteInv == ReadInv /\ WayIsWritten /\ WritesAreRead

LEMMA InitWriteInv == Init => WriteInv
BY InitReadInv DEF Init, WriteInv, WayIsWritten, WritesAreRead, Running, Walking

LEMMA StepWriteInv == WriteInv /\ [Next]_vars => WriteInv'
<1> SUFFICES ASSUME WriteInv, [Next]_vars PROVE WriteInv'
    OBVIOUS
<1>1. ReadInv' /\ ReadInv /\ WayIsWritten
    BY StepReadInv DEF WriteInv
<1>2. CASE Begin
    BY <1>1, <1>2, BeginWrites DEF WriteInv
<1>3. CASE Walk
    <2>1. pc' # "done" \/ err' # "nil"
        BY <1>3
        DEF Walk, DescendFail, DescendElement, DescendMessage, DescendCreate, Descending, Clearing,
            ClearInElement, ClearInMessage, ClearInUnset, VerifyNext, Advance, Done, Goto
    <2> QED BY <1>1, <1>3, <2>1, WalkWrites, FailIsRead DEF WriteInv
<1>4. CASE End
    BY <1>1, <1>4, EndWrites DEF WriteInv
<1>5. CASE Return \/ Collect
    BY <1>1, <1>5, NotOnTheWay DEF Return, Collect, Goto, WriteInv
<1>6. CASE UNCHANGED vars
    <2>1. UNCHANGED <<heap, pc, call, segs, cur, vschema, err, pre>>
        BY <1>6 DEF vars
    <2>2. WayIsWritten'
        BY <2>1 DEF WriteInv, WayIsWritten, OnMessages, here, passed, Running, Walking
    <2>3. WritesAreRead'
        BY <2>1 DEF WriteInv, WritesAreRead, RepeatedHoldsSlice, Stored, StoredSlice, Longer
    <2> QED BY <1>1, <2>2, <2>3 DEF WriteInv
<1> QED BY <1>2, <1>3, <1>4, <1>5, <1>6 DEF Next

(* While a call walks its path it is where Get would be in the heap as it is, and has
   written to no message but those that it has come by. *)
THEOREM WriteInvariance == Spec => []WriteInv
BY InitWriteInv, StepWriteInv, PTL DEF Spec

(* What a call that succeeds has stored is what Get finds at the path after it: the scalar
   as the conversion makes it, and of a message or a list of messages the whole trees as
   they were when the call began, although they are copied only after the walk has written
   to the store; an Append finds the list one element longer; after a Clear, or a Set of
   nil, Get finds nothing there. *)
THEOREM WritesSeen == Spec => []WritesAreRead
<1>1. WriteInv => WritesAreRead
    BY DEF WriteInv
<1> QED BY <1>1, WriteInvariance, PTL
=============================================================================
