---------------------------- MODULE MessageProofs ----------------------------
(***************************************************************************)
(* Proofs about Message, for any schemas, any paths and any number of      *)
(* messages: the store is well typed (TypeOK), every message is what its   *)
(* schema says (SchemaSound), and no message is in two slots (Ownership).  *)
(*                                                                         *)
(* The three hold together.  A walk reaches a message because the slots it *)
(* reads are sound; a copy is sound because what it copies exists; a store *)
(* keeps ownership because the copies are in no slot yet.                  *)
(***************************************************************************)
EXTENDS Message, FiniteSetTheorems, SequenceTheorems, TLAPS

-----------------------------------------------------------------------------
(* The operations of the heap: writing a slot, making a message and deep copies keep every
   message well typed and owned by one slot. *)

\* No slot points to c.
Unowned(h, c) == \A r \in Allocated(h) : \A f \in h[r].set : c \notin Pointees(h[r].vals[f])

\* The copies numbered i of the messages in S.
Clones(g, i, S) == {g[<<i, c>>] : c \in S}

(* What a value points to is a set of references. *)
LEMMA PointeesType == ASSUME NEW v \in Val PROVE Pointees(v) \subseteq Ref
BY DEF Val, Pointees, NilVal, Range

(* A free reference has the empty object. *)
LEMMA ObjectType ==
    ASSUME NEW h \in Heap, NEW r \in Ref
    PROVE  /\ h[r].vals \in [Field -> Val]
           /\ h[r].set \subseteq Field
           /\ r \in Allocated(h) => h[r].schema \in Type /\ h[r] \in Object
           /\ r \notin Allocated(h) => h[r] = NoObject
BY HeapAssumption DEF Heap, Object, NoObject, newMessage, Allocated, Val

(* Two slots that point to one message are one slot. *)
LEMMA OneSlot ==
    ASSUME NEW h, Owned(h),
           NEW r \in Allocated(h), NEW f \in h[r].set,
           NEW q \in Allocated(h), NEW g \in h[q].set,
           NEW c \in Pointees(h[r].vals[f]), c \in Pointees(h[q].vals[g])
    PROVE  q = r /\ g = f
BY DEF Owned

(* Writing one slot. *)
LEMMA PutKeeps ==
    ASSUME NEW h \in Heap, Sound(h), Owned(h),
           NEW r \in Allocated(h), NEW f \in Field, NEW v \in Val,
           lookupName(h[r].schema, f).type # "none",
           SlotFits(h, lookupName(h[r].schema, f), v),
           NoRepeats(v),
           \A c \in Pointees(v) :
               (f \in h[r].set /\ c \in Pointees(h[r].vals[f])) \/ Unowned(h, c)
    PROVE  LET k == Put(h, r, f, v)
           IN  k \in Heap /\ Allocated(k) = Allocated(h) /\ Sound(k) /\ Owned(k)
<1> DEFINE k == Put(h, r, f, v)
<1>1. r \in Ref /\ h[r] \in Object
    BY ObjectType DEF Allocated
<1>2. k[r] = [schema |-> h[r].schema, vals |-> [h[r].vals EXCEPT ![f] = v],
              set |-> h[r].set \cup {f}]
    BY <1>1 DEF Put, Heap
<1>3. \A q \in Ref : q # r => k[q] = h[q]
    BY <1>1 DEF Put, Heap
<1>4. k[r] \in Object
    BY <1>1, <1>2 DEF Object
<1>5. k \in Heap
    BY <1>1, <1>4 DEF Put, Heap
<1>6. \A q \in Ref : k[q].schema = h[q].schema
    BY <1>2, <1>3
<1>7. Allocated(k) = Allocated(h)
    BY <1>6 DEF Allocated
<1>8. \A q \in Allocated(h), e \in Field :
          k[q].vals[e] = (IF q = r /\ e = f THEN v ELSE h[q].vals[e])
          /\ (e \in k[q].set <=> (q = r /\ e = f) \/ e \in h[q].set)
    BY <1>1, <1>2, <1>3, ObjectType DEF Allocated
<1> HIDE DEF k
<1>9. Sound(k)
    <2>1. \A fs, w : Pointees(w) \subseteq Ref => (SlotFits(k, fs, w) <=> SlotFits(h, fs, w))
        BY <1>6 DEF SlotFits
    <2>2. SUFFICES ASSUME NEW q \in Allocated(h), NEW e \in Field
                   PROVE LET fs == lookupName(h[q].schema, e)
                         IN  IF e \in k[q].set THEN fs.type # "none" /\ SlotFits(k, fs, k[q].vals[e])
                             ELSE k[q].vals[e] = NilVal
        BY <1>6, <1>7 DEF Sound, Allocated
    <2>3. h[q].vals[e] \in Val
        BY ObjectType DEF Allocated
    <2>4. CASE q = r /\ e = f
        BY <1>8, <2>1, <2>4, PointeesType
    <2>5. CASE ~(q = r /\ e = f)
        BY <1>8, <2>1, <2>3, <2>5, PointeesType DEF Sound
    <2> QED BY <2>4, <2>5
<1>10. Owned(k)
    <2>1. SUFFICES ASSUME NEW q \in Allocated(h), NEW e \in k[q].set
                   PROVE /\ NoRepeats(k[q].vals[e])
                         /\ \A c \in Pointees(k[q].vals[e]), p \in Allocated(h) :
                                \A g \in k[p].set :
                                    c \in Pointees(k[p].vals[g]) => p = q /\ g = e
        BY <1>7 DEF Owned
    <2>2. \A p \in Allocated(h) : k[p].set \subseteq Field
        BY <1>5, ObjectType DEF Allocated
    <2>3. NoRepeats(k[q].vals[e])
        BY <1>8, <2>1, <2>2 DEF Owned
    <2>4. ASSUME NEW c \in Pointees(k[q].vals[e]), NEW p \in Allocated(h), NEW g \in k[p].set,
                 c \in Pointees(k[p].vals[g])
          PROVE p = q /\ g = e
        BY <1>8, <2>1, <2>2, <2>4 DEF Owned, Unowned
    <2> QED BY <2>3, <2>4
<1> QED BY <1>5, <1>7, <1>9, <1>10 DEF k

(* In a sound heap a message points to messages that exist, of a schema its own
   schema nests. *)
LEMMA ChildExists ==
    ASSUME NEW h \in Heap, Sound(h),
           NEW r \in Allocated(h), NEW f \in h[r].set, NEW c \in Pointees(h[r].vals[f])
    PROVE  /\ c \in Allocated(h)
           /\ lookupName(h[r].schema, f).type = "message"
           /\ h[c].schema = lookupName(h[r].schema, f).schema
<1> DEFINE fs == lookupName(h[r].schema, f)
<1>1. r \in Ref /\ f \in Field /\ h[r].schema \in Type /\ h[r].vals[f] \in Val
    BY ObjectType DEF Allocated
<1>2. c \in Ref
    BY <1>1, PointeesType
<1>3. SlotFits(h, fs, h[r].vals[f])
    BY <1>1 DEF Sound
<1>4. fs.type = "message" /\ h[c].schema = fs.schema
    BY <1>3 DEF SlotFits, Pointees, NilVal
<1>5. fs.schema \in Type
    BY <1>1, <1>4, HeapAssumption DEF lookupName
<1> QED BY <1>2, <1>4, <1>5, HeapAssumption DEF Allocated

(* Replacing the contents of a message: what it points to afterwards is in no slot of
   another message, and in one slot of its own. *)
LEMMA OverwriteKeeps ==
    ASSUME NEW h \in Heap, Sound(h), Owned(h),
           NEW r \in Allocated(h), NEW o \in Object, o.schema = h[r].schema,
           \A f \in Field : LET fs == lookupName(o.schema, f)
                            IN  IF f \in o.set THEN fs.type # "none" /\ SlotFits(h, fs, o.vals[f])
                                ELSE o.vals[f] = NilVal,
           \A f \in o.set : /\ NoRepeats(o.vals[f])
                            /\ \A c \in Pointees(o.vals[f]), e \in o.set :
                                   c \in Pointees(o.vals[e]) => e = f,
           \A q \in Allocated(h) \ {r} : \A e \in h[q].set : \A f \in o.set :
               \A c \in Pointees(o.vals[f]) : c \notin Pointees(h[q].vals[e])
    PROVE  LET k == [h EXCEPT ![r] = o]
           IN  k \in Heap /\ Allocated(k) = Allocated(h) /\ Sound(k) /\ Owned(k)
<1> DEFINE k == [h EXCEPT ![r] = o]
<1>1. r \in Ref /\ h[r].schema \in Type /\ o.set \subseteq Field /\ o.vals \in [Field -> Val]
    BY ObjectType DEF Allocated, Object
<1>2. k[r] = o /\ \A q \in Ref : q # r => k[q] = h[q]
    BY <1>1 DEF Heap
<1>3. k \in Heap
    BY <1>1 DEF Heap
<1>4. \A q \in Ref : k[q].schema = h[q].schema
    BY <1>2
<1>5. Allocated(k) = Allocated(h)
    BY <1>4 DEF Allocated
<1> HIDE DEF k
<1>6. Sound(k)
    <2>1. \A fs, w : Pointees(w) \subseteq Ref => (SlotFits(k, fs, w) <=> SlotFits(h, fs, w))
        BY <1>4 DEF SlotFits
    <2>2. SUFFICES ASSUME NEW q \in Allocated(h), NEW e \in Field
                   PROVE LET fs == lookupName(h[q].schema, e)
                         IN  IF e \in k[q].set THEN fs.type # "none" /\ SlotFits(k, fs, k[q].vals[e])
                             ELSE k[q].vals[e] = NilVal
        BY <1>4, <1>5 DEF Sound, Allocated
    <2>3. CASE q = r
        <3>1. Pointees(o.vals[e]) \subseteq Ref
            BY <1>1, PointeesType
        <3> QED BY <1>2, <2>1, <2>3, <3>1
    <2>4. CASE q # r
        <3>1. Pointees(h[q].vals[e]) \subseteq Ref
            BY ObjectType, PointeesType DEF Allocated
        <3> QED BY <1>2, <2>1, <2>4, <3>1 DEF Sound, Allocated
    <2> QED BY <2>3, <2>4
<1>7. Owned(k)
    <2>1. SUFFICES ASSUME NEW q \in Allocated(h), NEW e \in k[q].set
                   PROVE /\ NoRepeats(k[q].vals[e])
                         /\ \A c \in Pointees(k[q].vals[e]), p \in Allocated(h) :
                                \A g \in k[p].set :
                                    c \in Pointees(k[p].vals[g]) => p = q /\ g = e
        BY <1>5 DEF Owned
    <2>2. Allocated(h) \subseteq Ref
        BY DEF Allocated
    <2>3. NoRepeats(k[q].vals[e])
        BY <1>2, <2>1, <2>2 DEF Owned
    <2>4. ASSUME NEW c \in Pointees(k[q].vals[e]), NEW p \in Allocated(h), NEW g \in k[p].set,
                 c \in Pointees(k[p].vals[g])
          PROVE p = q /\ g = e
        <3>1. CASE q = r /\ p = r
            BY <1>2, <2>1, <2>4, <3>1
        <3>2. CASE q = r /\ p # r
            BY <1>2, <2>1, <2>2, <2>4, <3>2
        <3>3. CASE q # r /\ p = r
            BY <1>2, <2>1, <2>2, <2>4, <3>3
        <3>4. CASE q # r /\ p # r
            BY <1>2, <2>1, <2>2, <2>4, <3>4 DEF Owned
        <3> QED BY <3>1, <3>2, <3>3, <3>4
    <2> QED BY <2>3, <2>4
<1> QED BY <1>3, <1>5, <1>6, <1>7 DEF k

(* Unsetting one slot, and all of them. *)
LEMMA UnsetKeeps ==
    ASSUME NEW h \in Heap, Sound(h), Owned(h), NEW r \in Allocated(h), NEW f \in Field
    PROVE  LET k == Unset(h, r, f)
           IN  k \in Heap /\ Allocated(k) = Allocated(h) /\ Sound(k) /\ Owned(k)
<1> DEFINE o == [schema |-> h[r].schema, vals |-> [h[r].vals EXCEPT ![f] = NilVal],
                 set |-> h[r].set \ {f}]
<1>1. r \in Ref /\ h[r].schema \in Type /\ h[r].set \subseteq Field /\ h[r].vals \in [Field -> Val]
    BY ObjectType DEF Allocated
<1>2. o \in Object
    BY <1>1 DEF Object, Val
<1>3. \A e \in Field : o.vals[e] = (IF e = f THEN NilVal ELSE h[r].vals[e])
    BY <1>1
<1>4. o.schema = h[r].schema /\ o.set = h[r].set \ {f}
    OBVIOUS
<1> HIDE DEF o
<1>5. \A e \in Field : LET fs == lookupName(o.schema, e)
                       IN  IF e \in o.set THEN fs.type # "none" /\ SlotFits(h, fs, o.vals[e])
                           ELSE o.vals[e] = NilVal
    BY <1>3, <1>4 DEF Sound
<1>6. \A e \in o.set : /\ NoRepeats(o.vals[e])
                       /\ \A c \in Pointees(o.vals[e]), g \in o.set :
                              c \in Pointees(o.vals[g]) => g = e
    <2>1. \A e \in o.set : e \in h[r].set /\ o.vals[e] = h[r].vals[e]
        BY <1>1, <1>3, <1>4
    <2>2. \A e \in o.set : NoRepeats(o.vals[e])
        BY <2>1 DEF Owned
    <2>3. \A e \in o.set : \A c \in Pointees(o.vals[e]), g \in o.set :
              c \in Pointees(o.vals[g]) => g = e
        BY <2>1 DEF Owned
    <2> QED BY <2>2, <2>3
<1>7. \A q \in Allocated(h) \ {r} : \A g \in h[q].set : \A e \in o.set :
          \A c \in Pointees(o.vals[e]) : c \notin Pointees(h[q].vals[g])
    BY <1>1, <1>3, <1>4 DEF Owned
<1>8. Unset(h, r, f) = [h EXCEPT ![r] = o]
    BY DEF Unset, o
<1>9. LET k == [h EXCEPT ![r] = o]
      IN  k \in Heap /\ Allocated(k) = Allocated(h) /\ Sound(k) /\ Owned(k)
    BY <1>2, <1>4, <1>5, <1>6, <1>7, OverwriteKeeps
<1> QED BY <1>8, <1>9

LEMMA ClearKeeps ==
    ASSUME NEW h \in Heap, Sound(h), Owned(h), NEW r \in Allocated(h)
    PROVE  LET k == [h EXCEPT ![r] = newMessage(h[r].schema)]
           IN  k \in Heap /\ Allocated(k) = Allocated(h) /\ Sound(k) /\ Owned(k)
<1> DEFINE o == newMessage(h[r].schema)
<1>1. h[r].schema \in Type
    BY ObjectType DEF Allocated
<1>2. o \in Object /\ o.schema = h[r].schema /\ o.set = {} /\ \A f \in Field : o.vals[f] = NilVal
    BY <1>1 DEF newMessage, Object, Val
<1> HIDE DEF o
<1>3. [h EXCEPT ![r] = newMessage(h[r].schema)] = [h EXCEPT ![r] = o]
    BY DEF o
<1> QED BY <1>2, <1>3, OverwriteKeeps

(* A new message is in no slot. *)
LEMMA MakeKeeps ==
    ASSUME NEW h \in Heap, Sound(h), Owned(h), NEW r \in Unused(h), NEW t \in Type
    PROVE  LET k == [h EXCEPT ![r] = newMessage(t)]
           IN  /\ k \in Heap /\ Allocated(k) = Allocated(h) \cup {r} /\ Sound(k) /\ Owned(k)
               /\ Unowned(k, r)
<1> DEFINE k == [h EXCEPT ![r] = newMessage(t)]
<1>1. r \in Ref /\ r \notin Allocated(h)
    BY DEF Unused
<1>2. k[r].schema = t /\ k[r].set = {} /\ (\A f \in Field : k[r].vals[f] = NilVal)
      /\ \A q \in Ref : q # r => k[q] = h[q]
    BY <1>1 DEF Heap, newMessage
<1>3. k \in Heap
    BY <1>1 DEF Heap, Object, newMessage, Val
<1>4. Allocated(k) = Allocated(h) \cup {r}
    BY <1>1, <1>2, HeapAssumption DEF Allocated
<1> HIDE DEF k
<1>5. \A q \in Allocated(h) : q \in Ref /\ q # r /\ k[q] = h[q]
    BY <1>1, <1>2 DEF Allocated
<1>6. \A q \in Allocated(h) : \A f \in h[q].set : \A c \in Pointees(h[q].vals[f]) : c \in Allocated(h)
    BY ChildExists
<1>7. Unowned(k, r)
    BY <1>1, <1>2, <1>4, <1>5, <1>6 DEF Unowned
<1>8. Sound(k)
    <2>1. SUFFICES ASSUME NEW q \in Allocated(h), NEW e \in Field
                   PROVE LET fs == lookupName(h[q].schema, e)
                         IN  IF e \in h[q].set THEN fs.type # "none" /\ SlotFits(k, fs, h[q].vals[e])
                             ELSE h[q].vals[e] = NilVal
        BY <1>2, <1>4, <1>5 DEF Sound
    <2>2. e \in h[q].set => \A c \in Pointees(h[q].vals[e]) : k[c].schema = h[c].schema
        BY <1>5, <1>6
    <2> QED BY <2>2 DEF Sound, SlotFits
<1>9. Owned(k)
    BY <1>2, <1>4, <1>5, <1>7 DEF Owned, Unowned
<1> QED BY <1>3, <1>4, <1>7, <1>8, <1>9 DEF k

(* The copy of a value holds the copies of the messages the value holds. *)
LEMMA CopiedValue ==
    ASSUME NEW h, NEW v \in Val, NEW fs \in FieldSchema, SlotFits(h, fs, v),
           NEW i \in Nat, NEW g,
           \A c \in Pointees(v) : g[<<i, c>>] \in Ref
    PROVE  LET w == deepCopyValue(fs, v, g, i)
           IN  /\ w \in Val
               /\ w.kind = v.kind \/ (w.kind = "nil" /\ fs.type = "message" /\ fs.repeated)
               /\ Pointees(w) \subseteq Clones(g, i, Pointees(v))
<1> DEFINE w == deepCopyValue(fs, v, g, i)
<1>1. CASE v.kind = "messages"
    <2> DEFINE s == [j \in DOMAIN v.elems |-> Clone(g, i, v.elems[j])]
    <2>1. PICK n \in Nat : v.elems \in [1 .. n -> Ref \cup {Nil}]
        BY <1>1, SeqDef DEF Val, NilVal
    <2>2. \A j \in 1 .. n : v.elems[j] # Nil =>
              v.elems[j] \in Pointees(v) /\ v.elems[j] \in Ref
        BY <1>1, <2>1 DEF Pointees, Range
    <2>3. s \in [1 .. n -> Ref \cup {Nil}]
        BY <2>1, <2>2 DEF Clone
    <2>4. s \in Seq(Ref \cup {Nil})
        BY <2>3, SeqDef
    <2>5. MessagesVal(s) \in Val
        BY <2>4 DEF MessagesVal, Val
    <2>6. \A c \in Pointees(MessagesVal(s)) : \E j \in 1 .. n : c = s[j] /\ c # Nil
        BY <2>3 DEF Pointees, MessagesVal, Range
    <2>7. \A j \in 1 .. n : s[j] # Nil => v.elems[j] # Nil /\ s[j] = g[<<i, v.elems[j]>>]
        BY <2>1 DEF Clone
    <2>8. w = MessagesVal(s)
        BY <1>1 DEF deepCopyValue, SlotFits
    <2>9. MessagesVal(s).kind = v.kind
        BY <1>1 DEF MessagesVal
    <2> HIDE DEF s, w
    <2>10. ASSUME NEW c \in Pointees(MessagesVal(s))
           PROVE  c \in Clones(g, i, Pointees(v))
        <3>1. PICK j \in 1 .. n : c = s[j] /\ c # Nil
            BY <2>6
        <3> QED BY <2>2, <2>7, <3>1 DEF Clones
    <2> QED BY <2>5, <2>8, <2>9, <2>10 DEF w
<1>2. CASE v.kind = "message"
    <2>1. v = MessageVal(v.ref) /\ v.ref \in Ref /\ v.ref \in Pointees(v)
        BY <1>2 DEF Val, NilVal, MessageVal, Pointees
    <2>2. Clone(g, i, v.ref) = g[<<i, v.ref>>] /\ g[<<i, v.ref>>] \in Ref
        BY <2>1, HeapAssumption DEF Clone
    <2>3. fs.type = "message" /\ w = IF fs.repeated THEN NilVal ELSE MessageVal(g[<<i, v.ref>>])
        BY <1>2, <2>2 DEF deepCopyValue, FieldSchema, SlotFits
    <2> QED BY <1>2, <2>1, <2>2, <2>3 DEF Val, MessageVal, NilVal, Pointees, Clones
<1>3. CASE v.kind \notin {"message", "messages"}
    <2>1. w = v \/ (w = NilVal /\ v.kind = "nil")
        BY <1>3 DEF deepCopyValue, SlotFits
    <2> QED BY <1>3, <2>1 DEF Val, NilVal, Pointees
<1> QED BY <1>1, <1>2, <1>3

(* Nor does it hold a message twice. *)
LEMMA CopiedNoRepeats ==
    ASSUME NEW v \in Val, NEW fs, NEW i \in Nat, NEW g, NoRepeats(v),
           \A b, c \in Pointees(v) : g[<<i, b>>] = g[<<i, c>>] => b = c
    PROVE  NoRepeats(deepCopyValue(fs, v, g, i))
<1> DEFINE w == deepCopyValue(fs, v, g, i)
<1> DEFINE s == [j \in DOMAIN v.elems |-> Clone(g, i, v.elems[j])]
<1>1. CASE v.kind = "messages"
    <2>1. \A j \in DOMAIN v.elems : v.elems[j] # Nil => v.elems[j] \in Pointees(v)
        BY <1>1 DEF Pointees, Range
    <2>2. DOMAIN s = DOMAIN v.elems
          /\ \A j \in DOMAIN s : s[j] = Clone(g, i, v.elems[j])
        OBVIOUS
    <2>3. \A j \in DOMAIN s : s[j] # Nil => v.elems[j] # Nil /\ s[j] = g[<<i, v.elems[j]>>]
        BY <2>2 DEF Clone
    <2> HIDE DEF s
    <2>4. ASSUME NEW j \in DOMAIN s, NEW l \in DOMAIN s, s[j] = s[l], s[j] # Nil
          PROVE  j = l
        <3>1. v.elems[j] \in Pointees(v) /\ v.elems[l] \in Pointees(v) /\ v.elems[j] # Nil
            BY <2>1, <2>2, <2>3, <2>4
        <3>2. v.elems[j] = v.elems[l]
            BY <2>3, <2>4, <3>1
        <3> QED BY <1>1, <2>2, <3>1, <3>2 DEF NoRepeats
    <2>5. NoRepeats(MessagesVal(s))
        BY <2>4 DEF NoRepeats, MessagesVal
    <2>6. w = MessagesVal(s) \/ w = NilVal \/ w = v
        BY <1>1 DEF deepCopyValue, s
    <2>7. NoRepeats(NilVal)
        BY DEF NoRepeats, NilVal
    <2> QED BY <2>5, <2>6, <2>7
<1>2. CASE v.kind = "message"
    <2>1. w = NilVal \/ w = v \/ w = MessageVal(Clone(g, i, v.ref))
        BY <1>2 DEF deepCopyValue
    <2> QED BY <2>1 DEF NoRepeats, NilVal, MessageVal
<1>3. CASE v.kind \notin {"message", "messages"}
    <2>1. w = NilVal \/ w = v
        BY <1>3 DEF deepCopyValue
    <2> QED BY <2>1 DEF NoRepeats, NilVal
<1> QED BY <1>1, <1>2, <1>3

\* It has its schema and its set fields, and holds the copies of its children where it
\* holds the children.
IsCopy(o, h, x, i, g) ==
    /\ o \in Object /\ o.schema = h[x].schema /\ o.set = h[x].set
    /\ \A f \in Field \ o.set : o.vals[f] = NilVal
    /\ \A f \in o.set :
           /\ NoRepeats(o.vals[f])
           /\ LET fs == lookupName(h[x].schema, f)
              IN  \/ o.vals[f].kind = h[x].vals[f].kind
                  \/ o.vals[f].kind = "nil" /\ fs.type = "message" /\ fs.repeated
           /\ Pointees(o.vals[f]) \subseteq Clones(g, i, Pointees(h[x].vals[f]))

(* The copy of a message. *)
LEMMA CopiedMessage ==
    ASSUME NEW h \in Heap, Sound(h), Owned(h), NEW x \in Allocated(h), NEW i \in Nat, NEW g,
           \A c \in Children(h, x) : g[<<i, c>>] \in Ref,
           \A b, c \in Children(h, x) : g[<<i, b>>] = g[<<i, c>>] => b = c
    PROVE  IsCopy(deepCopy(h, x, g, i), h, x, i, g)
<1> DEFINE o == deepCopy(h, x, g, i)
<1> DEFINE fsOf(f) == lookupName(h[x].schema, f)
<1> DEFINE copyOf(f) == deepCopyValue(fsOf(f), h[x].vals[f], g, i)
<1>1. h[x].schema \in Type /\ h[x].set \subseteq Field /\ h[x].vals \in [Field -> Val]
    BY ObjectType DEF Allocated
<1>2. o.schema = h[x].schema /\ o.set = h[x].set
      /\ \A f \in Field : o.vals[f] = (IF f \in h[x].set
             THEN copyOf(f) ELSE NilVal)
    BY DEF deepCopy
<1>3. ASSUME NEW f \in h[x].set
      PROVE /\ copyOf(f) \in Val
            /\ NoRepeats(copyOf(f))
            /\ \/ copyOf(f).kind = h[x].vals[f].kind
               \/ copyOf(f).kind = "nil" /\ fsOf(f).type = "message" /\ fsOf(f).repeated
            /\ Pointees(copyOf(f)) \subseteq Clones(g, i, Pointees(h[x].vals[f]))
    <2>1. Pointees(h[x].vals[f]) \subseteq Children(h, x)
        BY DEF Children
    <2>2. h[x].vals[f] \in Val /\ NoRepeats(h[x].vals[f])
        BY <1>1 DEF Owned
    <2>3. fsOf(f) \in FieldSchema /\ SlotFits(h, fsOf(f), h[x].vals[f])
        BY <1>1, HeapAssumption DEF Sound, lookupName, NoField
    <2>4. \A c \in Pointees(h[x].vals[f]) : g[<<i, c>>] \in Ref
        BY <2>1
    <2>5. \A b, c \in Pointees(h[x].vals[f]) : g[<<i, b>>] = g[<<i, c>>] => b = c
        BY <2>1
    <2> DEFINE v == h[x].vals[f]
    <2> DEFINE fs == fsOf(f)
    <2> DEFINE w == deepCopyValue(fs, v, g, i)
    <2>6. v \in Val /\ fs \in FieldSchema /\ SlotFits(h, fs, v) /\ NoRepeats(v)
          /\ (\A c \in Pointees(v) : g[<<i, c>>] \in Ref)
          /\ \A b, c \in Pointees(v) : g[<<i, b>>] = g[<<i, c>>] => b = c
        BY <2>2, <2>3, <2>4, <2>5
    <2> HIDE DEF v, fs
    <2>7. NoRepeats(w)
        BY <2>6, CopiedNoRepeats
    <2>8. /\ w \in Val
          /\ w.kind = v.kind \/ (w.kind = "nil" /\ fs.type = "message" /\ fs.repeated)
          /\ Pointees(w) \subseteq Clones(g, i, Pointees(v))
        BY <2>6, CopiedValue
    <2> QED BY <2>7, <2>8 DEF v, fs
<1>4. NilVal \in Val
    BY DEF Val
<1>5. o \in Object
    <2>1. o.vals \in [Field -> Val]
        BY <1>1, <1>3, <1>4 DEF deepCopy
    <2>2. o = [schema |-> h[x].schema, vals |-> o.vals, set |-> h[x].set]
        BY DEF deepCopy
    <2> HIDE DEF o
    <2> QED BY <1>1, <2>1, <2>2 DEF Object
<1> HIDE DEF o, copyOf
<1>6. \A f \in Field \ o.set : o.vals[f] = NilVal
    BY <1>2
<1>7. ASSUME NEW f \in o.set
      PROVE /\ NoRepeats(o.vals[f])
            /\ \/ o.vals[f].kind = h[x].vals[f].kind
               \/ o.vals[f].kind = "nil" /\ fsOf(f).type = "message" /\ fsOf(f).repeated
            /\ Pointees(o.vals[f]) \subseteq Clones(g, i, Pointees(h[x].vals[f]))
    BY <1>1, <1>2, <1>3
<1> QED BY <1>2, <1>5, <1>6, <1>7 DEF IsCopy, o

(* A copy fits the slots of its schema wherever its children are copies too. *)
LEMMA CopyFits ==
    ASSUME NEW h \in Heap, Sound(h), NEW x \in Allocated(h), NEW i, NEW g, NEW o,
           IsCopy(o, h, x, i, g), NEW k,
           \A c \in Children(h, x) : k[g[<<i, c>>]].schema = h[c].schema,
           NEW f \in Field
    PROVE  LET fs == lookupName(o.schema, f)
           IN  IF f \in o.set THEN fs.type # "none" /\ SlotFits(k, fs, o.vals[f])
               ELSE o.vals[f] = NilVal
<1> DEFINE fs == lookupName(h[x].schema, f)
<1> DEFINE v == h[x].vals[f]
<1> DEFINE w == o.vals[f]
<1>1. o.schema = h[x].schema /\ o.set = h[x].set /\ w \in Val /\ v \in Val
    BY ObjectType DEF IsCopy, Object, Allocated
<1>2. CASE f \in h[x].set
    <2>1. fs.type # "none" /\ SlotFits(h, fs, v)
        BY <1>2 DEF Sound
    <2>2. w.kind = v.kind \/ (w.kind = "nil" /\ fs.type = "message" /\ fs.repeated)
        BY <1>1, <1>2 DEF IsCopy
    <2>3. ASSUME NEW c \in Pointees(w)
          PROVE  k[c].schema = fs.schema
        <3>1. c \in Clones(g, i, Pointees(v))
            BY <1>1, <1>2 DEF IsCopy
        <3>2. PICK b \in Pointees(v) : c = g[<<i, b>>]
            BY <3>1 DEF Clones
        <3>3. b \in Children(h, x) /\ h[b].schema = fs.schema
            BY <1>2, ChildExists DEF Children
        <3> QED BY <3>2, <3>3
    <2> HIDE DEF fs, v, w
    <2>4. SlotFits(k, fs, w)
        BY <2>1, <2>2, <2>3 DEF SlotFits
    <2> QED BY <1>1, <1>2, <2>1, <2>4 DEF fs, v, w
<1>3. CASE f \notin h[x].set
    BY <1>1, <1>3 DEF IsCopy
<1> QED BY <1>2, <1>3

(* Deep copies at free references leave every message alone, and every message sound
   and owned, as long as what is copied takes its children along.  A copy of a message
   that is no child of a copied one is in no slot yet. *)
LEMMA CopiesKeep ==
    ASSUME NEW h \in Heap, Sound(h), Owned(h),
           NEW D \in SUBSET (Nat \X Allocated(h)),
           \A d \in D : \A c \in Children(h, d[2]) : <<d[1], c>> \in D,
           NEW g \in [D -> Unused(h)], IsInjective(g)
    PROVE  LET k == WithCopies(h, g)
           IN  /\ k \in Heap /\ Sound(k) /\ Owned(k)
               /\ Allocated(k) = Allocated(h) \cup Range(g)
               /\ \A r \in Allocated(h) : k[r] = h[r]
               /\ \A d \in D : k[g[d]].schema = h[d[2]].schema
               /\ \A d \in D : (\A e \in D : e[1] = d[1] => d[2] \notin Children(h, e[2]))
                              => Unowned(k, g[d])
<1> DEFINE k == WithCopies(h, g)
<1>1. \A d \in D : AntiFunction(g)[g[d]] = d /\ g[d] \in Range(g)
    BY DEF AntiFunction, Inverse, IsInjective, Range
<1>2. \A q \in Range(g) : q \in Ref /\ q \notin Allocated(h) /\ \E d \in D : q = g[d]
    BY DEF Range, Unused
<1>3. \A d \in D : k[g[d]] = deepCopy(h, d[2], g, d[1])
    BY <1>1, <1>2 DEF WithCopies
<1>4. \A q \in Ref : q \notin Range(g) => k[q] = h[q]
    BY DEF WithCopies
<1>5. \A d \in D : d[1] \in Nat /\ d[2] \in Allocated(h) /\ d = <<d[1], d[2]>>
    OBVIOUS
<1>6. \A d, e \in D : g[d] = g[e] => d = e
    BY DEF IsInjective
<1>7. ASSUME NEW d \in D
      PROVE  IsCopy(k[g[d]], h, d[2], d[1], g)
    <2>1. \A c \in Children(h, d[2]) : g[<<d[1], c>>] \in Ref
        BY DEF Unused
    <2>2. \A b, c \in Children(h, d[2]) : g[<<d[1], b>>] = g[<<d[1], c>>] => b = c
        BY <1>6
    <2> DEFINE x == d[2]
    <2> DEFINE i == d[1]
    <2>3. x \in Allocated(h) /\ i \in Nat
          /\ (\A c \in Children(h, x) : g[<<i, c>>] \in Ref)
          /\ \A b, c \in Children(h, x) : g[<<i, b>>] = g[<<i, c>>] => b = c
        BY <1>5, <2>1, <2>2
    <2>4. k[g[d]] = deepCopy(h, x, g, i)
        BY <1>3
    <2> HIDE DEF k, x, i
    <2>5. IsCopy(deepCopy(h, x, g, i), h, x, i, g)
        BY <2>3, CopiedMessage
    <2>6. IsCopy(k[g[d]], h, x, i, g)
        BY <2>4, <2>5
    <2> QED BY <2>6 DEF x, i
<1>8. k \in Heap
    <2>1. \A q \in Ref : k[q] \in Object \cup {NoObject}
        BY <1>2, <1>4, <1>7 DEF Heap, IsCopy
    <2>2. k = [q \in Ref |-> k[q]]
        BY DEF WithCopies
    <2> HIDE DEF k
    <2> QED BY <2>1, <2>2 DEF Heap
<1> HIDE DEF k
<1>9. Allocated(k) = Allocated(h) \cup Range(g)
    <2>1. \A d \in D : k[g[d]].schema \in Type
        BY <1>7 DEF Object, IsCopy
    <2> QED BY <1>2, <1>4, <2>1, HeapAssumption DEF Allocated
<1>10. \A r \in Allocated(h) : k[r] = h[r]
    BY <1>2, <1>4 DEF Allocated
<1>11. \A d \in D : k[g[d]].schema = h[d[2]].schema
    BY <1>7 DEF IsCopy
<1>12. ASSUME NEW d \in D, NEW f \in k[g[d]].set, NEW c \in Pointees(k[g[d]].vals[f])
       PROVE  /\ f \in h[d[2]].set /\ f \in Field
              /\ \E b \in Pointees(h[d[2]].vals[f]) : <<d[1], b>> \in D /\ c = g[<<d[1], b>>]
    <2>1. f \in h[d[2]].set /\ c \in Clones(g, d[1], Pointees(h[d[2]].vals[f]))
        BY <1>7 DEF IsCopy
    <2>2. PICK b \in Pointees(h[d[2]].vals[f]) : c = g[<<d[1], b>>]
        BY <2>1 DEF Clones
    <2>3. b \in Children(h, d[2])
        BY <2>1 DEF Children
    <2>4. f \in Field
        BY <1>5, <2>1, ObjectType DEF Allocated
    <2> QED BY <2>1, <2>2, <2>3, <2>4
<1>13. \A q \in Allocated(h) : \A f \in h[q].set : \A c \in Pointees(h[q].vals[f]) :
           c \in Allocated(h) /\ h[c].schema = lookupName(h[q].schema, f).schema
    BY ChildExists
<1>14. Sound(k)
    <2>1. SUFFICES ASSUME NEW q \in Allocated(k), NEW f \in Field
                   PROVE LET fs == lookupName(k[q].schema, f)
                         IN  IF f \in k[q].set THEN fs.type # "none" /\ SlotFits(k, fs, k[q].vals[f])
                             ELSE k[q].vals[f] = NilVal
        BY DEF Sound
    <2>2. CASE q \in Allocated(h)
        <3>1. f \in h[q].set => \A c \in Pointees(h[q].vals[f]) : k[c].schema = h[c].schema
            BY <1>10, <1>13, <2>2
        <3> QED BY <1>10, <2>2, <3>1 DEF Sound, SlotFits
    <2>3. CASE q \in Range(g)
        <3>1. PICK d \in D : q = g[d]
            BY <1>2, <2>3
        <3>2. \A c \in Children(h, d[2]) : k[g[<<d[1], c>>]].schema = h[c].schema
            BY <1>11
        <3>3. IsCopy(k[q], h, d[2], d[1], g) /\ d[2] \in Allocated(h)
            BY <1>5, <1>7, <3>1
        <3> QED BY <3>2, <3>3, CopyFits
    <2> QED BY <1>9, <2>2, <2>3
<1>15. Owned(k)
    <2>1. SUFFICES ASSUME NEW q \in Allocated(k), NEW e \in k[q].set
                   PROVE /\ NoRepeats(k[q].vals[e])
                         /\ \A c \in Pointees(k[q].vals[e]), p \in Allocated(k) :
                                \A f \in k[p].set :
                                    c \in Pointees(k[p].vals[f]) => p = q /\ f = e
        BY DEF Owned
    <2>2. NoRepeats(k[q].vals[e])
        <3>1. CASE q \in Allocated(h)
            BY <1>10, <2>1, <3>1 DEF Owned
        <3>2. CASE q \in Range(g)
            BY <1>2, <1>7, <2>1, <3>2 DEF IsCopy
        <3> QED BY <1>9, <3>1, <3>2
    <2>3. ASSUME NEW c \in Pointees(k[q].vals[e]), NEW p \in Allocated(k), NEW f \in k[p].set,
                 c \in Pointees(k[p].vals[f])
          PROVE p = q /\ f = e
        <3>1. CASE q \in Allocated(h) /\ p \in Allocated(h)
            BY <1>10, <2>1, <2>3, <3>1 DEF Owned
        <3>2. CASE q \in Allocated(h) /\ p \in Range(g)
            <4>1. c \in Allocated(h)
                BY <1>10, <1>13, <2>1, <2>3, <3>2
            <4>2. PICK d \in D : p = g[d]
                BY <1>2, <3>2
            <4>3. PICK b \in Pointees(h[d[2]].vals[f]) : <<d[1], b>> \in D /\ c = g[<<d[1], b>>]
                BY <1>12, <2>3, <4>2
            <4> QED BY <1>1, <1>2, <4>1, <4>3
        <3>3. CASE q \in Range(g) /\ p \in Allocated(h)
            <4>1. c \in Allocated(h)
                BY <1>10, <1>13, <2>1, <2>3, <3>3
            <4>2. PICK d \in D : q = g[d]
                BY <1>2, <3>3
            <4>3. PICK b \in Pointees(h[d[2]].vals[e]) : <<d[1], b>> \in D /\ c = g[<<d[1], b>>]
                BY <1>12, <2>1, <2>3, <4>2
            <4> QED BY <1>1, <1>2, <4>1, <4>3
        <3>4. CASE q \in Range(g) /\ p \in Range(g)
            <4>1. PICK d \in D : q = g[d]
                BY <1>2, <3>4
            <4>2. PICK z \in D : p = g[z]
                BY <1>2, <3>4
            <4>3. PICK a \in Pointees(h[d[2]].vals[e]) : <<d[1], a>> \in D /\ c = g[<<d[1], a>>]
                BY <1>12, <2>1, <2>3, <4>1
            <4>4. PICK b \in Pointees(h[z[2]].vals[f]) : <<z[1], b>> \in D /\ c = g[<<z[1], b>>]
                BY <1>12, <2>3, <4>2
            <4>5. <<d[1], a>> = <<z[1], b>>
                BY <1>6, <4>3, <4>4
            <4>6. e \in h[d[2]].set /\ f \in h[z[2]].set
                BY <1>12, <2>1, <2>3, <4>1, <4>2
            <4>7. d[2] = z[2] /\ e = f
                <5>1. d[2] \in Allocated(h) /\ z[2] \in Allocated(h)
                    BY <1>5
                <5>2. a \in Pointees(h[d[2]].vals[e]) /\ a \in Pointees(h[z[2]].vals[f])
                    BY <4>3, <4>4, <4>5
                <5>3. ASSUME NEW x \in Allocated(h), NEW y \in Allocated(h), e \in h[x].set,
                             f \in h[y].set, a \in Pointees(h[x].vals[e]), a \in Pointees(h[y].vals[f])
                      PROVE  y = x /\ f = e
                    BY <5>3, OneSlot
                <5> QED BY <4>6, <5>1, <5>2, <5>3
            <4> QED BY <1>5, <4>1, <4>2, <4>5, <4>7
        <3> QED BY <1>9, <3>1, <3>2, <3>3, <3>4
    <2> QED BY <2>2, <2>3
<1>16. ASSUME NEW d \in D, \A e \in D : e[1] = d[1] => d[2] \notin Children(h, e[2])
       PROVE  Unowned(k, g[d])
    <2>1. SUFFICES ASSUME NEW q \in Allocated(k), NEW f \in k[q].set, g[d] \in Pointees(k[q].vals[f])
                   PROVE  FALSE
        BY DEF Unowned
    <2>2. g[d] \in Range(g) /\ g[d] \notin Allocated(h)
        BY <1>1, <1>2
    <2>3. CASE q \in Allocated(h)
        BY <1>10, <1>13, <2>1, <2>2, <2>3
    <2>4. CASE q \in Range(g)
        <3>1. PICK e \in D : q = g[e]
            BY <1>2, <2>4
        <3>2. PICK b \in Pointees(h[e[2]].vals[f]) : <<e[1], b>> \in D /\ g[d] = g[<<e[1], b>>]
            BY <1>12, <2>1, <3>1
        <3>3. d = <<e[1], b>>
            BY <1>6, <3>2
        <3>4. f \in h[e[2]].set
            BY <1>12, <2>1, <3>1
        <3>5. d[2] \in Children(h, e[2])
            BY <3>2, <3>3, <3>4 DEF Children
        <3>6. e[1] = d[1]
            BY <3>3
        <3> QED BY <1>16, <3>5, <3>6
    <2> QED BY <1>9, <2>3, <2>4
<1> QED BY <1>8, <1>9, <1>10, <1>11, <1>14, <1>15, <1>16 DEF k

(* What Reach reaches: messages, those it starts from, and their children. *)
LEMMA ReachCloses ==
    ASSUME NEW h \in Heap, Sound(h), NEW R
    PROVE  /\ Reach(h, R) \subseteq Allocated(h)
           /\ R \cap Allocated(h) \subseteq Reach(h, R)
           /\ \A r \in Reach(h, R) : Children(h, r) \subseteq Reach(h, R)
           /\ \A S \in SUBSET Allocated(h) :
                  R \subseteq S /\ (\A r \in S : Children(h, r) \subseteq S) => Reach(h, R) \subseteq S
<1>1. \A r \in Allocated(h) : Children(h, r) \subseteq Allocated(h)
    BY ChildExists DEF Children
<1>2. ASSUME NEW r \in Reach(h, R), NEW c \in Children(h, r)
      PROVE  c \in Reach(h, R)
    <2>1. c \in Allocated(h)
        BY <1>1 DEF Reach
    <2>2. ASSUME NEW S \in SUBSET Allocated(h), R \subseteq S, \A q \in S : Children(h, q) \subseteq S
          PROVE  c \in S
        BY <2>2 DEF Reach
    <2> QED BY <2>1, <2>2 DEF Reach
<1> QED BY <1>2 DEF Reach

(* Schemas are finite trees, so a message is below itself in no tree. *)
LEMMA NoCycles ==
    ASSUME NEW h \in Heap, Sound(h), NEW x \in Allocated(h)
    PROVE  /\ \A y \in Reach(h, {x}) : x \notin Children(h, y)
           /\ x \notin Reach(h, Children(h, x))
<1>1. PICK depth \in [Type -> 0 .. Cardinality(Type)] : \A t \in Type, f \in Field :
           Fields[t][f].type = "message" => depth[Fields[t][f].schema] < depth[t]
    BY SchemasAreFinite
<1> DEFINE d(r) == depth[h[r].schema]
<1>2. \A r \in Allocated(h) : h[r].schema \in Type /\ h[r].set \subseteq Field
    BY ObjectType DEF Allocated
<1>3. Cardinality(Type) \in Nat
    BY SchemasAreFinite, FS_CardinalityType
<1>4. \A r \in Allocated(h) : d(r) \in Nat
    BY <1>1, <1>2, <1>3
<1>5. \A r \in Allocated(h) : \A c \in Children(h, r) : c \in Allocated(h) /\ d(c) < d(r)
    <2>1. SUFFICES ASSUME NEW r \in Allocated(h), NEW f \in h[r].set, NEW c \in Pointees(h[r].vals[f])
                   PROVE  c \in Allocated(h) /\ d(c) < d(r)
        BY DEF Children
    <2>2. c \in Allocated(h) /\ Fields[h[r].schema][f].type = "message"
          /\ h[c].schema = Fields[h[r].schema][f].schema
        BY ChildExists DEF lookupName
    <2>3. h[r].schema \in Type /\ f \in Field
        BY <1>2
    <2>4. depth[Fields[h[r].schema][f].schema] < depth[h[r].schema]
        BY <1>1, <2>2, <2>3
    <2>5. depth[h[c].schema] < depth[h[r].schema]
        BY <2>2, <2>4
    <2> QED BY <2>2, <2>5
<1> HIDE DEF d
<1> DEFINE Below == {z \in Allocated(h) : d(z) < d(x)}
<1>6. Reach(h, Children(h, x)) \subseteq Below
    <2>1. \A r \in Below : Children(h, r) \subseteq Below
        BY <1>4, <1>5
    <2>2. Children(h, x) \subseteq Below
        BY <1>5
    <2> QED BY <2>1, <2>2, ReachCloses
<1>7. Reach(h, {x}) \subseteq Below \cup {x}
    <2> DEFINE S == Below \cup {x}
    <2>1. \A r \in S : Children(h, r) \subseteq S
        BY <1>4, <1>5
    <2>2. S \in SUBSET Allocated(h) /\ {x} \subseteq S
        OBVIOUS
    <2> HIDE DEF S
    <2>3. Reach(h, {x}) \subseteq S
        BY <2>1, <2>2, ReachCloses
    <2> QED BY <2>3 DEF S
<1>8. x \notin Below
    BY <1>4
<1>9. \A y \in Below \cup {x} : x \notin Children(h, y)
    BY <1>4, <1>5
<1> QED BY <1>6, <1>7, <1>8, <1>9

(* What Set("", m) does to a message. *)
LEMMA CopyFromKeeps ==
    ASSUME NEW h \in Heap, Sound(h), Owned(h),
           NEW m \in Allocated(h), NEW src \in Allocated(h), h[m].schema = h[src].schema,
           NEW g \in [{<<1, x>> : x \in Reach(h, Children(h, src))} -> Unused(h)],
           IsInjective(g)
    PROVE  LET k == copyFrom(h, m, src, g)
           IN  k \in Heap /\ Allocated(h) \subseteq Allocated(k) /\ Sound(k) /\ Owned(k)
<1>1. CASE m = src
    BY <1>1, ClearKeeps DEF copyFrom
<1>2. CASE m # src
    <2> DEFINE R == Reach(h, Children(h, src))
    <2> DEFINE D == {<<1, x>> : x \in R}
    <2> DEFINE k == WithCopies(h, g)
    <2> DEFINE o == deepCopy(h, src, g, 1)
    <2>1. R \subseteq Allocated(h) /\ \A r \in R : Children(h, r) \subseteq R
        BY ReachCloses
    <2>2. Children(h, src) \subseteq R
        <3>1. Children(h, src) \subseteq Allocated(h)
            BY ChildExists DEF Children
        <3> QED BY <3>1, ReachCloses
    <2>3. D \in SUBSET (Nat \X Allocated(h))
        BY <2>1
    <2>4. \A d \in D : d[1] = 1 /\ d[2] \in R /\ d = <<1, d[2]>>
        OBVIOUS
    <2>5. \A x \in R : <<1, x>> \in D
        OBVIOUS
    <2>6. \A d \in D : \A c \in Children(h, d[2]) : <<d[1], c>> \in D
        BY <2>1, <2>4, <2>5
    <2>7. g \in [D -> Unused(h)]
        OBVIOUS
    <2> HIDE DEF D, R
    <2>8. /\ k \in Heap /\ Sound(k) /\ Owned(k)
          /\ Allocated(k) = Allocated(h) \cup Range(g)
          /\ \A r \in Allocated(h) : k[r] = h[r]
          /\ \A d \in D : k[g[d]].schema = h[d[2]].schema
          /\ \A d \in D : (\A e \in D : e[1] = d[1] => d[2] \notin Children(h, e[2]))
                         => Unowned(k, g[d])
        BY <2>3, <2>6, <2>7, CopiesKeep
    <2>9. \A c \in Children(h, src) : <<1, c>> \in D /\ g[<<1, c>>] \in Ref
        BY <2>2, <2>5, <2>7 DEF Unused
    <2>10. \A b, c \in Children(h, src) : g[<<1, b>>] = g[<<1, c>>] => b = c
        BY <2>9, <2>7 DEF IsInjective
    <2>11. IsCopy(o, h, src, 1, g)
        BY <2>9, <2>10, CopiedMessage
    <2> HIDE DEF k, o
    <2>12. \A c \in Children(h, src) : k[g[<<1, c>>]].schema = h[c].schema
        BY <2>8, <2>9
    <2>13. \A f \in Field : LET fs == lookupName(o.schema, f)
                            IN  IF f \in o.set THEN fs.type # "none" /\ SlotFits(k, fs, o.vals[f])
                                ELSE o.vals[f] = NilVal
        BY <2>11, <2>12, CopyFits
    <2>14. ASSUME NEW f \in o.set, NEW c \in Pointees(o.vals[f])
           PROVE  /\ f \in h[src].set
                  /\ \E b \in Pointees(h[src].vals[f]) : b \in Children(h, src) /\ c = g[<<1, b>>]
        <3>1. f \in h[src].set /\ c \in Clones(g, 1, Pointees(h[src].vals[f]))
            BY <2>11 DEF IsCopy
        <3> QED BY <3>1 DEF Clones, Children
    <2>15. ASSUME NEW f \in o.set, NEW c \in Pointees(o.vals[f]),
                  NEW e \in o.set, c \in Pointees(o.vals[e])
           PROVE  e = f
        <3>1. PICK a \in Pointees(h[src].vals[f]) : a \in Children(h, src) /\ c = g[<<1, a>>]
            BY <2>14
        <3>2. PICK b \in Pointees(h[src].vals[e]) : b \in Children(h, src) /\ c = g[<<1, b>>]
            BY <2>14, <2>15
        <3>3. a = b
            BY <2>10, <3>1, <3>2
        <3>4. f \in h[src].set /\ e \in h[src].set
            BY <2>14, <2>15
        <3> QED BY <3>1, <3>2, <3>3, <3>4, OneSlot
    <2>16. ASSUME NEW b \in Children(h, src)
           PROVE  Unowned(k, g[<<1, b>>])
        <3>1. ASSUME NEW y \in R PROVE b \notin Children(h, y)
            <4>1. y # src
                BY NoCycles DEF R
            <4> QED BY <2>1, <4>1 DEF Children, Owned
        <3>2. <<1, b>> \in D /\ \A e \in D : b \notin Children(h, e[2])
            BY <2>4, <2>9, <3>1
        <3> QED BY <2>8, <3>2
    <2>17. \A q \in Allocated(k) \ {m} : \A e \in k[q].set : \A f \in o.set :
               \A c \in Pointees(o.vals[f]) : c \notin Pointees(k[q].vals[e])
        <3>1. ASSUME NEW f \in o.set, NEW c \in Pointees(o.vals[f])
              PROVE  Unowned(k, c)
            BY <2>14, <2>16
        <3> QED BY <3>1 DEF Unowned
    <2>18. m \in Allocated(k) /\ o.schema = k[m].schema /\ o \in Object
        BY <2>8, <2>11 DEF IsCopy
    <2>19. \A f \in o.set : /\ NoRepeats(o.vals[f])
                            /\ \A c \in Pointees(o.vals[f]), e \in o.set :
                                   c \in Pointees(o.vals[e]) => e = f
        BY <2>11, <2>15 DEF IsCopy
    <2> DEFINE l == [k EXCEPT ![m] = o]
    <2>20. k \in Heap /\ Sound(k) /\ Owned(k)
        BY <2>8
    <2>21. l \in Heap /\ Allocated(l) = Allocated(k) /\ Sound(l) /\ Owned(l)
        BY <2>13, <2>17, <2>18, <2>19, <2>20, OverwriteKeeps
    <2>22. copyFrom(h, m, src, g) = l
        BY <1>2 DEF copyFrom, k, o
    <2> QED BY <2>8, <2>21, <2>22
<1> QED BY <1>1, <1>2

(* The messages that a call copies. *)
LEMMA CopyPairsClose ==
    ASSUME NEW h \in Heap, Sound(h),
           NEW n \in Nat, NEW roots \in [1 .. n -> Allocated(h) \cup {Nil}]
    PROVE  LET D == CopyPairs(h, roots)
           IN  /\ D \in SUBSET (Nat \X Allocated(h))
               /\ \A d \in D : \A c \in Children(h, d[2]) : <<d[1], c>> \in D
               /\ \A i \in 1 .. n : roots[i] # Nil =>
                      /\ <<i, roots[i]>> \in D
                      /\ \A e \in D : e[1] = i => roots[i] \notin Children(h, e[2])
<1> DEFINE D == CopyPairs(h, roots)
<1>1. DOMAIN roots = 1 .. n
    OBVIOUS
<1>2. \A i \in 1 .. n : roots[i] # Nil => roots[i] \in Allocated(h) /\ {roots[i]} \ {Nil} = {roots[i]}
    OBVIOUS
<1> DEFINE T(i) == Reach(h, {roots[i]} \ {Nil})
<1>3. D = UNION {{<<i, x>> : x \in T(i)} : i \in 1 .. n}
    BY <1>1 DEF CopyPairs
<1> HIDE DEF D
<1>4. \A i \in 1 .. n : T(i) \subseteq Allocated(h) /\ \A r \in T(i) : Children(h, r) \subseteq T(i)
    BY ReachCloses
<1> HIDE DEF T
<1>5. ASSUME NEW d \in D
      PROVE  /\ d \in Nat \X Allocated(h)
             /\ d[1] \in 1 .. n /\ d[2] \in T(d[1])
             /\ \A c \in Children(h, d[2]) : <<d[1], c>> \in D
    <2>1. PICK i \in 1 .. n : d \in {<<i, x>> : x \in T(i)}
        BY <1>3
    <2>2. PICK x \in T(i) : d = <<i, x>>
        BY <2>1
    <2>3. i \in Nat /\ x \in Allocated(h)
        BY <1>4
    <2>4. d[1] = i /\ d[2] = x
        BY <2>2
    <2>5. \A c \in Children(h, x) : <<i, c>> \in D
        BY <1>3, <1>4
    <2> QED BY <2>2, <2>3, <2>4, <2>5
<1>6. \A i \in 1 .. n : \A x \in T(i) : <<i, x>> \in D
    BY <1>3
<1>7. ASSUME NEW i \in 1 .. n, roots[i] # Nil
      PROVE  /\ <<i, roots[i]>> \in D
             /\ \A e \in D : e[1] = i => roots[i] \notin Children(h, e[2])
    <2>1. {roots[i]} \cap Allocated(h) \subseteq Reach(h, {roots[i]})
        BY ReachCloses
    <2>2. <<i, roots[i]>> \in D
        BY <1>2, <1>6, <1>7, <2>1 DEF T
    <2>3. \A y \in Reach(h, {roots[i]}) : roots[i] \notin Children(h, y)
        BY <1>2, <1>7, NoCycles
    <2>4. \A e \in D : e[1] = i => e[2] \in Reach(h, {roots[i]})
        BY <1>2, <1>5, <1>7 DEF T
    <2> QED BY <2>2, <2>3, <2>4
<1> QED BY <1>5, <1>7 DEF D

(* Storing a value made of copies, and of what the slot held before. *)
LEMMA StoreKeeps ==
    ASSUME NEW h \in Heap, Sound(h), Owned(h),
           NEW r \in Allocated(h), NEW f \in Field,
           lookupName(h[r].schema, f).type = "message",
           NEW n \in Nat, NEW roots \in [1 .. n -> Allocated(h) \cup {Nil}],
           \A i \in 1 .. n : roots[i] # Nil => h[roots[i]].schema = lookupName(h[r].schema, f).schema,
           NEW g \in [CopyPairs(h, roots) -> Unused(h)], IsInjective(g),
           NEW v \in Val, NoRepeats(v),
           v.kind = "message" \/ (lookupName(h[r].schema, f).repeated /\ v.kind = "messages"),
           \A c \in Pointees(v) : \/ \E i \in 1 .. n : roots[i] # Nil /\ c = g[<<i, roots[i]>>]
                                  \/ f \in h[r].set /\ c \in Pointees(h[r].vals[f])
    PROVE  LET k == Put(WithCopies(h, g), r, f, v)
           IN  k \in Heap /\ Allocated(h) \subseteq Allocated(k) /\ Sound(k) /\ Owned(k)
<1> DEFINE D == CopyPairs(h, roots)
<1> DEFINE k == WithCopies(h, g)
<1> DEFINE fs == lookupName(h[r].schema, f)
<1>1. /\ D \in SUBSET (Nat \X Allocated(h))
      /\ \A d \in D : \A c \in Children(h, d[2]) : <<d[1], c>> \in D
      /\ \A i \in 1 .. n : roots[i] # Nil =>
             /\ <<i, roots[i]>> \in D
             /\ \A e \in D : e[1] = i => roots[i] \notin Children(h, e[2])
    BY CopyPairsClose
<1>2. g \in [D -> Unused(h)]
    OBVIOUS
<1> HIDE DEF D
<1>3. /\ k \in Heap /\ Sound(k) /\ Owned(k)
      /\ Allocated(k) = Allocated(h) \cup Range(g)
      /\ \A q \in Allocated(h) : k[q] = h[q]
      /\ \A d \in D : k[g[d]].schema = h[d[2]].schema
      /\ \A d \in D : (\A e \in D : e[1] = d[1] => d[2] \notin Children(h, e[2]))
                     => Unowned(k, g[d])
    BY <1>1, <1>2, CopiesKeep
<1> HIDE DEF k
<1>4. ASSUME NEW i \in 1 .. n, roots[i] # Nil
      PROVE  k[g[<<i, roots[i]>>]].schema = fs.schema /\ Unowned(k, g[<<i, roots[i]>>])
    BY <1>1, <1>3, <1>4
<1>5. k[r] = h[r] /\ r \in Allocated(k)
    BY <1>3
<1>6. ASSUME NEW c \in Pointees(v)
      PROVE  /\ k[c].schema = fs.schema
             /\ (f \in k[r].set /\ c \in Pointees(k[r].vals[f])) \/ Unowned(k, c)
    <2>1. CASE \E i \in 1 .. n : roots[i] # Nil /\ c = g[<<i, roots[i]>>]
        BY <1>4, <2>1
    <2>2. CASE f \in h[r].set /\ c \in Pointees(h[r].vals[f])
        <3>1. c \in Allocated(h) /\ h[c].schema = fs.schema
            BY <2>2, ChildExists
        <3> QED BY <1>3, <1>5, <2>2, <3>1
    <2> QED BY <2>1, <2>2
<1>7. SlotFits(k, fs, v) /\ fs.type # "none"
    BY <1>6 DEF SlotFits
<1> DEFINE l == Put(k, r, f, v)
<1>8. l \in Heap /\ Allocated(l) = Allocated(k) /\ Sound(l) /\ Owned(l)
    BY <1>3, <1>5, <1>6, <1>7, PutKeeps
<1> QED BY <1>3, <1>8 DEF k

(* Freeing what the program cannot reach. *)
LEMMA CollectKeeps ==
    ASSUME NEW h \in Heap, Sound(h), Owned(h), NEW R
    PROVE  LET k == [q \in Ref |-> IF q \in Reach(h, R) THEN h[q] ELSE NoObject]
           IN  /\ k \in Heap /\ Sound(k) /\ Owned(k)
               /\ Allocated(k) = Reach(h, R)
<1> DEFINE k == [q \in Ref |-> IF q \in Reach(h, R) THEN h[q] ELSE NoObject]
<1>1. /\ Reach(h, R) \subseteq Allocated(h)
      /\ \A r \in Reach(h, R) : Children(h, r) \subseteq Reach(h, R)
    BY ReachCloses
<1>2. \A q \in Ref : k[q] = IF q \in Reach(h, R) THEN h[q] ELSE NoObject
    OBVIOUS
<1>3. k \in Heap
    BY DEF Heap
<1> HIDE DEF k
<1>4. Allocated(k) = Reach(h, R)
    BY <1>1, <1>2 DEF Allocated, NoObject, newMessage
<1>5. \A q \in Allocated(k) : q \in Allocated(h) /\ k[q] = h[q]
    BY <1>1, <1>2, <1>4 DEF Allocated
<1>6. Sound(k)
    <2>1. ASSUME NEW q \in Allocated(k), NEW f \in Field, f \in h[q].set
          PROVE  \A c \in Pointees(h[q].vals[f]) : k[c] = h[c]
        BY <1>1, <1>4, <1>5, <2>1 DEF Children
    <2>2. SUFFICES ASSUME NEW q \in Allocated(k), NEW f \in Field
                   PROVE LET fs == lookupName(h[q].schema, f)
                         IN  IF f \in h[q].set THEN fs.type # "none" /\ SlotFits(k, fs, h[q].vals[f])
                             ELSE h[q].vals[f] = NilVal
        BY <1>5 DEF Sound
    <2> QED BY <1>5, <2>1 DEF Sound, SlotFits
<1>7. Owned(k)
    BY <1>5 DEF Owned
<1> QED BY <1>3, <1>4, <1>6, <1>7 DEF k

-----------------------------------------------------------------------------
(* Lists of messages: every list that a call stores is made of the one in the slot and
   of the references in C, which are in no slot. *)
LEMMA ReplaceElement ==
    ASSUME NEW s \in Seq(Ref \cup {Nil}), NEW i \in DOMAIN s, NEW c \in Ref \cup {Nil},
           NoRepeats(MessagesVal(s)), c # Nil => c \notin Range(s)
    PROVE  LET v == MessagesVal([s EXCEPT ![i] = c])
           IN  /\ v \in Val /\ v.kind = "messages" /\ NoRepeats(v)
               /\ Pointees(v) \subseteq Pointees(MessagesVal(s)) \cup ({c} \ {Nil})
<1>1. PICK n \in Nat : s \in [1 .. n -> Ref \cup {Nil}]
    BY SeqDef
<1> DEFINE z == [s EXCEPT ![i] = c]
<1>2. z \in [1 .. n -> Ref \cup {Nil}] /\ DOMAIN z = 1 .. n /\ DOMAIN s = 1 .. n
    BY <1>1
<1>3. z \in Seq(Ref \cup {Nil})
    BY <1>2, SeqDef
<1>4. \A j \in 1 .. n : z[j] = IF j = i THEN c ELSE s[j]
    BY <1>1
<1> HIDE DEF z
<1>5. \A j \in 1 .. n : s[j] \in Range(s)
    BY <1>2 DEF Range
<1>6. NoRepeats(MessagesVal(z))
    BY <1>2, <1>4, <1>5 DEF NoRepeats, MessagesVal
<1>7. Pointees(MessagesVal(z)) \subseteq Pointees(MessagesVal(s)) \cup ({c} \ {Nil})
    BY <1>2, <1>4, <1>5 DEF Pointees, MessagesVal, Range
<1>8. MessagesVal(z) \in Val /\ MessagesVal(z).kind = "messages"
    BY <1>3 DEF MessagesVal, Val
<1> QED BY <1>6, <1>7, <1>8 DEF z

LEMMA AppendElement ==
    ASSUME NEW s \in Seq(Ref \cup {Nil}), NEW c \in Ref,
           NoRepeats(MessagesVal(s)), c \notin Range(s)
    PROVE  LET v == MessagesVal(Append(s, c))
           IN  /\ v \in Val /\ v.kind = "messages" /\ NoRepeats(v)
               /\ Pointees(v) \subseteq Pointees(MessagesVal(s)) \cup {c}
<1>1. PICK n \in Nat : s \in [1 .. n -> Ref \cup {Nil}]
    BY SeqDef
<1>2. Len(s) = n /\ DOMAIN s = 1 .. n
    BY <1>1
<1> DEFINE z == Append(s, c)
<1>3. z \in Seq(Ref \cup {Nil}) /\ DOMAIN z = 1 .. n + 1
    BY <1>1, <1>2, AppendProperties
<1>4. \A j \in 1 .. n + 1 : z[j] = IF j = n + 1 THEN c ELSE s[j]
    BY <1>1, <1>2, AppendProperties
<1> HIDE DEF z
<1>5. \A j \in 1 .. n : s[j] \in Range(s)
    BY <1>2 DEF Range
<1>6. NoRepeats(MessagesVal(z))
    BY <1>2, <1>3, <1>4, <1>5 DEF NoRepeats, MessagesVal
<1>7. Pointees(MessagesVal(z)) \subseteq Pointees(MessagesVal(s)) \cup {c}
    BY <1>2, <1>3, <1>4, <1>5 DEF Pointees, MessagesVal, Range
<1>8. MessagesVal(z) \in Val /\ MessagesVal(z).kind = "messages"
    BY <1>3 DEF MessagesVal, Val
<1> QED BY <1>6, <1>7, <1>8 DEF z

\* A list of copies.
LEMMA CopiesList ==
    ASSUME NEW h \in Heap, Sound(h),
           NEW n \in Nat, NEW roots \in [1 .. n -> Allocated(h) \cup {Nil}],
           NEW g \in [CopyPairs(h, roots) -> Unused(h)], IsInjective(g)
    PROVE  LET s == [i \in DOMAIN roots |-> Clone(g, i, roots[i])]
               v == MessagesVal(s)
           IN  /\ v \in Val /\ v.kind = "messages" /\ NoRepeats(v)
               /\ \A c \in Pointees(v) : \E i \in 1 .. n : roots[i] # Nil /\ c = g[<<i, roots[i]>>]
<1> DEFINE s == [i \in DOMAIN roots |-> Clone(g, i, roots[i])]
<1>1. \A i \in 1 .. n : roots[i] # Nil => <<i, roots[i]>> \in CopyPairs(h, roots)
    BY CopyPairsClose
<1>2. DOMAIN s = 1 .. n /\ \A i \in 1 .. n : s[i] = IF roots[i] = Nil THEN Nil ELSE g[<<i, roots[i]>>]
    BY DEF Clone
<1>3. \A i \in 1 .. n : roots[i] # Nil => g[<<i, roots[i]>>] \in Ref
    BY <1>1 DEF Unused
<1>4. s \in [1 .. n -> Ref \cup {Nil}]
    BY <1>2, <1>3
<1> HIDE DEF s
<1>5. s \in Seq(Ref \cup {Nil})
    BY <1>4, SeqDef
<1>6. ASSUME NEW i \in 1 .. n, NEW j \in 1 .. n, s[i] = s[j], s[i] # Nil
      PROVE  i = j
    <2>1. <<i, roots[i]>> = <<j, roots[j]>>
        BY <1>1, <1>2, <1>6 DEF IsInjective
    <2> QED BY <2>1
<1>7. NoRepeats(MessagesVal(s))
    BY <1>2, <1>6 DEF NoRepeats, MessagesVal
<1>8. ASSUME NEW c \in Pointees(MessagesVal(s))
      PROVE  \E i \in 1 .. n : roots[i] # Nil /\ c = g[<<i, roots[i]>>]
    <2>1. PICK i \in 1 .. n : c = s[i] /\ c # Nil
        BY <1>2 DEF Pointees, MessagesVal, Range
    <2> QED BY <1>2, <2>1
<1>9. MessagesVal(s) \in Val /\ MessagesVal(s).kind = "messages"
    BY <1>5 DEF MessagesVal, Val
<1> QED BY <1>7, <1>8, <1>9 DEF s

-----------------------------------------------------------------------------
(* The store *)

\* The messages an argument refers to.
ArgRefs(a) == {r \in Ref : \/ a = MessageVal(r)
                           \/ IsSlice(a) /\ \E i \in DOMAIN a.elems : a.elems[i] = MessageVal(r)}

\* The caller's variables, the message a walk is at and the messages in the argument of
\* a call exist.
HeldExist == \A v \in Var : held[v] # Nil => held[v] \in Allocated(heap)

WalkExists == pc \in {"Set", "Append", "Clear"} =>
    call \in Call /\ cur \in Allocated(heap) /\ ArgRefs(call.arg) \subseteq Allocated(heap)

SchemaExists == pc = "verifyClearPath" => vschema \in Type

StoreInv == TypeOK /\ Sound(heap) /\ Owned(heap) /\ HeldExist /\ WalkExists /\ SchemaExists

-----------------------------------------------------------------------------
(* The three ways a step of a call goes on. *)

\* A function returns.
LEMMA DoneKeeps ==
    ASSUME StoreInv, NEW e \in Errors, Done(e), UNCHANGED <<held, call, walk, pre>>,
           heap' \in Heap, Sound(heap'), Owned(heap'), Allocated(heap) \subseteq Allocated(heap')
    PROVE  StoreInv'
BY DEF StoreInv, TypeOK, HeldExist, WalkExists, SchemaExists, Done, Goto, walk

\* The walk goes on to message r.
LEMMA AdvanceKeeps ==
    ASSUME StoreInv, pc \in {"Set", "Append", "Clear"}, segs # <<>>,
           NEW r, Advance(r), r \in Allocated(heap'),
           heap' \in Heap, Sound(heap'), Owned(heap'), Allocated(heap) \subseteq Allocated(heap')
    PROVE  StoreInv'
<1>1. segs' \in Seq(Seg)
    BY HeadTailProperties DEF StoreInv, TypeOK, Advance
<1>2. r \in Ref
    BY DEF Allocated
<1> QED BY <1>1, <1>2 DEF StoreInv, TypeOK, HeldExist, WalkExists, SchemaExists, Advance

\* The walk goes on in the same heap.
LEMMA WalkOnKeeps ==
    ASSUME StoreInv, pc \in {"Set", "Append", "Clear"}, segs # <<>>,
           NEW r \in Allocated(heap), Advance(r), heap' = heap
    PROVE  StoreInv'
<1>1. heap' \in Heap /\ Sound(heap') /\ Owned(heap')
    BY DEF StoreInv, TypeOK
<1>2. r \in Allocated(heap') /\ Allocated(heap) \subseteq Allocated(heap')
    OBVIOUS
<1> QED BY <1>1, <1>2, AdvanceKeeps

\* A call begins.
LEMMA StartKeeps ==
    ASSUME StoreInv, NEW op \in {"Set", "Append", "Clear"}, NEW v \in Var, NEW p \in Path,
           NEW a \in Arg, ArgRefs(a) \subseteq Allocated(heap), Start(op, v, p, a),
           (pc' = op /\ err' = err) \/ (pc' = "done" /\ err' \in Errors)
    PROVE  StoreInv'
<1>1. held[v] \in Allocated(heap) /\ held[v] \in Ref
    BY DEF StoreInv, TypeOK, HeldExist, Start
<1>2. call' \in Call /\ call'.arg = a
    BY <1>1 DEF Start, Call
<1>3. p \in Seq(Seg)
    BY MessageAssumption
<1> QED BY <1>1, <1>2, <1>3 DEF StoreInv, TypeOK, HeldExist, WalkExists, SchemaExists, Start

-----------------------------------------------------------------------------
(* Starting: Begin, Return, Collect. *)
LEMMA NewKeeps ==
    ASSUME StoreInv, NEW v \in Var, NEW t \in Top, New(v, t)
    PROVE  StoreInv'
<1>1. PICK r \in Unused(heap) : /\ heap' = [heap EXCEPT ![r] = newMessage(t)]
                                /\ Hold(v, r)
    BY DEF New
<1>2. t \in Type /\ r \in Ref
    BY MessageAssumption DEF Unused
<1>3. /\ heap' \in Heap /\ Sound(heap') /\ Owned(heap')
      /\ Allocated(heap') = Allocated(heap) \cup {r}
    BY <1>1, <1>2, MakeKeeps DEF StoreInv, TypeOK
<1> QED
    BY <1>1, <1>2, <1>3
    DEF StoreInv, TypeOK, HeldExist, WalkExists, SchemaExists, Hold, walk

\* Get(...).Message() finds a message that exists, or nil.
LEMMA MessageAtExists ==
    ASSUME NEW h \in Heap, h = heap, Sound(h), NEW m \in Allocated(h), NEW seg \in Seg
    PROVE  messageAt(m, seg) \in Allocated(h) \cup {Nil}
<1> DEFINE f == seg.field
<1> DEFINE v == h[m].vals[f]
<1>1. f \in Field /\ seg.idx \in Nat
    BY DEF Seg
<1>2. v \in Val
    BY <1>1, ObjectType DEF Allocated
<1>3. CASE f \in h[m].set /\ v.kind = "message"
    <2>1. v.ref \in Pointees(v)
        BY <1>3 DEF Pointees
    <2>2. v.ref \in Allocated(h)
        BY <1>3, <2>1, ChildExists
    <2> QED BY <1>3, <2>2 DEF messageAt
<1>4. CASE f \in h[m].set /\ v.kind = "messages"
    <2>1. \A j \in DOMAIN v.elems : v.elems[j] # Nil => v.elems[j] \in Pointees(v)
        BY <1>4 DEF Pointees, Range
    <2>2. \A j \in DOMAIN v.elems : v.elems[j] # Nil => v.elems[j] \in Allocated(h)
        BY <1>4, <2>1, ChildExists
    <2>3. v.elems \in Seq(Ref \cup {Nil})
        BY <1>2, <1>4 DEF Val, NilVal
    <2>4. seg.idx < Len(v.elems) => seg.idx + 1 \in DOMAIN v.elems
        BY <1>1, <2>3, LenProperties
    <2> QED BY <1>4, <2>2, <2>4 DEF messageAt
<1>5. CASE f \notin h[m].set \/ v.kind \notin {"message", "messages"}
    BY <1>5 DEF messageAt
<1> QED BY <1>3, <1>4, <1>5

LEMMA GetMessageKeeps ==
    ASSUME StoreInv, NEW v \in Var, NEW w \in Var, NEW seg \in Seg, GetMessage(v, w, seg)
    PROVE  StoreInv'
<1>1. held[w] \in Allocated(heap)
    BY DEF StoreInv, HeldExist, GetMessage
<1>2. messageAt(held[w], seg) \in Allocated(heap) \cup {Nil}
    BY <1>1, MessageAtExists DEF StoreInv, TypeOK
<1>3. heap' = heap /\ Hold(v, messageAt(held[w], seg))
    BY DEF GetMessage
<1> DEFINE r == messageAt(held[w], seg)
<1> HIDE DEF r
<1>4. r \in Ref \cup {Nil}
    BY <1>2 DEF r, Allocated
<1> QED
    BY <1>2, <1>3, <1>4
    DEF r, StoreInv, TypeOK, HeldExist, WalkExists, SchemaExists, Hold, walk

\* The arguments a caller can pass are values and messages that exist.
LEMMA ArgsExist ==
    ASSUME StoreInv, NEW a \in Passed(ElemArgs \cup SliceArgs)
    PROVE  a \in Arg /\ ArgRefs(a) \subseteq Allocated(heap)
<1>1. \A e \in ElemArgs : e \in Elem /\ \A r \in Ref : e = MessageVal(r) => r \in Allocated(heap)
    BY HeapAssumption DEF ElemArgs, Elem, ScalarVal, MessageVal, NilVal, StoreInv, TypeOK, HeldExist
<1>2. \A e \in ElemArgs : ~IsSlice(e)
    BY DEF ElemArgs, IsSlice, ScalarVal, MessageVal, NilVal
<1>3. CASE a \in ElemArgs
    BY <1>1, <1>2, <1>3 DEF Arg, ArgRefs
<1>4. ASSUME NEW S \in SUBSET ElemArgs, NEW s \in Slices(S)
      PROVE  s \in Seq(S) /\ \A i \in DOMAIN s : s[i] \in S
    BY MessageAssumption, SeqDef DEF Slices
<1>5. CASE \E s \in Slices({e \in ElemArgs : e.kind = "message"}) : a = MessagesVal(s)
    <2> DEFINE M == {e \in ElemArgs : e.kind = "message"}
    <2>1. PICK s \in Slices(M) : a = MessagesVal(s)
        BY <1>5
    <2>2. s \in Seq(M) /\ \A i \in DOMAIN s : s[i] \in M
        BY <1>4, <2>1
    <2>3. M \subseteq [kind : {"message"}, ref : Ref \cup {Nil}]
        BY <1>1 DEF Elem, NilVal
    <2>4. s \in Seq([kind : {"message"}, ref : Ref \cup {Nil}])
        BY <2>2, <2>3, SeqMonotonic
    <2>5. a \in Arg
        BY <2>1, <2>4 DEF Arg, MessagesVal
    <2>6. a.elems = s /\ a.kind = "messages"
        BY <2>1 DEF MessagesVal
    <2>7. ArgRefs(a) \subseteq Allocated(heap)
        BY <1>1, <2>2, <2>6 DEF ArgRefs, MessageVal
    <2> QED BY <2>5, <2>7
<1>6. CASE \E s \in Slices(ElemArgs) : a = [kind |-> "anys", elems |-> s]
    <2>1. PICK s \in Slices(ElemArgs) : a = [kind |-> "anys", elems |-> s]
        BY <1>6
    <2>2. s \in Seq(ElemArgs) /\ \A i \in DOMAIN s : s[i] \in ElemArgs
        BY <1>4, <2>1
    <2>3. s \in Seq(Elem)
        BY <1>1, <2>2, SeqMonotonic
    <2>4. a \in Arg
        BY <2>1, <2>3 DEF Arg
    <2>5. a.elems = s /\ a.kind = "anys"
        BY <2>1
    <2>6. ArgRefs(a) \subseteq Allocated(heap)
        BY <1>1, <2>2, <2>5 DEF ArgRefs, MessageVal
    <2> QED BY <2>4, <2>6
<1> QED BY <1>3, <1>5, <1>6 DEF Passed, SliceArgs

LEMMA BeginKeeps ==
    ASSUME StoreInv, Begin
    PROVE  StoreInv'
<1>1. PICK v \in Var :
        \/ \E t \in Top : New(v, t)
        \/ \E w \in Var, p \in Path : Len(p) = 1 /\ GetMessage(v, w, p[1])
        \/ \E p \in Path, a \in Passed(ElemArgs \cup SliceArgs) : BeginSet(v, p, a)
        \/ \E p \in Path, a \in Passed(ElemArgs) : BeginAppend(v, p, a)
        \/ \E p \in Path : BeginClear(v, p)
    BY DEF Begin
<1>2. CASE \E t \in Top : New(v, t)
    BY <1>2, NewKeeps
<1>3. CASE \E w \in Var, p \in Path : Len(p) = 1 /\ GetMessage(v, w, p[1])
    <2>1. PICK w \in Var, p \in Path : Len(p) = 1 /\ GetMessage(v, w, p[1])
        BY <1>3
    <2>2. p[1] \in Seg
        BY <2>1, MessageAssumption
    <2> QED BY <2>1, <2>2, GetMessageKeeps
<1>4. CASE \E p \in Path, a \in Passed(ElemArgs \cup SliceArgs) : BeginSet(v, p, a)
    <2>1. PICK p \in Path, a \in Passed(ElemArgs \cup SliceArgs) : BeginSet(v, p, a)
        BY <1>4
    <2>2. a \in Arg /\ ArgRefs(a) \subseteq Allocated(heap)
        BY ArgsExist
    <2> QED BY <2>1, <2>2, StartKeeps DEF BeginSet, Goto
<1>5. CASE \E p \in Path, a \in Passed(ElemArgs) : BeginAppend(v, p, a)
    <2>1. PICK p \in Path, a \in Passed(ElemArgs) : BeginAppend(v, p, a)
        BY <1>5
    <2>2. a \in Passed(ElemArgs \cup SliceArgs)
        BY DEF Passed
    <2>3. a \in Arg /\ ArgRefs(a) \subseteq Allocated(heap)
        BY <2>2, ArgsExist
    <2> QED BY <2>1, <2>3, StartKeeps DEF BeginAppend, Goto, Done, Errors
<1>6. CASE \E p \in Path : BeginClear(v, p)
    <2>1. NilVal \in Arg /\ ArgRefs(NilVal) = {}
        BY DEF Arg, Elem, ArgRefs, NilVal, MessageVal, IsSlice
    <2> QED BY <1>6, <2>1, StartKeeps DEF BeginClear, Goto
<1> QED BY <1>1, <1>2, <1>3, <1>4, <1>5, <1>6

LEMMA ReturnKeeps ==
    ASSUME StoreInv, Return
    PROVE  StoreInv'
<1>1. Empty \in Heap
    BY DEF Empty, Heap
<1> QED
    BY <1>1, EmptySeq
    DEF Return, Goto, StoreInv, TypeOK, HeldExist, WalkExists, SchemaExists, Errors

LEMMA CollectStepKeeps ==
    ASSUME StoreInv, Collect
    PROVE  StoreInv'
<1>1. /\ heap' \in Heap /\ Sound(heap') /\ Owned(heap')
      /\ Allocated(heap') = Live
    BY CollectKeeps DEF Collect, Live, StoreInv, TypeOK
<1>2. \A v \in Var : held[v] # Nil => held[v] \in Live
    BY ReachCloses DEF Live, StoreInv, TypeOK, HeldExist
<1> QED
    BY <1>1, <1>2
    DEF Collect, StoreInv, TypeOK, HeldExist, WalkExists, SchemaExists, walk

-----------------------------------------------------------------------------
(* Walking: every step reaches a message that exists. *)
LEMMA HeadIsSeg ==
    ASSUME StoreInv, segs # <<>>
    PROVE  Head(segs) \in Seg /\ Head(segs).field \in Field /\ Head(segs).idx \in Nat
<1>1. Head(segs) \in Seg
    BY HeadTailProperties DEF StoreInv, TypeOK
<1> QED BY <1>1 DEF Seg

LEMMA SliceLenNat ==
    ASSUME StoreInv, NEW r \in Allocated(heap), NEW f \in Field
    PROVE  sliceLen(heap[r].vals[f]) \in Nat
<1>1. heap[r].vals[f] \in Val
    BY ObjectType DEF StoreInv, TypeOK, Allocated
<1> QED BY <1>1, LenProperties DEF sliceLen, Val, NilVal

LEMMA SlotElement ==
    ASSUME StoreInv, NEW r \in Allocated(heap), NEW f \in heap[r].set,
           NEW i \in Nat, i < sliceLen(heap[r].vals[f]),
           lookupName(heap[r].schema, f).type = "message"
    PROVE  LET v == heap[r].vals[f]
           IN  /\ v.kind = "messages" /\ v.elems \in Seq(Ref \cup {Nil}) /\ i + 1 \in DOMAIN v.elems
               /\ v.elems[i + 1] # Nil => v.elems[i + 1] \in Allocated(heap)
<1> DEFINE v == heap[r].vals[f]
<1>1. f \in Field /\ v \in Val
    BY ObjectType DEF StoreInv, TypeOK, Allocated
<1>2. SlotFits(heap, lookupName(heap[r].schema, f), v)
    BY <1>1 DEF StoreInv, Sound
<1>3. v.kind = "messages"
    <2>1. v.kind \in {"scalars", "messages"}
        BY DEF sliceLen
    <2>2. v.kind # "scalars"
        BY <1>2 DEF SlotFits, NilVal
    <2> QED BY <2>1, <2>2
<1>4. v.elems \in Seq(Ref \cup {Nil})
    BY <1>1, <1>3 DEF Val, NilVal
<1>5. i + 1 \in DOMAIN v.elems
    <2>1. i < Len(v.elems)
        BY <1>3 DEF sliceLen
    <2> HIDE DEF v
    <2> QED BY <1>4, <2>1, LenProperties
<1>6. ASSUME v.elems[i + 1] # Nil
      PROVE  v.elems[i + 1] \in Allocated(heap)
    <2>1. v.elems[i + 1] \in Pointees(v)
        BY <1>3, <1>5, <1>6 DEF Pointees, Range
    <2> QED BY <2>1, ChildExists DEF StoreInv, TypeOK
<1> QED BY <1>3, <1>4, <1>5, <1>6

LEMMA SlotMessage ==
    ASSUME StoreInv, NEW r \in Allocated(heap), NEW f, HoldsMessage(r, f)
    PROVE  heap[r].vals[f].ref \in Allocated(heap)
<1>1. heap[r].vals[f].ref \in Pointees(heap[r].vals[f])
    BY DEF HoldsMessage, Pointees
<1> QED BY <1>1, ChildExists DEF HoldsMessage, StoreInv, TypeOK

LEMMA WalkKeeps ==
    ASSUME StoreInv, Walk
    PROVE  StoreInv'
<1> DEFINE seg == Head(segs)
<1> DEFINE fs == lookupName(heap[cur].schema, seg.field)
<1> USE DEF StoreInv
<1>1. (Len(segs) > 1 => segs # <<>>) /\ Len(segs) \in Nat
    BY EmptySeq, LenProperties DEF TypeOK
<1>2. CASE DescendFail
    <2>1. descendErr(cur, seg) \in Errors
        BY DEF descendErr, Errors
    <2> QED BY <1>2, <2>1, DoneKeeps DEF DescendFail, TypeOK
<1>3. CASE DescendElement
    <2>1. Descending /\ descendErr(cur, seg) = "nil" /\ seg.hasIdx /\ heap' = heap
          /\ Advance(heap[cur].vals[seg.field].elems[seg.idx + 1])
        BY <1>3 DEF DescendElement
    <2>2. segs # <<>> /\ pc \in {"Set", "Append"} /\ cur \in Allocated(heap)
        BY <1>1, <2>1 DEF Descending, WalkExists
    <2>3. /\ fs.type = "message" /\ seg.field \in heap[cur].set
          /\ ~(seg.idx >= sliceLen(heap[cur].vals[seg.field]))
          /\ heap[cur].vals[seg.field].elems[seg.idx + 1] # Nil
        BY <2>1 DEF descendErr
    <2>4. seg.idx \in Nat /\ sliceLen(heap[cur].vals[seg.field]) \in Nat
        BY <2>2, HeadIsSeg, SliceLenNat
    <2>5. heap[cur].vals[seg.field].elems[seg.idx + 1] \in Allocated(heap)
        <3>1. seg.idx < sliceLen(heap[cur].vals[seg.field])
            BY <2>3, <2>4
        <3>2. seg.field \in heap[cur].set /\ cur \in Allocated(heap) /\ seg.idx \in Nat
              /\ lookupName(heap[cur].schema, seg.field).type = "message"
            BY <2>2, <2>3, <2>4
        <3> QED BY <2>3, <3>1, <3>2, SlotElement, Zenon
    <2>6. pc \in {"Set", "Append", "Clear"} /\ segs # <<>> /\ heap' = heap
        BY <2>1, <2>2
    <2> QED BY <2>1, <2>5, <2>6, WalkOnKeeps
<1>4. CASE DescendMessage
    <2>1. Descending /\ HoldsMessage(cur, seg.field) /\ heap' = heap
          /\ Advance(heap[cur].vals[seg.field].ref)
        BY <1>4 DEF DescendMessage
    <2>2. segs # <<>> /\ pc \in {"Set", "Append"} /\ cur \in Allocated(heap)
        BY <1>1, <2>1 DEF Descending, WalkExists
    <2>3. heap[cur].vals[seg.field].ref \in Allocated(heap)
        BY <2>1, <2>2, SlotMessage
    <2>4. pc \in {"Set", "Append", "Clear"} /\ segs # <<>> /\ heap' = heap
        BY <2>1, <2>2
    <2> QED BY <2>1, <2>3, <2>4, WalkOnKeeps
<1>5. CASE DescendCreate
    <2>1. PICK nm \in Unused(heap) :
              /\ heap' = Put([heap EXCEPT ![nm] = newMessage(fs.schema)], cur, seg.field, MessageVal(nm))
              /\ Advance(nm)
        BY <1>5 DEF DescendCreate
    <2>2. Descending /\ descendErr(cur, seg) = "nil"
        BY <1>5 DEF DescendCreate
    <2>3. segs # <<>> /\ pc \in {"Set", "Append"} /\ cur \in Allocated(heap)
        BY <1>1, <2>2 DEF Descending, WalkExists
    <2>4. seg.field \in Field /\ heap[cur].schema \in Type /\ fs.type = "message"
        BY <2>2, <2>3, HeadIsSeg, ObjectType DEF descendErr, TypeOK, Allocated
    <2>5. fs.schema \in Type
        BY <2>4, HeapAssumption DEF lookupName
    <2> DEFINE k == [heap EXCEPT ![nm] = newMessage(fs.schema)]
    <2>6. /\ k \in Heap /\ Allocated(k) = Allocated(heap) \cup {nm} /\ Sound(k) /\ Owned(k)
          /\ Unowned(k, nm)
        BY <2>5, MakeKeeps DEF TypeOK
    <2>7. nm \in Ref /\ nm # cur
        BY <2>3 DEF Unused
    <2>8. k[cur] = heap[cur] /\ k[nm].schema = fs.schema /\ cur \in Allocated(k)
        BY <2>3, <2>6, <2>7 DEF TypeOK, Heap, Allocated, newMessage
    <2>9. /\ MessageVal(nm) \in Val /\ NoRepeats(MessageVal(nm))
          /\ Pointees(MessageVal(nm)) = {nm}
        BY <2>7 DEF MessageVal, Val, NoRepeats, Pointees
    <2>10. SlotFits(k, fs, MessageVal(nm))
        BY <2>4, <2>8, <2>9 DEF SlotFits, MessageVal
    <2> HIDE DEF k
    <2>11. /\ heap' \in Heap /\ Allocated(heap') = Allocated(k) /\ Sound(heap') /\ Owned(heap')
        <3>1. lookupName(k[cur].schema, seg.field) = fs
            BY <2>8
        <3>2. heap' = Put(k, cur, seg.field, MessageVal(nm))
            BY <2>1 DEF k
        <3>3. lookupName(k[cur].schema, seg.field).type # "none"
              /\ SlotFits(k, lookupName(k[cur].schema, seg.field), MessageVal(nm))
            BY <2>4, <2>10, <3>1
        <3> HIDE DEF fs, seg
        <3> QED BY <2>4, <2>6, <2>8, <2>9, <3>2, <3>3, PutKeeps
    <2> QED BY <2>1, <2>3, <2>6, <2>11, AdvanceKeeps
<1>6. CASE ClearInElement
    <2>1. Clearing /\ clearPathErr = "nil" /\ Len(segs) > 1 /\ seg.hasIdx /\ heap' = heap
          /\ Advance(heap[cur].vals[seg.field].elems[seg.idx + 1])
        BY <1>6 DEF ClearInElement
    <2>2. segs # <<>> /\ pc = "Clear" /\ cur \in Allocated(heap)
        BY <2>1 DEF Clearing, WalkExists
    <2>3. /\ fs.type = "message" /\ seg.field \in heap[cur].set
          /\ ~(seg.idx >= sliceLen(heap[cur].vals[seg.field]))
          /\ heap[cur].vals[seg.field].elems[seg.idx + 1] # Nil
        <3>1. Len(segs) > 1 /\ seg.hasIdx /\ clearPathErr = "nil"
            BY <2>1
        <3>2. fs.type # "none" /\ fs.repeated /\ seg.field \in heap[cur].set
              /\ ~(seg.idx >= sliceLen(heap[cur].vals[seg.field]))
            BY <3>1 DEF clearPathErr
        <3>3. Len(segs) # 1
            <4>1. Len(segs) \in Nat
                BY <1>1
            <4>2. \A n \in Nat : n > 1 => n # 1
                OBVIOUS
            <4> QED BY <3>1, <4>1, <4>2
        <3>4. fs.type = "message"
            BY <3>1, <3>2 DEF clearPathErr
        <3>5. heap[cur].vals[seg.field].elems[seg.idx + 1] # Nil
            BY <3>1, <3>2, <3>3, <3>4, Zenon DEF clearPathErr
        <3> QED BY <3>2, <3>4, <3>5
    <2>4. seg.idx \in Nat /\ sliceLen(heap[cur].vals[seg.field]) \in Nat
        BY <2>2, HeadIsSeg, SliceLenNat
    <2>5. heap[cur].vals[seg.field].elems[seg.idx + 1] \in Allocated(heap)
        <3>1. seg.idx < sliceLen(heap[cur].vals[seg.field])
            BY <2>3, <2>4
        <3>2. seg.field \in heap[cur].set /\ cur \in Allocated(heap) /\ seg.idx \in Nat
              /\ lookupName(heap[cur].schema, seg.field).type = "message"
            BY <2>2, <2>3, <2>4
        <3> QED BY <2>3, <3>1, <3>2, SlotElement, Zenon
    <2>6. pc \in {"Set", "Append", "Clear"} /\ segs # <<>> /\ heap' = heap
        BY <2>1, <2>2
    <2> QED BY <2>1, <2>5, <2>6, WalkOnKeeps
<1>7. CASE ClearInMessage
    <2>1. Clearing /\ HoldsMessage(cur, seg.field) /\ heap' = heap
          /\ Advance(heap[cur].vals[seg.field].ref)
        BY <1>7 DEF ClearInMessage
    <2>2. segs # <<>> /\ pc = "Clear" /\ cur \in Allocated(heap)
        BY <2>1 DEF Clearing, WalkExists
    <2>3. heap[cur].vals[seg.field].ref \in Allocated(heap)
        BY <2>1, <2>2, SlotMessage
    <2>4. pc \in {"Set", "Append", "Clear"} /\ segs # <<>> /\ heap' = heap
        BY <2>1, <2>2
    <2> QED BY <2>1, <2>3, <2>4, WalkOnKeeps
<1>8. CASE ClearInUnset
    <2>1. segs # <<>> /\ cur \in Allocated(heap) /\ fs.type = "message"
        BY <1>1, <1>8, SMTT(30) DEF ClearInUnset, Clearing, WalkExists, clearPathErr
    <2>2. fs.schema \in Type
        BY <2>1, HeadIsSeg, ObjectType, HeapAssumption DEF TypeOK, Allocated, lookupName
    <2>3. Tail(segs) \in Seq(Seg)
        BY <2>1, HeadTailProperties DEF TypeOK
    <2> QED
        BY <1>8, <2>2, <2>3
        DEF ClearInUnset, Goto, TypeOK, HeldExist, WalkExists, SchemaExists
<1>9. CASE VerifyNext
    <2>1. segs # <<>> /\ vschema \in Type /\ lookupName(vschema, seg.field).type = "message"
        BY <1>1, <1>9 DEF VerifyNext, verifyErr, SchemaExists
    <2>2. lookupName(vschema, seg.field).schema \in Type
        BY <2>1, HeadIsSeg, HeapAssumption DEF lookupName
    <2>3. Tail(segs) \in Seq(Seg)
        BY <2>1, HeadTailProperties DEF TypeOK
    <2> QED
        BY <1>9, <2>2, <2>3
        DEF VerifyNext, TypeOK, HeldExist, WalkExists, SchemaExists
<1> QED BY <1>2, <1>3, <1>4, <1>5, <1>6, <1>7, <1>8, <1>9 DEF Walk

-----------------------------------------------------------------------------
(* Ending: what a call stores. *)

\* Free places for the copies, when there is room.
LEMMA PlacementIs ==
    ASSUME NEW h, NEW D, HasRoomFor(h, D)
    PROVE  Placement(h, D) \in [D -> Unused(h)] /\ IsInjective(Placement(h, D))
BY DEF HasRoomFor, Placement

LEMMA LastIsSeg ==
    ASSUME StoreInv, Len(segs) = 1
    PROVE  last \in Seg /\ last.field \in Field /\ last.idx \in Nat
<1>1. segs \in Seq(Seg) /\ Len(segs) \in 1 .. Len(segs)
    BY DEF StoreInv, TypeOK
<1>2. segs[Len(segs)] \in Seg
    BY <1>1, ElementOfSeq
<1>3. last \in Seg
    BY <1>2 DEF last
<1> QED BY <1>3 DEF Seg

\* A message argument of the right schema.
LEMMA ConvertedMessage ==
    ASSUME StoreInv, call \in Call, ArgRefs(call.arg) \subseteq Allocated(heap),
           NEW t, IsMessageOf(t, call.arg)
    PROVE  /\ call.arg.ref \in ArgRefs(call.arg)
           /\ call.arg.ref \in Allocated(heap) /\ heap[call.arg.ref].schema = t
<1> DEFINE a == call.arg
<1>1. a \in Arg /\ a.kind = "message" /\ a.ref # Nil /\ heap[a.ref].schema = t
    BY DEF Call, IsMessageOf
<1>2. a = MessageVal(a.ref) /\ a.ref \in Ref
    BY <1>1 DEF Arg, Elem, NilVal, MessageVal
<1>3. a.ref \in ArgRefs(a)
    BY <1>2 DEF ArgRefs
<1> QED BY <1>1, <1>3

\* A slice argument, for a repeated message field of schema t.
Roots(a) == [i \in DOMAIN a.elems |-> IF a.elems[i] = NilVal THEN Nil ELSE a.elems[i].ref]

LEMMA ConvertedMessages ==
    ASSUME StoreInv, call \in Call, ArgRefs(call.arg) \subseteq Allocated(heap),
           NEW t, convertMessageSlice(t, call.arg) = "nil"
    PROVE  \E n \in Nat :
               /\ Roots(call.arg) \in [1 .. n -> Allocated(heap) \cup {Nil}]
               /\ \A i \in 1 .. n : Roots(call.arg)[i] # Nil =>
                      /\ Roots(call.arg)[i] \in ArgRefs(call.arg)
                      /\ heap[Roots(call.arg)[i]].schema = t
<1> DEFINE a == call.arg
<1>1. a \in Arg
    BY DEF Call
<1>2. IsSlice(a) /\ \A i \in DOMAIN a.elems : IsElementOf(t, a, a.elems[i])
    <2>1. convertMessageSlice(t, a) = "nil"
        OBVIOUS
    <2>2. IsSlice(a)
        BY <2>1 DEF convertMessageSlice
    <2>3. {i \in DOMAIN a.elems : ~IsElementOf(t, a, a.elems[i])} = {}
        BY <2>1, <2>2 DEF convertMessageSlice
    <2> HIDE DEF a
    <2> QED BY <2>2, <2>3
<1>3. a.elems \in Seq(Elem) \/ a.elems \in Seq([kind : {"message"}, ref : Ref \cup {Nil}])
    BY <1>1, <1>2 DEF Arg, Elem, IsSlice, NilVal
<1>4. [kind : {"message"}, ref : Ref \cup {Nil}] \subseteq Elem
    BY DEF Elem
<1>5. PICK n \in Nat : a.elems \in [1 .. n -> Elem]
    <2>1. a.elems \in Seq(Elem)
        BY <1>3, <1>4, SeqMonotonic
    <2> QED BY <2>1, SeqDef
<1>6. ASSUME NEW i \in 1 .. n
      PROVE  LET e == a.elems[i]
                 r == IF e = NilVal THEN Nil ELSE e.ref
             IN  /\ r \in Allocated(heap) \cup {Nil}
                 /\ r # Nil => r \in ArgRefs(a) /\ heap[r].schema = t
    <2> DEFINE e == a.elems[i]
    <2>1. IsElementOf(t, a, e) /\ e \in Elem
        BY <1>2, <1>5
    <2>2. CASE IsMessageOf(t, e)
        <3>1. e = MessageVal(e.ref) /\ e.ref \in Ref /\ e # NilVal /\ heap[e.ref].schema = t
            BY <2>1, <2>2 DEF IsMessageOf, Elem, NilVal, MessageVal
        <3>2. e.ref \in ArgRefs(a)
            BY <1>2, <1>5, <3>1 DEF ArgRefs
        <3> QED BY <3>1, <3>2
    <2> QED BY <2>1, <2>2 DEF IsElementOf
<1>7. DOMAIN a.elems = 1 .. n
    BY <1>5
<1>8. Roots(a) \in [1 .. n -> Allocated(heap) \cup {Nil}]
      /\ \A i \in 1 .. n : Roots(a)[i] # Nil =>
             Roots(a)[i] \in ArgRefs(a) /\ heap[Roots(a)[i]].schema = t
    BY <1>6, <1>7 DEF Roots
<1> QED BY <1>8

\* A scalar argument, and a slice of scalars.
LEMMA ConvertedScalar ==
    ASSUME NEW a \in Arg, IsScalar(a)
    PROVE  convertScalar[a.val] \in Scalar
BY MessageAssumption DEF Arg, Elem, NilVal, IsScalar

LEMMA ConvertedScalars ==
    ASSUME NEW a \in Arg, IsSlice(a), \A i \in DOMAIN a.elems : IsScalar(a.elems[i])
    PROVE  [i \in DOMAIN a.elems |-> convertScalar[a.elems[i].val]] \in Seq(Scalar)
<1>1. a.elems \in Seq(Elem) \/ a.elems \in Seq([kind : {"message"}, ref : Ref \cup {Nil}])
    BY DEF Arg, Elem, IsSlice, NilVal
<1>2. [kind : {"message"}, ref : Ref \cup {Nil}] \subseteq Elem /\ Elem \subseteq Arg
    BY DEF Elem, Arg
<1>3. PICK n \in Nat : a.elems \in [1 .. n -> Elem]
    <2>1. a.elems \in Seq(Elem)
        BY <1>1, <1>2, SeqMonotonic
    <2> QED BY <2>1, SeqDef
<1>4. \A i \in 1 .. n : convertScalar[a.elems[i].val] \in Scalar
    BY <1>2, <1>3, ConvertedScalar
<1>5. [i \in DOMAIN a.elems |-> convertScalar[a.elems[i].val]] \in [1 .. n -> Scalar]
    BY <1>3, <1>4
<1> QED BY <1>5, SeqDef

\* Storing scalars.
LEMMA PutScalarKeeps ==
    ASSUME StoreInv, NEW r \in Allocated(heap), NEW f \in Field,
           lookupName(heap[r].schema, f).type = "scalar",
           NEW v \in Val, v.kind = (IF lookupName(heap[r].schema, f).repeated
                                    THEN "scalars" ELSE "scalar"),
           heap' = Put(heap, r, f, v)
    PROVE  heap' \in Heap /\ Sound(heap') /\ Owned(heap') /\ Allocated(heap) \subseteq Allocated(heap')
<1>1. Pointees(v) = {} /\ NoRepeats(v)
    BY DEF Pointees, NoRepeats
<1>2. SlotFits(heap, lookupName(heap[r].schema, f), v)
    BY DEF SlotFits
<1> QED BY <1>1, <1>2, PutKeeps DEF StoreInv, TypeOK

\* The list in the slot of a repeated scalar field that is set.
LEMMA SlotScalars ==
    ASSUME StoreInv, NEW r \in Allocated(heap), NEW f \in heap[r].set,
           lookupName(heap[r].schema, f).type = "scalar", lookupName(heap[r].schema, f).repeated
    PROVE  heap[r].vals[f].kind = "scalars" /\ heap[r].vals[f].elems \in Seq(Scalar)
<1>1. f \in Field /\ heap[r].vals[f] \in Val
    BY ObjectType DEF StoreInv, TypeOK, Allocated
<1>2. heap[r].vals[f].kind = "scalars"
    BY <1>1 DEF StoreInv, Sound, SlotFits
<1> QED BY <1>1, <1>2 DEF Val, NilVal

\* The state in which an operation stores into the last field of its path.
AtLast == /\ StoreInv /\ call \in Call /\ cur \in Allocated(heap)
          /\ ArgRefs(call.arg) \subseteq Allocated(heap)
          /\ last.field \in Field /\ last.idx \in Nat

LEMMA EndIsAtLast ==
    ASSUME StoreInv, NEW op \in {"Set", "Append", "Clear"}, pc = op, Len(segs) = 1
    PROVE  AtLast
BY LastIsSeg DEF AtLast, StoreInv, WalkExists

\* What every store must leave behind.
HeapOK == heap' \in Heap /\ Sound(heap') /\ Owned(heap') /\ Allocated(heap) \subseteq Allocated(heap')

\* Storing copies of the messages in roots.
LEMMA StoreAtLast ==
    ASSUME AtLast, lastSchema.type = "message",
           NEW n \in Nat, NEW roots \in [1 .. n -> Allocated(heap) \cup {Nil}],
           \A i \in 1 .. n : roots[i] # Nil => heap[roots[i]].schema = lastSchema.schema,
           NEW g \in [CopyPairs(heap, roots) -> Unused(heap)], IsInjective(g),
           NEW v \in Val, NoRepeats(v),
           v.kind = "message" \/ (lastSchema.repeated /\ v.kind = "messages"),
           \A c \in Pointees(v) : \/ \E i \in 1 .. n : roots[i] # Nil /\ c = g[<<i, roots[i]>>]
                                  \/ slotIsSet /\ c \in Pointees(slot),
           heap' = Put(WithCopies(heap, g), cur, last.field, v)
    PROVE  HeapOK
<1>1. lastSchema = lookupName(heap[cur].schema, last.field)
    BY DEF lastSchema
<1>2. \A c \in Pointees(v) :
          \/ \E i \in 1 .. n : roots[i] # Nil /\ c = g[<<i, roots[i]>>]
          \/ last.field \in heap[cur].set /\ c \in Pointees(heap[cur].vals[last.field])
    BY DEF slot, slotIsSet
<1>3. heap \in Heap /\ Sound(heap) /\ Owned(heap) /\ cur \in Allocated(heap) /\ last.field \in Field
    BY DEF AtLast, StoreInv, TypeOK
<1> DEFINE k == Put(WithCopies(heap, g), cur, last.field, v)
<1>4. k \in Heap /\ Allocated(heap) \subseteq Allocated(k) /\ Sound(k) /\ Owned(k)
    BY <1>1, <1>2, <1>3, StoreKeeps
<1> QED BY <1>4 DEF HeapOK

\* Storing a copy of one message x.
LEMMA OneCopy ==
    ASSUME StoreInv, NEW x \in Allocated(heap), HasRoomFor(heap, CopyPairs(heap, <<x>>))
    PROVE  LET g == Placement(heap, CopyPairs(heap, <<x>>))
           IN  /\ g \in [CopyPairs(heap, <<x>>) -> Unused(heap)] /\ IsInjective(g)
               /\ Clone(g, 1, x) = g[<<1, x>>] /\ Clone(g, 1, x) \in Unused(heap)
<1> DEFINE roots == <<x>>
<1>1. heap \in Heap /\ Sound(heap) /\ 1 \in 1 .. 1 /\ x # Nil
    BY HeapAssumption DEF StoreInv, TypeOK, Allocated
<1>2. roots \in [1 .. 1 -> Allocated(heap) \cup {Nil}] /\ roots[1] = x
    OBVIOUS
<1>3. HasRoomFor(heap, CopyPairs(heap, roots))
    OBVIOUS
<1> DEFINE g == Placement(heap, CopyPairs(heap, roots))
<1> HIDE DEF roots
<1>4. <<1, roots[1]>> \in CopyPairs(heap, roots)
    BY <1>1, <1>2, CopyPairsClose
<1>5. g \in [CopyPairs(heap, roots) -> Unused(heap)] /\ IsInjective(g)
    BY <1>3, PlacementIs
<1>6. Clone(g, 1, x) = g[<<1, x>>] /\ Clone(g, 1, x) \in Unused(heap)
    BY <1>1, <1>2, <1>4, <1>5 DEF Clone
<1> QED BY <1>5, <1>6 DEF roots

LEMMA StoreOne ==
    ASSUME AtLast, lastSchema.type = "message",
           NEW x \in Allocated(heap), heap[x].schema = lastSchema.schema,
           HasRoomFor(heap, CopyPairs(heap, <<x>>)),
           NEW v \in Val, NoRepeats(v),
           v.kind = "message" \/ (lastSchema.repeated /\ v.kind = "messages"),
           \A c \in Pointees(v) :
               \/ c = Clone(Placement(heap, CopyPairs(heap, <<x>>)), 1, x)
               \/ slotIsSet /\ c \in Pointees(slot),
           heap' = Put(WithCopies(heap, Placement(heap, CopyPairs(heap, <<x>>))), cur, last.field, v)
    PROVE  HeapOK
<1> DEFINE roots == <<x>>
<1> DEFINE g == Placement(heap, CopyPairs(heap, roots))
<1>1. roots \in [1 .. 1 -> Allocated(heap) \cup {Nil}] /\ roots[1] = x /\ x # Nil
    BY HeapAssumption DEF Allocated
<1>2. /\ g \in [CopyPairs(heap, roots) -> Unused(heap)] /\ IsInjective(g)
      /\ Clone(g, 1, x) = g[<<1, x>>]
    BY OneCopy DEF AtLast
<1>3. heap' = Put(WithCopies(heap, g), cur, last.field, v)
    OBVIOUS
<1>4. \A c \in Pointees(v) : c = Clone(g, 1, x) \/ (slotIsSet /\ c \in Pointees(slot))
    OBVIOUS
<1> HIDE DEF roots, g
<1>5. 1 \in 1 .. 1 /\ \A i \in 1 .. 1 : i = 1
    OBVIOUS
<1>6. \A i \in 1 .. 1 : roots[i] # Nil => heap[roots[i]].schema = lastSchema.schema
    BY <1>1, <1>5
<1>7. \A c \in Pointees(v) :
             \/ \E i \in 1 .. 1 : roots[i] # Nil /\ c = g[<<i, roots[i]>>]
             \/ slotIsSet /\ c \in Pointees(slot)
    BY <1>1, <1>2, <1>4, <1>5
<1> DEFINE n == 1
<1>8. /\ n \in Nat /\ roots \in [1 .. n -> Allocated(heap) \cup {Nil}]
      /\ \A i \in 1 .. n : roots[i] # Nil => heap[roots[i]].schema = lastSchema.schema
      /\ \A c \in Pointees(v) : \/ \E i \in 1 .. n : roots[i] # Nil /\ c = g[<<i, roots[i]>>]
                                \/ slotIsSet /\ c \in Pointees(slot)
    BY <1>1, <1>6, <1>7
<1> HIDE DEF n
<1> QED BY <1>2, <1>3, <1>8, StoreAtLast

LEMMA setFieldKeeps ==
    ASSUME StoreInv, setField
    PROVE  StoreInv'
<1> DEFINE a == call.arg
<1> DEFINE fs == lastSchema
<1>1. AtLast /\ setErr = "nil" /\ ~last.hasIdx
    BY EndIsAtLast DEF setField, Setting, AtEnd
<1>2. fs.type # "none" /\ setFieldErr(fs, a) = "nil"
    BY <1>1 DEF setErr
<1>3. fs.type \in {"scalar", "message"} /\ fs = lookupName(heap[cur].schema, last.field)
    <2>1. heap[cur].schema \in Type
        BY <1>1, ObjectType DEF AtLast, StoreInv, TypeOK, Allocated
    <2> QED BY <1>1, <1>2, <2>1, HeapAssumption DEF lastSchema, lookupName, FieldSchema, NoField, AtLast
<1>4. CASE a = NilVal /\ heap' = Unset(heap, cur, last.field)
    <2>1. HeapOK
        BY <1>1, <1>4, UnsetKeeps DEF AtLast, StoreInv, TypeOK, HeapOK
    <2> QED BY <2>1, DoneKeeps DEF setField, Finish, HeapOK, Errors
<1>5. CASE /\ a # NilVal /\ fs.repeated /\ fs.type = "message"
           /\ StoreCopies(Roots(a), MessagesVal)
    <2> DEFINE D == CopyPairs(heap, Roots(a))
    <2> DEFINE g == Placement(heap, D)
    <2> DEFINE v == MessagesVal([i \in DOMAIN Roots(a) |-> Clone(g, i, Roots(a)[i])])
    <2>1. convertMessageSlice(fs.schema, a) = "nil"
        BY <1>2, <1>5 DEF setFieldErr, convertToSlice
    <2>2. PICK n \in Nat :
              /\ Roots(a) \in [1 .. n -> Allocated(heap) \cup {Nil}]
              /\ \A i \in 1 .. n : Roots(a)[i] # Nil => heap[Roots(a)[i]].schema = fs.schema
        BY <1>1, <2>1, ConvertedMessages DEF AtLast
    <2>3. HasRoomFor(heap, D) /\ heap' = Put(WithCopies(heap, g), cur, last.field, v)
        BY <1>5 DEF StoreCopies
    <2>4. g \in [D -> Unused(heap)] /\ IsInjective(g)
        BY <2>3, PlacementIs
    <2> HIDE DEF g
    <2>5. /\ v \in Val /\ v.kind = "messages" /\ NoRepeats(v)
          /\ \A c \in Pointees(v) : \E i \in 1 .. n : Roots(a)[i] # Nil /\ c = g[<<i, Roots(a)[i]>>]
        BY <2>2, <2>4, CopiesList DEF StoreInv, TypeOK
    <2>6. heap' = Put(WithCopies(heap, g), cur, last.field, v)
        BY <2>3
    <2> HIDE DEF v, D
    <2>7. HeapOK
        BY <1>1, <1>5, <2>2, <2>4, <2>5, <2>6, StoreAtLast, ZenonT(40) DEF D
    <2> QED BY <2>7, DoneKeeps DEF setField, Finish, HeapOK, Errors
<1>6. CASE /\ a # NilVal /\ fs.repeated /\ fs.type = "scalar"
           /\ heap' = Put(heap, cur, last.field, ScalarsVal(
                          [i \in DOMAIN a.elems |-> convertScalar[a.elems[i].val]]))
    <2> DEFINE s == [i \in DOMAIN a.elems |-> convertScalar[a.elems[i].val]]
    <2>1. IsSlice(a) /\ \A i \in DOMAIN a.elems : IsScalar(a.elems[i])
        BY <1>2, <1>6 DEF setFieldErr, convertToSlice
    <2>2. s \in Seq(Scalar)
        BY <1>1, <2>1, ConvertedScalars DEF AtLast, Call
    <2> HIDE DEF s
    <2>3. ScalarsVal(s) \in Val /\ ScalarsVal(s).kind = "scalars"
        BY <2>2 DEF ScalarsVal, Val
    <2>4. heap' = Put(heap, cur, last.field, ScalarsVal(s))
        BY <1>6 DEF s
    <2>5. HeapOK
        BY <1>1, <1>3, <1>6, <2>3, <2>4, PutScalarKeeps DEF AtLast, HeapOK
    <2> QED BY <2>5, DoneKeeps DEF setField, Finish, HeapOK, Errors
<1>7. CASE /\ a # NilVal /\ ~fs.repeated /\ fs.type = "message"
           /\ StoreCopies(<<a.ref>>, LAMBDA c : MessageVal(c[1]))
    <2> DEFINE D == CopyPairs(heap, <<a.ref>>)
    <2> DEFINE g == Placement(heap, D)
    <2> DEFINE c1 == Clone(g, 1, a.ref)
    <2>1. IsMessageOf(fs.schema, a)
        BY <1>2, <1>7 DEF setFieldErr, convertElement
    <2>2. a.ref \in Allocated(heap) /\ heap[a.ref].schema = fs.schema
        BY <1>1, <2>1, ConvertedMessage DEF AtLast
    <2>3. HasRoomFor(heap, D) /\ heap' = Put(WithCopies(heap, g), cur, last.field, MessageVal(c1))
        BY <1>7 DEF StoreCopies
    <2>4. c1 \in Ref
        BY <1>1, <2>2, <2>3, OneCopy DEF AtLast, Unused
    <2> DEFINE v == MessageVal(c1)
    <2>5. v \in Val /\ v.kind = "message" /\ NoRepeats(v) /\ Pointees(v) = {c1}
        BY <2>4 DEF MessageVal, Val, NoRepeats, Pointees
    <2>6. heap' = Put(WithCopies(heap, g), cur, last.field, v)
        BY <2>3
    <2> HIDE DEF v
    <2>7. HeapOK
        BY <1>1, <1>7, <2>2, <2>3, <2>5, <2>6, StoreOne
    <2> QED BY <2>7, DoneKeeps DEF setField, Finish, HeapOK, Errors
<1>8. CASE /\ a # NilVal /\ ~fs.repeated /\ fs.type = "scalar"
           /\ heap' = Put(heap, cur, last.field, ScalarVal(convertScalar[a.val]))
    <2>1. IsScalar(a)
        BY <1>2, <1>8 DEF setFieldErr, convertElement
    <2>2. convertScalar[a.val] \in Scalar
        BY <1>1, <2>1, ConvertedScalar DEF AtLast, Call
    <2>3. ScalarVal(convertScalar[a.val]) \in Val /\ ScalarVal(convertScalar[a.val]).kind = "scalar"
        BY <2>2 DEF ScalarVal, Val
    <2>4. HeapOK
        BY <1>1, <1>3, <1>8, <2>3, PutScalarKeeps DEF AtLast, HeapOK
    <2> QED BY <2>4, DoneKeeps DEF setField, Finish, HeapOK, Errors
<1> QED BY <1>4, <1>5, <1>6, <1>7, <1>8 DEF setField, Roots

\* The list in the slot that an index of the path names.
LEMMA ListInSlot ==
    ASSUME AtLast, slotIsSet, lastSchema.type = "message", slot.kind = "messages"
    PROVE  slot.elems \in Seq(Ref \cup {Nil}) /\ NoRepeats(MessagesVal(slot.elems))
           /\ Pointees(MessagesVal(slot.elems)) = Pointees(slot)
           /\ Range(slot.elems) \subseteq Allocated(heap) \cup {Nil}
<1>1. slot \in Val /\ NoRepeats(slot)
    BY ObjectType DEF AtLast, StoreInv, TypeOK, Allocated, slot, slotIsSet, Owned
<1>2. slot.elems \in Seq(Ref \cup {Nil}) /\ slot = MessagesVal(slot.elems)
    BY <1>1 DEF Val, NilVal, MessagesVal
<1>3. \A c \in Pointees(slot) : c \in Allocated(heap)
    BY ChildExists DEF AtLast, StoreInv, TypeOK, slot, slotIsSet
<1>4. Pointees(slot) = Range(slot.elems) \ {Nil}
    BY DEF Pointees
<1> QED BY <1>1, <1>2, <1>3, <1>4

LEMMA ElementInSlot ==
    ASSUME AtLast, slotIsSet, lastSchema.type = "message", ~(last.idx >= sliceLen(slot))
    PROVE  slot.kind = "messages" /\ last.idx + 1 \in DOMAIN slot.elems
<1>1. sliceLen(slot) \in Nat /\ last.idx \in Nat
    BY SliceLenNat DEF AtLast, slot
<1>2. last.idx < sliceLen(slot)
    BY <1>1
<1> QED BY <1>1, <1>2, SlotElement DEF AtLast, slot, slotIsSet, lastSchema

\* Storing a nil element, as Set and Clear do.
LEMMA NilElementKeeps ==
    ASSUME AtLast, slotIsSet, lastSchema.type = "message", lastSchema.repeated,
           ~(last.idx >= sliceLen(slot)),
           heap' = Put(heap, cur, last.field,
                       MessagesVal([slot.elems EXCEPT ![last.idx + 1] = Nil]))
    PROVE  HeapOK
<1> DEFINE v == MessagesVal([slot.elems EXCEPT ![last.idx + 1] = Nil])
<1>1. /\ slot.elems \in Seq(Ref \cup {Nil}) /\ NoRepeats(MessagesVal(slot.elems))
      /\ Pointees(MessagesVal(slot.elems)) = Pointees(slot)
      /\ slot.kind = "messages" /\ last.idx + 1 \in DOMAIN slot.elems
    BY ListInSlot, ElementInSlot
<1>2. v \in Val /\ v.kind = "messages" /\ NoRepeats(v) /\ Pointees(v) \subseteq Pointees(slot)
    BY <1>1, ReplaceElement
<1>3. heap \in Heap /\ Sound(heap) /\ Owned(heap) /\ cur \in Allocated(heap) /\ last.field \in Field
    BY DEF AtLast, StoreInv, TypeOK
<1>4. \A c \in Pointees(slot) : heap[c].schema = lastSchema.schema
    BY <1>3, ChildExists DEF slot, slotIsSet, lastSchema
<1> HIDE DEF v
<1>5. SlotFits(heap, lastSchema, v)
    BY <1>2, <1>4 DEF SlotFits
<1>6. /\ lookupName(heap[cur].schema, last.field).type # "none"
      /\ SlotFits(heap, lookupName(heap[cur].schema, last.field), v)
      /\ \A c \in Pointees(v) :
             last.field \in heap[cur].set /\ c \in Pointees(heap[cur].vals[last.field])
    BY <1>2, <1>5 DEF lastSchema, slot, slotIsSet
<1> DEFINE k == Put(heap, cur, last.field, v)
<1>7. k \in Heap /\ Allocated(k) = Allocated(heap) /\ Sound(k) /\ Owned(k)
    BY <1>2, <1>3, <1>6, PutKeeps
<1> QED BY <1>7 DEF HeapOK, v

LEMMA setElementKeeps ==
    ASSUME StoreInv, setElement
    PROVE  StoreInv'
<1> DEFINE a == call.arg
<1> DEFINE i == last.idx + 1
<1> DEFINE fs == lastSchema
<1>1. AtLast /\ setErr = "nil" /\ last.hasIdx
    BY EndIsAtLast DEF setElement, Setting, AtEnd
<1>2. fs.type # "none" /\ setElementErr(fs, a) = "nil"
    BY <1>1 DEF setErr
<1>3. fs.repeated /\ slotIsSet /\ ~(last.idx >= sliceLen(slot))
    BY <1>2 DEF setElementErr
<1>4. fs.type \in {"scalar", "message"}
    <2>1. heap[cur].schema \in Type
        BY <1>1, ObjectType DEF AtLast, StoreInv, TypeOK, Allocated
    <2> QED BY <1>1, <1>2, <2>1, HeapAssumption DEF lastSchema, lookupName, FieldSchema, NoField, AtLast
<1>5. CASE /\ a = NilVal
           /\ heap' = Put(heap, cur, last.field, MessagesVal([slot.elems EXCEPT ![i] = Nil]))
    <2>1. fs.type = "message"
        BY <1>2, <1>3, <1>4, <1>5 DEF setElementErr, convertElement, IsScalar, NilVal
    <2>2. HeapOK
        BY <1>1, <1>3, <1>5, <2>1, NilElementKeeps
    <2> QED BY <2>2, DoneKeeps DEF setElement, Finish, HeapOK, Errors
<1>6. CASE /\ a # NilVal /\ fs.type = "message"
           /\ StoreCopies(<<a.ref>>, LAMBDA c : MessagesVal([slot.elems EXCEPT ![i] = c[1]]))
    <2> DEFINE D == CopyPairs(heap, <<a.ref>>)
    <2> DEFINE g == Placement(heap, D)
    <2> DEFINE c1 == Clone(g, 1, a.ref)
    <2> DEFINE v == MessagesVal([slot.elems EXCEPT ![i] = c1])
    <2>1. IsMessageOf(fs.schema, a)
        BY <1>2, <1>3, <1>6 DEF setElementErr, convertElement
    <2>2. a.ref \in Allocated(heap) /\ heap[a.ref].schema = fs.schema
        BY <1>1, <2>1, ConvertedMessage DEF AtLast
    <2>3. HasRoomFor(heap, D) /\ heap' = Put(WithCopies(heap, g), cur, last.field, v)
        BY <1>6 DEF StoreCopies
    <2>4. c1 \in Ref /\ c1 \notin Allocated(heap) \cup {Nil}
        BY <1>1, <2>2, <2>3, OneCopy, HeapAssumption DEF AtLast, Unused
    <2>5. /\ slot.elems \in Seq(Ref \cup {Nil}) /\ NoRepeats(MessagesVal(slot.elems))
          /\ Pointees(MessagesVal(slot.elems)) = Pointees(slot)
          /\ Range(slot.elems) \subseteq Allocated(heap) \cup {Nil}
          /\ i \in DOMAIN slot.elems
        BY <1>1, <1>3, <1>6, ListInSlot, ElementInSlot
    <2> HIDE DEF c1, i
    <2>6. /\ v \in Val /\ v.kind = "messages" /\ NoRepeats(v)
          /\ Pointees(v) \subseteq Pointees(slot) \cup {c1}
        BY <2>4, <2>5, ReplaceElement
    <2> HIDE DEF v
    <2>7. \A c \in Pointees(v) : c = Clone(g, 1, a.ref) \/ (slotIsSet /\ c \in Pointees(slot))
        BY <1>3, <2>6 DEF c1
    <2>8. HeapOK
        BY <1>1, <1>3, <1>6, <2>2, <2>3, <2>6, <2>7, StoreOne
    <2> QED BY <2>8, DoneKeeps DEF setElement, Finish, HeapOK, Errors
<1>7. CASE /\ a # NilVal /\ fs.type = "scalar"
           /\ heap' = Put(heap, cur, last.field, ScalarsVal(
                          [slot.elems EXCEPT ![i] = convertScalar[a.val]]))
    <2> DEFINE x == convertScalar[a.val]
    <2> DEFINE s == [slot.elems EXCEPT ![i] = x]
    <2>1. IsScalar(a)
        BY <1>2, <1>3, <1>7 DEF setElementErr, convertElement
    <2>2. x \in Scalar
        BY <1>1, <2>1, ConvertedScalar DEF AtLast, Call
    <2>3. slot.elems \in Seq(Scalar) /\ i \in 1 .. Len(slot.elems)
        <3>1. slot.elems \in Seq(Scalar) /\ slot.kind = "scalars"
            BY <1>1, <1>3, <1>7, SlotScalars DEF AtLast, slot, slotIsSet, lastSchema
        <3>2. last.idx \in Nat /\ Len(slot.elems) \in Nat /\ sliceLen(slot) = Len(slot.elems)
            BY <1>1, <3>1, LenProperties DEF AtLast, sliceLen
        <3> QED BY <1>3, <3>1, <3>2
    <2> HIDE DEF x, i
    <2>4. s \in Seq(Scalar)
        BY <2>2, <2>3, ExceptSeq
    <2> HIDE DEF s
    <2>5. ScalarsVal(s) \in Val /\ ScalarsVal(s).kind = "scalars"
        BY <2>4 DEF ScalarsVal, Val
    <2>6. heap' = Put(heap, cur, last.field, ScalarsVal(s))
        BY <1>7 DEF s, x, i
    <2>7. HeapOK
        BY <1>1, <1>3, <1>7, <2>5, <2>6, PutScalarKeeps DEF AtLast, HeapOK, lastSchema
    <2> QED BY <2>7, DoneKeeps DEF setElement, Finish, HeapOK, Errors
<1> QED BY <1>5, <1>6, <1>7 DEF setElement

LEMMA setSelfKeeps ==
    ASSUME StoreInv, setSelf
    PROVE  StoreInv'
<1>1. call \in Call /\ cur \in Allocated(heap) /\ ArgRefs(call.arg) \subseteq Allocated(heap)
      /\ heap \in Heap /\ Sound(heap) /\ Owned(heap)
    BY DEF setSelf, StoreInv, WalkExists, TypeOK
<1>2. CASE call.arg = NilVal /\ clearAll
    <2>1. HeapOK
        BY <1>1, <1>2, ClearKeeps DEF clearAll, HeapOK
    <2> QED BY <2>1, DoneKeeps DEF setSelf, Finish, HeapOK, Errors
<1>3. CASE call.arg # NilVal
    <2> DEFINE src == call.arg.ref
    <2> DEFINE D == {<<1, x>> : x \in Reach(heap, Children(heap, src))}
    <2> DEFINE g == Placement(heap, D)
    <2>1. IsMessageOf(heap[cur].schema, call.arg)
        BY <1>3 DEF setSelf, setSelfErr
    <2>2. src \in Allocated(heap) /\ heap[cur].schema = heap[src].schema
        BY <1>1, <2>1, ConvertedMessage
    <2>3. HasRoomFor(heap, D) /\ heap' = copyFrom(heap, cur, src, g)
        BY <1>3 DEF setSelf
    <2>4. g \in [D -> Unused(heap)] /\ IsInjective(g)
        BY <2>3, PlacementIs
    <2> HIDE DEF g
    <2>5. HeapOK
        BY <1>1, <2>2, <2>3, <2>4, CopyFromKeeps DEF HeapOK
    <2> QED BY <2>5, DoneKeeps DEF setSelf, Finish, HeapOK, Errors
<1> QED BY <1>2, <1>3 DEF setSelf

LEMMA appendFieldKeeps ==
    ASSUME StoreInv, appendField
    PROVE  StoreInv'
<1> DEFINE a == call.arg
<1> DEFINE fs == lastSchema
<1> DEFINE old == IF slotIsSet THEN slot.elems ELSE <<>>
<1>1. AtLast /\ appendErr = "nil"
    BY EndIsAtLast DEF appendField, AtEnd
<1>2. fs.repeated /\ convertElement(fs, a) = "nil"
    BY <1>1 DEF appendErr
<1>3. CASE /\ fs.type = "message"
           /\ StoreCopies(<<a.ref>>, LAMBDA c : MessagesVal(Append(old, c[1])))
    <2> DEFINE D == CopyPairs(heap, <<a.ref>>)
    <2> DEFINE g == Placement(heap, D)
    <2> DEFINE c1 == Clone(g, 1, a.ref)
    <2> DEFINE v == MessagesVal(Append(old, c1))
    <2>1. IsMessageOf(fs.schema, a)
        BY <1>2, <1>3 DEF convertElement
    <2>2. a.ref \in Allocated(heap) /\ heap[a.ref].schema = fs.schema
        BY <1>1, <2>1, ConvertedMessage DEF AtLast
    <2>3. HasRoomFor(heap, D) /\ heap' = Put(WithCopies(heap, g), cur, last.field, v)
        BY <1>3 DEF StoreCopies
    <2>4. c1 \in Ref /\ c1 \notin Allocated(heap) \cup {Nil}
        BY <1>1, <2>2, <2>3, OneCopy, HeapAssumption DEF AtLast, Unused
    <2>5. /\ old \in Seq(Ref \cup {Nil}) /\ NoRepeats(MessagesVal(old))
          /\ \A c \in Pointees(MessagesVal(old)) : slotIsSet /\ c \in Pointees(slot)
          /\ Range(old) \subseteq Allocated(heap) \cup {Nil}
        <3>1. CASE slotIsSet
            <4>1. slot.kind = "messages"
                BY <1>1, <1>2, <1>3, <3>1 DEF appendErr
            <4> QED BY <1>1, <1>3, <3>1, <4>1, ListInSlot
        <3>2. CASE ~slotIsSet
            <4>1. old = <<>>
                BY <3>2
            <4> HIDE DEF old
            <4>2. old \in Seq(Ref \cup {Nil}) /\ Range(old) = {}
                BY <4>1 DEF Range
            <4> QED BY <4>1, <4>2 DEF NoRepeats, MessagesVal, Pointees, Range
        <3> QED BY <3>1, <3>2
    <2> HIDE DEF c1, old
    <2>6. /\ v \in Val /\ v.kind = "messages" /\ NoRepeats(v)
          /\ Pointees(v) \subseteq Pointees(MessagesVal(old)) \cup {c1}
        BY <2>4, <2>5, AppendElement
    <2> HIDE DEF v
    <2>7. \A c \in Pointees(v) : c = Clone(g, 1, a.ref) \/ (slotIsSet /\ c \in Pointees(slot))
        BY <2>5, <2>6 DEF c1
    <2>8. HeapOK
        BY <1>1, <1>2, <1>3, <2>2, <2>3, <2>6, <2>7, StoreOne
    <2> QED BY <2>8, DoneKeeps DEF appendField, Finish, HeapOK, Errors
<1>4. CASE /\ fs.type = "scalar"
           /\ heap' = Put(heap, cur, last.field,
                          ScalarsVal(Append(old, convertScalar[a.val])))
    <2> DEFINE x == convertScalar[a.val]
    <2> DEFINE s == Append(old, x)
    <2>1. IsScalar(a)
        BY <1>2, <1>4 DEF convertElement
    <2>2. x \in Scalar
        BY <1>1, <2>1, ConvertedScalar DEF AtLast, Call
    <2>3. old \in Seq(Scalar)
        <3>1. CASE slotIsSet
            BY <1>1, <1>2, <1>4, <3>1, SlotScalars DEF AtLast, slot, slotIsSet, lastSchema
        <3>2. CASE ~slotIsSet
            BY <3>2, EmptySeq
        <3> QED BY <3>1, <3>2
    <2> HIDE DEF x, old
    <2>4. s \in Seq(Scalar)
        BY <2>2, <2>3, AppendProperties
    <2> HIDE DEF s
    <2>5. ScalarsVal(s) \in Val /\ ScalarsVal(s).kind = "scalars"
        BY <2>4 DEF ScalarsVal, Val
    <2>6. heap' = Put(heap, cur, last.field, ScalarsVal(s))
        BY <1>4 DEF s, x, old
    <2>7. HeapOK
        BY <1>1, <1>2, <1>4, <2>5, <2>6, PutScalarKeeps DEF AtLast, HeapOK, lastSchema
    <2> QED BY <2>7, DoneKeeps DEF appendField, Finish, HeapOK, Errors
<1> QED BY <1>3, <1>4 DEF appendField

LEMMA ClearEndKeeps ==
    ASSUME StoreInv, ClearSelf \/ clearField \/ clearElement
    PROVE  StoreInv'
<1>1. CASE ClearSelf
    <2>1. HeapOK
        BY <1>1, ClearKeeps DEF ClearSelf, clearAll, HeapOK, StoreInv, TypeOK, WalkExists
    <2> QED BY <1>1, <2>1, DoneKeeps DEF ClearSelf, Finish, HeapOK, Errors
<1>2. CASE clearField
    <2>1. AtLast
        BY <1>2, EndIsAtLast DEF clearField, Clearing
    <2>2. HeapOK
        BY <1>2, <2>1, UnsetKeeps DEF clearField, AtLast, StoreInv, TypeOK, HeapOK
    <2> QED BY <1>2, <2>2, DoneKeeps DEF clearField, Finish, HeapOK, Errors
<1>3. CASE clearElement
    <2>1. AtLast /\ clearPathErr = "nil" /\ last.hasIdx /\ Len(segs) = 1
        BY <1>3, EndIsAtLast DEF clearElement, Clearing
    <2>2. Head(segs) = last
        BY <2>1 DEF last, StoreInv, TypeOK, AtLast
    <2>3. /\ lastSchema.type = "message" /\ lastSchema.repeated /\ slotIsSet
          /\ ~(last.idx >= sliceLen(slot))
        BY <2>1, <2>2 DEF clearPathErr, lastSchema, slot, slotIsSet
    <2>4. HeapOK
        BY <1>3, <2>1, <2>3, NilElementKeeps DEF clearElement
    <2> QED BY <1>3, <2>4, DoneKeeps DEF clearElement, Finish, HeapOK, Errors
<1> QED BY <1>1, <1>2, <1>3

LEMMA FailKeeps ==
    ASSUME StoreInv, SetFail \/ SetSelfFail \/ AppendFail \/ ClearFail \/ VerifyEnd
    PROVE  StoreInv'
<1>1. convertMessageSlice(lastSchema.schema, call.arg) \in Errors
    BY DEF convertMessageSlice, Errors
<1>2. convertElement(lastSchema, call.arg) \in Errors
    BY DEF convertElement, Errors
<1>3. setErr \in Errors
    BY <1>1, <1>2 DEF setErr, setElementErr, setFieldErr, convertToSlice, Errors
<1>4. setSelfErr \in Errors /\ appendErr \in Errors /\ clearPathErr \in Errors /\ verifyErr \in Errors
    BY DEF setSelfErr, appendErr, clearPathErr, verifyErr, Errors
<1> QED
    BY <1>3, <1>4, DoneKeeps
    DEF SetFail, SetSelfFail, AppendFail, ClearFail, VerifyEnd, StoreInv, TypeOK

-----------------------------------------------------------------------------
LEMMA InitStoreInv == Init => StoreInv
<1> SUFFICES ASSUME Init PROVE StoreInv
    OBVIOUS
<1>1. Empty \in Heap /\ Allocated(Empty) = {}
    BY DEF Empty, Heap, Allocated, NoObject, newMessage
<1> QED
    BY <1>1, EmptySeq
    DEF Init, StoreInv, TypeOK, HeldExist, WalkExists, SchemaExists, Sound, Owned, Errors

LEMMA StepStoreInv == StoreInv /\ [Next]_vars => StoreInv'
<1> SUFFICES ASSUME StoreInv, [Next]_vars PROVE StoreInv'
    OBVIOUS
<1>1. CASE Begin
    BY <1>1, BeginKeeps
<1>2. CASE Walk
    BY <1>2, WalkKeeps
<1>3. CASE End
    BY <1>3, setFieldKeeps, setElementKeeps, setSelfKeeps, appendFieldKeeps, ClearEndKeeps, FailKeeps
    DEF End
<1>4. CASE Return
    BY <1>4, ReturnKeeps
<1>5. CASE Collect
    BY <1>5, CollectStepKeeps
<1>6. CASE UNCHANGED vars
    BY <1>6 DEF vars, walk, StoreInv, TypeOK, HeldExist, WalkExists, SchemaExists
<1> QED BY <1>1, <1>2, <1>3, <1>4, <1>5, <1>6 DEF Next

(* The invariant that the others follow from: the store is well typed, sound and owned,
   and every reference that a variable, a walk or an argument holds exists. *)
THEOREM StoreInvariance == Spec => []StoreInv
BY InitStoreInv, StepStoreInv, PTL DEF Spec

(* Type correctness of the store. *)
THEOREM TypeCorrect == Spec => []TypeOK
<1>1. StoreInv => TypeOK
    BY DEF StoreInv
<1> QED BY <1>1, StoreInvariance, PTL

(* Every slot holds what the schema above it says, after any calls with any arguments,
   failed ones included: the invariant the encoders rely on. *)
THEOREM SchemaSoundness == Spec => []SchemaSound
<1>1. StoreInv => SchemaSound
    BY DEF StoreInv, SchemaSound
<1> QED BY <1>1, StoreInvariance, PTL

(* No message is in two slots: what Set and Append store shares nothing with what the
   caller passed, nor with any other message. *)
THEOREM SingleOwner == Spec => []Ownership
<1>1. StoreInv => Ownership
    BY DEF StoreInv, Ownership
<1> QED BY <1>1, StoreInvariance, PTL
=============================================================================
