------------------------------ MODULE Registry ------------------------------
(***************************************************************************)
(* What Register and New promise to concurrent callers (the doc comments   *)
(* of dymsg.go): every call takes effect at one instant between its        *)
(* invocation and its return, on one map from type IDs to schemas.         *)
(*                                                                         *)
(* A schema is a type ID and a layout, the ordered list of its fields.     *)
(* Layouts are modulo fieldsEqual: two layouts that function calls equal   *)
(* are one element of Layout here, so that schemasEqual is equality of     *)
(* both parts.                                                             *)
(***************************************************************************)
CONSTANTS
    Proc,              \* the goroutines that call the package
    TypeID,            \* the uint16 type IDs in use
    Layout,            \* the field lists in use
    NoLayout           \* what the map gives for a key it does not hold

VARIABLES
    registry,          \* the package variable: a layout or NoLayout per type ID
    phase,             \* per goroutine: "idle", "called" or "done"
    request,           \* per goroutine: the arguments of its call
    result             \* per goroutine: what its call gave

rvars == <<registry, phase, request, result>>

-----------------------------------------------------------------------------
MessageSchema == [typeID : TypeID, fields : Layout]

RegisterCall == [op : {"Register"}, schema : MessageSchema]
NewCall == [op : {"New"}, typeID : TypeID]
Call == RegisterCall \cup NewCall
NoCall == [op |-> "none"]

schemasEqual(a, b) == a.typeID = b.typeID /\ a.fields = b.fields

\* The results: an error of either function, success of Register, or the
\* empty message that New makes, of which only the layout matters.
Nil == [err |-> "nil"]
ErrDuplicateID == [err |-> "ErrDuplicateID"]
ErrUnknownTypeID == [err |-> "ErrUnknownTypeID"]
NewMessage(l) == [err |-> "nil", fields |-> l]
Result == {Nil, ErrDuplicateID, ErrUnknownTypeID} \cup {NewMessage(l) : l \in Layout}

-----------------------------------------------------------------------------
Init ==
    /\ registry = [id \in TypeID |-> NoLayout]
    /\ phase = [p \in Proc |-> "idle"]
    /\ request = [p \in Proc |-> NoCall]
    /\ result = [p \in Proc |-> Nil]

Invoke(p, c) ==
    /\ phase[p] = "idle"
    /\ phase' = [phase EXCEPT ![p] = "called"]
    /\ request' = [request EXCEPT ![p] = c]
    /\ UNCHANGED <<registry, result>>

\* Register inserts a schema under a new type ID, accepts one that is already
\* there and refuses a different one.
Register(p) ==
    /\ phase[p] = "called"
    /\ request[p].op = "Register"
    /\ phase' = [phase EXCEPT ![p] = "done"]
    /\ LET s == request[p].schema
           existing == registry[s.typeID]
       IN  \/ /\ existing = NoLayout
              /\ registry' = [registry EXCEPT ![s.typeID] = s.fields]
              /\ result' = [result EXCEPT ![p] = Nil]
           \/ /\ existing # NoLayout
              /\ result' = [result EXCEPT ![p] =
                     IF existing = s.fields THEN Nil ELSE ErrDuplicateID]
              /\ UNCHANGED registry
    /\ UNCHANGED request

New(p) ==
    /\ phase[p] = "called"
    /\ request[p].op = "New"
    /\ phase' = [phase EXCEPT ![p] = "done"]
    /\ LET s == registry[request[p].typeID]
       IN  result' = [result EXCEPT ![p] =
               IF s = NoLayout THEN ErrUnknownTypeID ELSE NewMessage(s)]
    /\ UNCHANGED <<registry, request>>

Return(p) ==
    /\ phase[p] = "done"
    /\ phase' = [phase EXCEPT ![p] = "idle"]
    /\ request' = [request EXCEPT ![p] = NoCall]
    /\ result' = [result EXCEPT ![p] = Nil]
    /\ UNCHANGED registry

Next == \E p \in Proc :
    \/ \E c \in Call : Invoke(p, c)
    \/ Register(p)
    \/ New(p)
    \/ Return(p)

Spec == Init /\ [][Next]_rvars

-----------------------------------------------------------------------------
(* Type correctness of the abstract registry. *)
TypeOK ==
    /\ registry \in [TypeID -> Layout \cup {NoLayout}]
    /\ phase \in [Proc -> {"idle", "called", "done"}]
    /\ request \in [Proc -> Call \cup {NoCall}]
    /\ result \in [Proc -> Result]

(* An answer that a caller holds stays true of the registry until it returns,
   whatever the other goroutines register meanwhile: a schema Register accepted is
   the one stored, one it refused differs from the stored one, and a message New
   made has the stored layout. *)
AnswersHold == \A p \in Proc : phase[p] = "done" =>
    IF request[p].op = "Register"
    THEN LET s == request[p].schema
         IN  /\ registry[s.typeID] # NoLayout
             /\ result[p] = Nil <=> registry[s.typeID] = s.fields
    ELSE \/ result[p] = ErrUnknownTypeID
         \/ result[p] = NewMessage(registry[request[p].typeID])

(* The first schema registered under a type ID is never replaced or removed
   ("registering a different schema under an existing type ID returns
   ErrDuplicateID", dymsg.go). *)
FirstWins == [][\A id \in TypeID :
    registry[id] # NoLayout => registry'[id] = registry[id]]_rvars
=============================================================================
