-------------------------------- MODULE Lists --------------------------------
(***************************************************************************)
(* The Go slices behind repeated fields: who shares which backing array.   *)
(*                                                                         *)
(* A getter of value.go (Strings, Int32s, ..., Messages) hands out the     *)
(* slice that the message stores.  The program then has a view of the      *)
(* message's array.  It may write to it, append to it and pass it to other *)
(* calls, while the message assigns elements and appends in place.         *)
(*                                                                         *)
(* Arrays are told apart by their addresses; a slice begins where its      *)
(* array does, since nothing in the library slices a slice.  Failing calls *)
(* return before they touch a list (see Message) and are left out.         *)
(***************************************************************************)
EXTENDS Naturals, Sequences

CONSTANTS
    Msg,               \* the messages, each with one repeated field
    Var,               \* the program's slice variables
    Elem,              \* the elements: scalars, or message pointers
    Zero,              \* the zero value among them
    Addr,              \* the addresses of arrays
    Nil,               \* no address
    Unset,             \* the slot of a field that is not set
    List,              \* bound: the lists that the program makes and decodes
    MaxCap             \* bound: the largest capacity

ASSUME ListsAssumption ==
    /\ Zero \in Elem
    /\ Nil \notin Addr
    /\ Unset \notin Seq(Elem) \cup [arr : Addr \cup {Nil}, len : Nat]
    /\ List \subseteq Seq(Elem)
    /\ MaxCap \in Nat

\* There is always room for another array.
ASSUME RoomAssumption ==
    \A f \in [Msg -> Addr \cup {Nil}], g \in [Var -> Addr \cup {Nil}] :
        \E a \in Addr : (\A m \in Msg : f[m] # a) /\ (\A x \in Var : g[x] # a)

VARIABLES
    slot,              \* of each message: the slice its field holds, or Unset
    var,               \* the slice in each variable of the program
    mem,               \* the arrays; the length of one is its capacity
    op                 \* history: what took place last

vars == <<slot, var, mem, op>>

-----------------------------------------------------------------------------
(* Slices *)
Slice == [arr : Addr \cup {Nil}, len : Nat]
NoSlice == [arr |-> Nil, len |-> 0]

Cap(s) == IF s.arr = Nil THEN 0 ELSE Len(mem[s.arr])
Elems(s) == IF s.arr = Nil THEN <<>> ELSE SubSeq(mem[s.arr], 1, s.len)

\* The arrays that the garbage collector has to keep, and the others.
Used == {slot[m].arr : m \in {m \in Msg : slot[m] # Unset}} \cup {var[x].arr : x \in Var}
Unused == Addr \ Used

\* A slice and the memory that goes with it.
At(s, cells) == [slice |-> s, mem |-> cells]

\* An array of n elements that begins with these.
Padded(list, n) == [i \in 1..n |-> IF i =< Len(list) THEN list[i] ELSE Zero]

\* A new slice.  One of no capacity needs no array.  Which address it gets makes no
\* difference to the program.
Fresh(list, capacity) ==
    IF capacity = 0 THEN At(NoSlice, mem)
    ELSE LET a == CHOOSE a \in Unused : TRUE
         IN  At([arr |-> a, len |-> Len(list)], [mem EXCEPT ![a] = Padded(list, capacity)])

\* make and copy: exactly the capacity that is needed.
Made(list) == Fresh(list, Len(list))

\* Mutant: the new array has no room for the new element.
Appended_NoRoom(s, e) ==
    IF s.len < Cap(s)
    THEN {At([s EXCEPT !.len = s.len + 1], [mem EXCEPT ![s.arr][s.len + 1] = e])}
    ELSE {Fresh(Append(Elems(s), e), c) : c \in s.len..MaxCap}

\* The built-in append: in place while there is room, otherwise in a new array of any
\* larger capacity.
Appended(s, e) ==
    IF s.len < Cap(s)
    THEN {At([s EXCEPT !.len = s.len + 1], [mem EXCEPT ![s.arr][s.len + 1] = e])}
    ELSE {Fresh(Append(Elems(s), e), c) : c \in (s.len + 1)..MaxCap}

-----------------------------------------------------------------------------
(* The library *)
Store(m, at) == slot' = [slot EXCEPT ![m] = at.slice] /\ mem' = at.mem /\ UNCHANGED var

\* Mutant: a slice of the field's own type is stored as it is.
SetField_Keeps(m, x) ==
    /\ op' = [name |-> "SetField", msg |-> m, list |-> Elems(var[x])]
    /\ Store(m, At(var[x], mem))

\* convertToSlice makes a slice and fills it.
SetField(m, x) ==
    /\ op' = [name |-> "SetField", msg |-> m, list |-> Elems(var[x])]
    /\ Store(m, Made(Elems(var[x])))

\* Indices are one-based here.
SetElement(m, i, e) ==
    /\ slot[m] # Unset /\ i =< slot[m].len
    /\ op' = [name |-> "SetElement", msg |-> m, idx |-> i, elem |-> e]
    /\ Store(m, At(slot[m], [mem EXCEPT ![slot[m].arr][i] = e]))

AppendField(m, e) ==
    /\ op' = [name |-> "AppendField", msg |-> m, elem |-> e]
    /\ \E at \in Appended(IF slot[m] = Unset THEN NoSlice ELSE slot[m], e) : Store(m, at)

\* clearField, setField with nil.
ClearField(m) ==
    /\ op' = [name |-> "ClearField", msg |-> m]
    /\ slot' = [slot EXCEPT ![m] = Unset]
    /\ UNCHANGED <<var, mem>>

\* Mutant: the copy has the slice of its source.
CopyFrom_Shares(m, n) ==
    /\ op' = [name |-> "CopyFrom", msg |-> m, from |-> n]
    /\ IF m = n THEN slot' = [slot EXCEPT ![m] = Unset] ELSE slot' = [slot EXCEPT ![m] = slot[n]]
    /\ UNCHANGED <<var, mem>>

\* copyFrom drops the receiver's list before it copies the source's.
CopyFrom(m, n) ==
    /\ op' = [name |-> "CopyFrom", msg |-> m, from |-> n]
    /\ \/ /\ m = n \/ slot[n] = Unset
          /\ slot' = [slot EXCEPT ![m] = Unset]
          /\ UNCHANGED <<var, mem>>
       \/ /\ m # n /\ slot[n] # Unset
          /\ Store(m, Made(Elems(slot[n])))

\* Mutant: the array of the old list is used again when the new one fits.
Decode_InPlace(m, list) ==
    /\ op' = [name |-> "Decode", msg |-> m, list |-> list]
    /\ LET n == IF slot[m] = Unset THEN 0 ELSE Cap(slot[m])
       IN  Store(m, IF n < Len(list) \/ n = 0 THEN Made(list)
                    ELSE At([slot[m] EXCEPT !.len = Len(list)],
                            [mem EXCEPT ![slot[m].arr] = Padded(list, n)]))

\* DecodeJSON makes its slice, DecodeProto appends to it.
Decode(m, list) ==
    /\ op' = [name |-> "Decode", msg |-> m, list |-> list]
    /\ \E c \in Len(list)..MaxCap : Store(m, Fresh(list, c))

-----------------------------------------------------------------------------
(* The program *)
Keep(x, at) == var' = [var EXCEPT ![x] = at.slice] /\ mem' = at.mem /\ UNCHANGED slot

\* Strings(), Int32s(), ..., Messages(): nil when the field is not set.
GetSlice(x, m) ==
    /\ op' = [name |-> "Get"]
    /\ Keep(x, At(IF slot[m] = Unset THEN NoSlice ELSE slot[m], mem))

Make(x, list) ==
    /\ op' = [name |-> "Make"]
    /\ Keep(x, Made(list))

Write(x, i, e) ==
    /\ i =< var[x].len
    /\ op' = [name |-> "Write", idx |-> i, elem |-> e]
    /\ Keep(x, At(var[x], [mem EXCEPT ![var[x].arr][i] = e]))

Extend(x, e) ==
    /\ op' = [name |-> "Extend", idx |-> var[x].len + 1, elem |-> e]
    /\ \E at \in Appended(var[x], e) : Keep(x, at)

-----------------------------------------------------------------------------
Init ==
    /\ slot = [m \in Msg |-> Unset]
    /\ var = [x \in Var |-> NoSlice]
    /\ mem = [a \in Addr |-> <<>>]
    /\ op = [name |-> "none"]

Next ==
    \/ \E m \in Msg :
        \/ \E x \in Var : SetField(m, x) \/ GetSlice(x, m)
        \/ \E i \in 1..MaxCap, e \in Elem : SetElement(m, i, e)
        \/ \E e \in Elem : AppendField(m, e)
        \/ ClearField(m)
        \/ \E n \in Msg : CopyFrom(m, n)
        \/ \E list \in List : Decode(m, list)
    \/ \E x \in Var :
        \/ \E list \in List : Make(x, list)
        \/ \E i \in 1..MaxCap, e \in Elem : Write(x, i, e)
        \/ \E e \in Elem : Extend(x, e)

Spec == Init /\ [][Next]_vars

-----------------------------------------------------------------------------
(* Properties *)

(* Slices are within their arrays. *)
TypeOK ==
    /\ slot \in [Msg -> Slice \cup {Unset}]
    /\ var \in [Var -> Slice]
    /\ mem \in [Addr -> Seq(Elem)]
    /\ \A m \in Msg : slot[m] # Unset => slot[m].len =< Cap(slot[m])
    /\ \A x \in Var : var[x].len =< Cap(var[x])

(* No two messages share an array, whatever slices the program got from one and passed
   to the other: "target and source are completely independent" (section 8 of the
   library's readme) for lists. *)
ArraysOwned == \A m, n \in Msg :
    m # n /\ slot[m] # Unset /\ slot[n] # Unset /\ slot[m].arr = slot[n].arr
    => slot[m].arr = Nil

(* The lists are values: a call does to them what ListSpec says and nothing else, however
   arrays are shared, and a statement of the program changes one element of one list at
   most. *)
content == [m \in Msg |-> IF slot[m] = Unset THEN Unset ELSE Elems(slot[m])]
Values == INSTANCE ListSpec WITH content <- content
ListsAreValues == Values!Spec

(* What a getter handed out is changed by the message only when one of its elements is
   set, never by an Append, a Clear, a whole assignment, a copy or a decoding.  (Elements
   that the program itself appended behind the message's list are its own risk.) *)
BehindList(x, i) == \E m \in Msg : slot[m] # Unset /\ slot[m].arr = var[x].arr /\ slot[m].len < i

HandedOutKept == [][op'.name \notin {"SetElement", "Write", "Extend"} =>
    \A x \in Var : var'[x] = var[x] =>
        \A i \in 1..var[x].len : \/ mem'[var[x].arr][i] = mem[var[x].arr][i]
                                 \/ BehindList(x, i)]_vars
=============================================================================
