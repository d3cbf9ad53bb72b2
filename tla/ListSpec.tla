------------------------------ MODULE ListSpec ------------------------------
(***************************************************************************)
(* What the repeated fields of messages are to a program that trusts the   *)
(* library's readme: values.  A call changes the list of the message it is *)
(* about and no other, and in the way its name says, whatever slices the   *)
(* program got from getters or passed to calls.                            *)
(***************************************************************************)
EXTENDS Naturals, Sequences

CONSTANTS
    Msg,               \* the messages, each with one repeated field
    Elem,              \* the elements of the lists
    Unset              \* the content of a field that is not set

VARIABLES
    content,           \* the list of each message, or Unset
    op                 \* the call, or the statement of the program, that took place

lvars == <<content, op>>

Init == content = [m \in Msg |-> Unset] /\ op = [name |-> "none"]

Becomes(m, list) == content' = [content EXCEPT ![m] = list]
Has(m, i) == content[m] # Unset /\ i \in DOMAIN content[m]

\* Set of the field, DecodeJSON and DecodeProto.
Assign(m) ==
    /\ op' \in [name : {"SetField", "Decode"}, msg : {m}, list : Seq(Elem)]
    /\ Becomes(m, op'.list)

SetElement(m) ==
    /\ op' \in [name : {"SetElement"}, msg : {m}, idx : Nat, elem : Elem]
    /\ Has(m, op'.idx)
    /\ Becomes(m, [content[m] EXCEPT ![op'.idx] = op'.elem])

AppendField(m) ==
    /\ op' \in [name : {"AppendField"}, msg : {m}, elem : Elem]
    /\ Becomes(m, IF content[m] = Unset THEN <<op'.elem>> ELSE Append(content[m], op'.elem))

ClearField(m) == op' = [name |-> "ClearField", msg |-> m] /\ Becomes(m, Unset)

\* Set("", n).  A message that is set to itself is emptied.
CopyFrom(m, n) ==
    /\ op' = [name |-> "CopyFrom", msg |-> m, from |-> n]
    /\ Becomes(m, IF m = n THEN Unset ELSE content[n])

\* The program assigns to an element of a slice, or appends to one.  If a getter gave it
\* the slice this may assign to an element of a list, but of one list only; an append
\* does when the list has grown in place behind the slice.
Touch ==
    /\ op' \in [name : {"Write", "Extend"}, idx : Nat, elem : Elem]
    /\ \/ UNCHANGED content
       \/ \E m \in Msg : /\ Has(m, op'.idx)
                         /\ Becomes(m, [content[m] EXCEPT ![op'.idx] = op'.elem])

\* The program calls a getter or makes a slice.
Look == op' \in [name : {"Get", "Make"}] /\ UNCHANGED content

Next ==
    \/ \E m \in Msg : \/ Assign(m) \/ SetElement(m) \/ AppendField(m) \/ ClearField(m)
                      \/ \E n \in Msg : CopyFrom(m, n)
    \/ Touch \/ Look

Spec == Init /\ [][Next]_lvars
=============================================================================
