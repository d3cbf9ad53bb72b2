------------------------------ MODULE Decoded -------------------------------
(***************************************************************************)
(* Go maps as functions, which the decoders of proto.go and json.go and    *)
(* the schema parser fill: a decoded message is a function from the        *)
(* numbers or names of its set fields to their values.                     *)
(***************************************************************************)
EXTENDS Sequences

\* The map, or message, m with value v of key, or field, n.
With(m, n, v) == [k \in DOMAIN m \cup {n} |-> IF k = n THEN v ELSE m[k]]

\* What a repeated field holds.
IsList(v) == v \in Seq({v[j] : j \in DOMAIN v})
=============================================================================
