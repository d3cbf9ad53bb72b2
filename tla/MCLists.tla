------------------------------- MODULE MCLists -------------------------------
(* Instances of Lists for TLC. *)
EXTENDS Lists, FiniteSets

CONSTANT MaxLen        \* bound: the longest list that the program makes or decodes

MCList == UNION {[1..n -> Elem] : n \in 0..MaxLen}

\* Addresses mean nothing to the program, nor do cells that are in no slice: states are
\* the same when the slices hold the same and share their arrays alike.
Held == {<<"slot", m>> : m \in {m \in Msg : slot[m] # Unset}} \cup {<<"var", x>> : x \in Var}
SliceOf(h) == IF h[1] = "slot" THEN slot[h[2]] ELSE var[h[2]]
Cells(s) == [i \in 1..s.len \cap 1..Cap(s) |-> mem[s.arr][i]]
View == <<[h \in Held |-> <<Cells(SliceOf(h)), SliceOf(h).len, Cap(SliceOf(h))>>],
          {{g \in Held : SliceOf(g).arr = SliceOf(h).arr} : h \in Held}>>
=============================================================================
