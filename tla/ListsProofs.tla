---------------------------- MODULE ListsProofs ----------------------------
(***************************************************************************)
(* Proofs about Lists, for all messages, variables, lists and capacities.  *)
(*                                                                         *)
(* TypeOK and ArraysOwned together are inductive.  What a step does to     *)
(* memory is one of two things: it fills a new array, which nothing else   *)
(* refers to, or it writes one cell.  The lemmas say what either does to   *)
(* every slice.                                                            *)
(***************************************************************************)
EXTENDS Lists, SequenceTheorems, TLAPS

Memory == [Addr -> Seq(Elem)]

\* The capacity and the elements of s in the memory M.
CapIn(M, s) == IF s.arr = Nil THEN 0 ELSE Len(M[s.arr])
CellsIn(M, s) == IF s.arr = Nil THEN <<>> ELSE SubSeq(M[s.arr], 1, s.len)
FitsIn(M, s) == s \in Slice /\ s.len =< CapIn(M, s)

ListsInv == TypeOK /\ ArraysOwned

-----------------------------------------------------------------------------
(* Slices *)

(* The elements of a slice are those of its array, as many as it is long (the slice
   expressions of Go). *)
LEMMA Cells ==
    ASSUME NEW M \in Memory, NEW s, FitsIn(M, s)
    PROVE  /\ CellsIn(M, s) \in Seq(Elem)
           /\ Len(CellsIn(M, s)) = s.len
           /\ \A i \in 1..s.len : s.arr \in Addr /\ CellsIn(M, s)[i] = M[s.arr][i]
<1>1. CASE s.arr = Nil
    <2>1. s.len = 0
        BY <1>1 DEF FitsIn, CapIn, Slice
    <2> QED
        BY <1>1, <2>1, EmptySeq DEF CellsIn
<1>2. CASE s.arr # Nil
    <2>1. s.arr \in Addr /\ s.len \in Nat /\ M[s.arr] \in Seq(Elem) /\ s.len =< Len(M[s.arr])
        BY <1>2 DEF FitsIn, CapIn, Slice, Memory
    <2>2. \A i \in 1..s.len : M[s.arr][i] \in Elem
        BY <2>1, ElementOfSeq, LenProperties
    <2>3. /\ SubSeq(M[s.arr], 1, s.len) \in Seq(Elem)
          /\ Len(SubSeq(M[s.arr], 1, s.len)) = IF 1 =< s.len THEN s.len - 1 + 1 ELSE 0
          /\ \A i \in 1..(s.len - 1 + 1) : SubSeq(M[s.arr], 1, s.len)[i] = M[s.arr][1 + i - 1]
        BY <2>1, <2>2, SubSeqProperties
    <2> QED
        BY <1>2, <2>1, <2>3 DEF CellsIn
<1> QED
    BY <1>1, <1>2

(* Two slices with the same elements in two memories. *)
LEMMA SameCells ==
    ASSUME NEW M \in Memory, NEW N \in Memory, NEW s, FitsIn(M, s),
           s.arr \in Addr => N[s.arr] = M[s.arr]
    PROVE  FitsIn(N, s) /\ CellsIn(N, s) = CellsIn(M, s)
BY DEF FitsIn, CapIn, CellsIn, Slice

(* What the invariant says in these terms. *)
LEMMA Held ==
    ASSUME TypeOK
    PROVE  /\ mem \in Memory
           /\ \A m \in Msg : slot[m] # Unset => FitsIn(mem, slot[m]) /\ slot[m].arr \in Used
           /\ \A x \in Var : FitsIn(mem, var[x]) /\ var[x].arr \in Used
BY DEF TypeOK, Memory, FitsIn, CapIn, Cap, Slice, Used

LEMMA NoSliceFits == \A M : FitsIn(M, NoSlice)
BY DEF FitsIn, CapIn, NoSlice, Slice

-----------------------------------------------------------------------------
(* New arrays *)

\* at is a slice of these elements that shares its array with no other.
IsNew(at, list) ==
    /\ at.mem \in Memory
    /\ FitsIn(at.mem, at.slice)
    /\ CellsIn(at.mem, at.slice) = list
    /\ at.slice.arr \in Used => at.slice.arr = Nil
    /\ \A a \in Addr : a # at.slice.arr => at.mem[a] = mem[a]

(* Allocation finds an array that no slice has (Go's make). *)
LEMMA RoomForOne == ASSUME TypeOK PROVE \E a \in Addr : a \in Unused
<1> DEFINE f == [m \in Msg |-> IF slot[m] = Unset THEN Nil ELSE slot[m].arr]
           g == [x \in Var |-> var[x].arr]
<1>1. f \in [Msg -> Addr \cup {Nil}] /\ g \in [Var -> Addr \cup {Nil}]
    BY DEF TypeOK, Slice
<1>2. PICK a \in Addr : (\A m \in Msg : f[m] # a) /\ (\A x \in Var : g[x] # a)
    BY <1>1, RoomAssumption
<1>3. a \notin Used
    BY <1>2 DEF Used
<1> QED
    BY <1>3 DEF Unused

(* An array that begins with a list holds it. *)
LEMMA PaddedHolds ==
    ASSUME NEW list \in Seq(Elem), NEW c \in Nat, Len(list) =< c
    PROVE  /\ Padded(list, c) \in Seq(Elem)
           /\ Len(Padded(list, c)) = c
           /\ SubSeq(Padded(list, c), 1, Len(list)) = list
<1> DEFINE cells == Padded(list, c)
<1>1. Len(list) \in Nat
    BY LenProperties
<1>2. \A i \in 1..Len(list) : list[i] \in Elem
    BY ElementOfSeq, <1>1
<1>3. cells \in [1..c -> Elem]
    BY <1>1, <1>2, ListsAssumption DEF Padded
<1>4. cells \in Seq(Elem) /\ Len(cells) = c
    BY <1>3
<1>5. \A i \in 1..Len(list) : cells[i] = list[i] /\ cells[i] \in Elem
    BY <1>1, <1>2 DEF Padded
<1>. HIDE DEF cells
<1>6. /\ SubSeq(cells, 1, Len(list)) \in Seq(Elem)
      /\ Len(SubSeq(cells, 1, Len(list))) = IF 1 =< Len(list) THEN Len(list) - 1 + 1 ELSE 0
      /\ \A i \in 1..(Len(list) - 1 + 1) : SubSeq(cells, 1, Len(list))[i] = cells[1 + i - 1]
    BY <1>1, <1>4, <1>5, SubSeqProperties
<1>7. SubSeq(cells, 1, Len(list)) = list
    <2>1. Len(SubSeq(cells, 1, Len(list))) = Len(list)
        BY <1>1, <1>6
    <2>2. \A i \in 1..Len(list) : SubSeq(cells, 1, Len(list))[i] = list[i]
        BY <1>1, <1>5, <1>6
    <2> QED
        BY <1>6, <2>1, <2>2, SeqEqual
<1> QED
    BY <1>4, <1>7 DEF cells

(* make and the growing append give a slice of their own. *)
LEMMA FreshIsNew ==
    ASSUME TypeOK, NEW list \in Seq(Elem), NEW c \in Nat, Len(list) =< c
    PROVE  IsNew(Fresh(list, c), list)
<1>1. mem \in Memory /\ Len(list) \in Nat
    BY Held, LenProperties
<1>2. CASE c = 0
    <2>1. list = <<>>
        BY <1>1, <1>2, EmptySeq
    <2>2. Fresh(list, c) = [slice |-> NoSlice, mem |-> mem]
        BY <1>2 DEF Fresh, At
    <2> QED
        BY <1>1, <2>1, <2>2, NoSliceFits DEF IsNew, CellsIn, NoSlice
<1>3. CASE c # 0
    <2> DEFINE a == CHOOSE a \in Unused : TRUE
               M == [mem EXCEPT ![a] = Padded(list, c)]
               s == [arr |-> a, len |-> Len(list)]
    <2>1. a \in Unused
        BY RoomForOne
    <2>2. a \in Addr /\ a \notin Used /\ a # Nil
        BY <2>1, ListsAssumption DEF Unused
    <2>3. Fresh(list, c) = [slice |-> s, mem |-> M]
        BY <1>3 DEF Fresh, At
    <2> HIDE DEF a
    <2>4. M \in Memory /\ M[a] = Padded(list, c) /\ \A b \in Addr : b # a => M[b] = mem[b]
        BY <1>1, <2>2, PaddedHolds DEF Memory
    <2>5. FitsIn(M, s) /\ CellsIn(M, s) = list
        BY <1>1, <2>2, <2>4, PaddedHolds DEF FitsIn, CapIn, CellsIn, Slice
    <2> QED
        BY <2>2, <2>3, <2>4, <2>5 DEF IsNew
<1> QED
    BY <1>2, <1>3

(* A new array changes no slice that was there. *)
LEMMA NewKeeps ==
    ASSUME TypeOK, NEW at, NEW list, IsNew(at, list), NEW s, FitsIn(mem, s), s.arr \in Used
    PROVE  FitsIn(at.mem, s) /\ CellsIn(at.mem, s) = CellsIn(mem, s)
<1>1. mem \in Memory /\ at.mem \in Memory
    BY Held DEF IsNew
<1>2. s.arr \in Addr => at.mem[s.arr] = mem[s.arr]
    BY ListsAssumption DEF IsNew
<1> QED
    BY <1>1, <1>2, SameCells

-----------------------------------------------------------------------------
(* Cells that are written *)

\* One cell of an array is assigned to.
IsWritten(M, a, i, e) ==
    /\ a \in Addr /\ i \in 1..Len(mem[a]) /\ e \in Elem
    /\ M = [mem EXCEPT ![a][i] = e]

(* An assignment to a cell changes that element of every slice which reaches so far, and
   nothing else. *)
LEMMA Written ==
    ASSUME TypeOK, NEW M, NEW a, NEW i, NEW e, IsWritten(M, a, i, e)
    PROVE  /\ M \in Memory
           /\ Len(M[a]) = Len(mem[a])
           /\ \A b \in Addr : b # a => M[b] = mem[b]
           /\ M[a][i] = e
           /\ \A j \in 1..Len(mem[a]) : j # i => M[a][j] = mem[a][j]
<1>1. mem[a] \in Seq(Elem) /\ mem \in Memory /\ a \in Addr
    BY Held DEF IsWritten, Memory
<1>2. M = [mem EXCEPT ![a] = [mem[a] EXCEPT ![i] = e]]
    BY DEF IsWritten
<1>3. /\ [mem[a] EXCEPT ![i] = e] \in Seq(Elem)
      /\ Len([mem[a] EXCEPT ![i] = e]) = Len(mem[a])
      /\ \A j \in 1..Len(mem[a]) : [mem[a] EXCEPT ![i] = e][j] = IF j = i THEN e ELSE mem[a][j]
    BY <1>1, ExceptSeq DEF IsWritten
<1>4. i \in 1..Len(mem[a])
    BY DEF IsWritten
<1> QED
    BY <1>1, <1>2, <1>3, <1>4 DEF Memory

LEMMA WrittenElsewhere ==
    ASSUME TypeOK, NEW M, NEW a, NEW i, NEW e, IsWritten(M, a, i, e),
           NEW s, FitsIn(mem, s)
    PROVE  /\ FitsIn(M, s)
           /\ s.arr # a => CellsIn(M, s) = CellsIn(mem, s)
<1>1. mem \in Memory /\ M \in Memory /\ Len(M[a]) = Len(mem[a])
    BY Held, Written
<1>2. FitsIn(M, s)
    <2>1. CASE s.arr = a
        BY <1>1, <2>1 DEF FitsIn, CapIn
    <2>2. CASE s.arr # a
        BY <1>1, <2>2, Written, SameCells
    <2> QED
        BY <2>1, <2>2
<1>3. s.arr # a => CellsIn(M, s) = CellsIn(mem, s)
    BY <1>1, Written, SameCells
<1> QED
    BY <1>2, <1>3

LEMMA WrittenHere ==
    ASSUME TypeOK, NEW M, NEW a, NEW i, NEW e, IsWritten(M, a, i, e),
           NEW s, FitsIn(mem, s), s.arr = a
    PROVE  /\ i \in 1..s.len => CellsIn(M, s) = [CellsIn(mem, s) EXCEPT ![i] = e]
           /\ i \notin 1..s.len => CellsIn(M, s) = CellsIn(mem, s)
<1> DEFINE old == CellsIn(mem, s)
           new == CellsIn(M, s)
<1>1. mem \in Memory /\ M \in Memory /\ FitsIn(M, s)
    BY Held, Written, WrittenElsewhere
<1>2. s.len \in Nat /\ s.len =< Len(mem[a]) /\ e \in Elem /\ Len(mem[a]) \in Nat
    BY ListsAssumption, <1>1, LenProperties DEF FitsIn, CapIn, Slice, IsWritten, Memory
<1>3. /\ old \in Seq(Elem) /\ Len(old) = s.len
      /\ \A j \in 1..s.len : old[j] = mem[a][j]
    BY <1>1, Cells
<1>4. /\ new \in Seq(Elem) /\ Len(new) = s.len
      /\ \A j \in 1..s.len : new[j] = M[a][j]
    BY <1>1, Cells
<1>5. \A j \in 1..s.len : new[j] = IF j = i THEN e ELSE old[j]
    BY <1>2, <1>3, <1>4, Written
<1> HIDE DEF old, new
<1>6. ASSUME i \in 1..s.len PROVE new = [old EXCEPT ![i] = e]
    <2>1. /\ [old EXCEPT ![i] = e] \in Seq(Elem)
          /\ Len([old EXCEPT ![i] = e]) = Len(old)
          /\ \A j \in 1..Len(old) : [old EXCEPT ![i] = e][j] = IF j = i THEN e ELSE old[j]
        BY <1>2, <1>3, <1>6, ExceptSeq
    <2>2. \A j \in 1..Len(new) : new[j] = [old EXCEPT ![i] = e][j]
        BY <1>3, <1>4, <1>5, <2>1
    <2> QED
        BY <1>3, <1>4, <2>1, <2>2, SeqEqual
<1>7. ASSUME i \notin 1..s.len PROVE new = old
    <2>1. \A j \in 1..Len(new) : new[j] = old[j]
        BY <1>4, <1>5, <1>7
    <2> QED
        BY <1>3, <1>4, <2>1, SeqEqual
<1> QED
    BY <1>6, <1>7 DEF old, new

-----------------------------------------------------------------------------
(* What a step does: a slice is stored or kept, with a new array or after one cell was
   written, or memory stays as it is *)

Lists == [m \in Msg |-> IF slot[m] = Unset THEN Unset ELSE CellsIn(mem, slot[m])]

(* content is made of these. *)
LEMMA ContentIs == content = Lists /\ content' = Lists'
BY DEF content, Lists, Elems, CellsIn

StoresNew(m, list) == \E at : IsNew(at, list) /\ Store(m, at)
KeepsNew(x, list) == \E at : IsNew(at, list) /\ Keep(x, at)

\* The slice of m, or of x, has now n elements, and cell i of its array is e.
StoresWritten(m, i, e, n) ==
    /\ slot[m] # Unset /\ n \in slot[m].len..Len(mem[slot[m].arr])
    /\ IsWritten(mem', slot[m].arr, i, e)
    /\ slot' = [slot EXCEPT ![m] = [slot[m] EXCEPT !.len = n]]
    /\ UNCHANGED var
KeepsWritten(x, i, e, n) ==
    /\ n \in var[x].len..Len(mem[var[x].arr])
    /\ IsWritten(mem', var[x].arr, i, e)
    /\ var' = [var EXCEPT ![x] = [var[x] EXCEPT !.len = n]]
    /\ UNCHANGED slot

(* The same for all slices at once, for a step that makes a new array. *)
LEMMA NewKeepsAll ==
    ASSUME TypeOK, NEW at, NEW list, IsNew(at, list)
    PROVE  /\ \A m \in Msg : slot[m] # Unset =>
                /\ FitsIn(at.mem, slot[m]) /\ CellsIn(at.mem, slot[m]) = CellsIn(mem, slot[m])
                /\ slot[m].arr = at.slice.arr => slot[m].arr = Nil
           /\ \A x \in Var : FitsIn(at.mem, var[x])
BY Held, NewKeeps DEF IsNew

(* Storing a slice of its own keeps the invariant and changes one list. *)
LEMMA StoresNewStep ==
    ASSUME ListsInv, NEW m \in Msg, NEW list, StoresNew(m, list)
    PROVE  ListsInv' /\ Lists' = [Lists EXCEPT ![m] = list]
<1> PICK at : IsNew(at, list) /\ Store(m, at)
    BY DEF StoresNew
<1> USE DEF ListsInv
<1>1. /\ at.slice \in Slice /\ at.slice # Unset
      /\ slot' = [slot EXCEPT ![m] = at.slice] /\ mem' = at.mem /\ var' = var
    BY ListsAssumption DEF IsNew, FitsIn, Store, Slice
<1>2. slot'[m] = at.slice /\ \A n \in Msg : n # m => slot'[n] = slot[n]
    BY <1>1 DEF TypeOK
<1>3. \A n \in Msg : slot'[n] # Unset => FitsIn(mem', slot'[n])
    BY <1>1, <1>2, NewKeepsAll DEF IsNew
<1>4. \A x \in Var : FitsIn(mem', var'[x])
    BY <1>1, NewKeepsAll
<1>5. TypeOK'
    BY <1>1, <1>3, <1>4 DEF TypeOK, FitsIn, CapIn, Cap, IsNew, Memory
<1>6. ArraysOwned'
    BY <1>2, NewKeepsAll DEF ArraysOwned
<1>7. Lists' = [Lists EXCEPT ![m] = list]
    <2>1. Lists'[m] = list
        BY <1>1, <1>2 DEF Lists, IsNew
    <2>2. \A n \in Msg : n # m => Lists'[n] = Lists[n]
        BY <1>1, <1>2, NewKeepsAll DEF Lists
    <2> QED
        BY <2>1, <2>2 DEF Lists
<1> QED
    BY <1>5, <1>6, <1>7

(* A slice of the program's own changes no list. *)
LEMMA KeepsNewStep ==
    ASSUME ListsInv, NEW x \in Var, NEW list, KeepsNew(x, list)
    PROVE  ListsInv' /\ Lists' = Lists
<1> PICK at : IsNew(at, list) /\ Keep(x, at)
    BY DEF KeepsNew
<1> USE DEF ListsInv
<1>1. /\ at.slice \in Slice
      /\ var' = [var EXCEPT ![x] = at.slice] /\ mem' = at.mem /\ slot' = slot
    BY DEF IsNew, FitsIn, Keep
<1>2. var'[x] = at.slice /\ \A y \in Var : y # x => var'[y] = var[y]
    BY <1>1 DEF TypeOK
<1>3. \A y \in Var : FitsIn(mem', var'[y])
    BY <1>1, <1>2, NewKeepsAll DEF IsNew
<1>4. \A n \in Msg : slot[n] # Unset => FitsIn(mem', slot[n])
    BY <1>1, NewKeepsAll
<1>5. TypeOK'
    BY <1>1, <1>3, <1>4 DEF TypeOK, FitsIn, CapIn, Cap, IsNew, Memory
<1>6. ArraysOwned'
    BY <1>1 DEF ArraysOwned
<1>7. Lists' = Lists
    BY <1>1, NewKeepsAll DEF Lists
<1> QED
    BY <1>5, <1>6, <1>7

(* A slice that grows within its array keeps what it had. *)
LEMMA Grown ==
    ASSUME NEW M \in Memory, NEW s, FitsIn(M, s), s.arr \in Addr, NEW n \in s.len..Len(M[s.arr])
    PROVE  /\ [s EXCEPT !.len = n] = [arr |-> s.arr, len |-> n]
           /\ FitsIn(M, [s EXCEPT !.len = n])
           /\ n = s.len => [s EXCEPT !.len = n] = s
           /\ n = s.len + 1 => CellsIn(M, [s EXCEPT !.len = n]) = Append(CellsIn(M, s), M[s.arr][n])
<1> DEFINE t == [arr |-> s.arr, len |-> n]
<1>1. s.arr # Nil /\ s.len \in Nat /\ n \in Nat /\ Len(M[s.arr]) \in Nat /\ M[s.arr] \in Seq(Elem)
    BY ListsAssumption, LenProperties DEF FitsIn, CapIn, Slice, Memory
<1>2. [s EXCEPT !.len = n] = t
    BY DEF FitsIn, Slice
<1>3. FitsIn(M, t)
    BY <1>1 DEF FitsIn, CapIn, Slice
<1>4. n = s.len => t = s
    BY DEF FitsIn, Slice
<1>5. ASSUME n = s.len + 1
      PROVE  CellsIn(M, t) = Append(CellsIn(M, s), M[s.arr][n])
    <2>1. M[s.arr][n] \in Elem
        BY <1>1, <1>5, ElementOfSeq
    <2>2. /\ CellsIn(M, s) \in Seq(Elem) /\ Len(CellsIn(M, s)) = s.len
          /\ \A i \in 1..s.len : CellsIn(M, s)[i] = M[s.arr][i]
        BY Cells
    <2>3. /\ CellsIn(M, t) \in Seq(Elem) /\ Len(CellsIn(M, t)) = n
          /\ \A i \in 1..n : CellsIn(M, t)[i] = M[s.arr][i]
        BY <1>3, Cells
    <2> HIDE DEF t
    <2>4. /\ Append(CellsIn(M, s), M[s.arr][n]) \in Seq(Elem)
          /\ Len(Append(CellsIn(M, s), M[s.arr][n])) = n
          /\ \A i \in 1..s.len : Append(CellsIn(M, s), M[s.arr][n])[i] = CellsIn(M, s)[i]
          /\ Append(CellsIn(M, s), M[s.arr][n])[n] = M[s.arr][n]
        BY <1>5, <2>1, <2>2, AppendProperties
    <2>5. \A i \in 1..n : CellsIn(M, t)[i] = Append(CellsIn(M, s), M[s.arr][n])[i]
        BY <1>1, <1>5, <2>2, <2>3, <2>4
    <2> QED
        BY <2>3, <2>4, <2>5, SeqEqual
<1> QED
    BY <1>2, <1>3, <1>4, <1>5

-----------------------------------------------------------------------------
(* Cells written by the library *)

(* Writing into the array of a message's own list keeps the invariant and every other
   list; its own is the slice in the new memory. *)
LEMMA StoresWrittenStep ==
    ASSUME ListsInv, NEW m \in Msg, NEW i, NEW e, NEW n, StoresWritten(m, i, e, n)
    PROVE  /\ ListsInv'
           /\ Lists' = [Lists EXCEPT ![m] = CellsIn(mem', [slot[m] EXCEPT !.len = n])]
<1> DEFINE s == [slot[m] EXCEPT !.len = n]
<1> USE DEF ListsInv
<1>1. /\ slot[m] # Unset /\ FitsIn(mem, slot[m]) /\ slot[m].arr \in Addr /\ slot[m].arr # Nil
      /\ IsWritten(mem', slot[m].arr, i, e)
    BY Held, ListsAssumption DEF StoresWritten, IsWritten
<1>2. mem' \in Memory /\ Len(mem'[slot[m].arr]) = Len(mem[slot[m].arr]) /\ FitsIn(mem', slot[m])
    BY <1>1, Written, WrittenElsewhere
<1>3. n \in slot[m].len..Len(mem'[slot[m].arr])
    BY <1>2 DEF StoresWritten
<1>4. s.arr = slot[m].arr /\ FitsIn(mem', s) /\ s \in Slice /\ s # Unset
    <2>1. s = [arr |-> slot[m].arr, len |-> n] /\ FitsIn(mem', s)
        BY <1>1, <1>2, <1>3, Grown
    <2> QED
        BY <2>1, ListsAssumption DEF FitsIn, Slice
<1>5. slot' = [slot EXCEPT ![m] = s] /\ var' = var
    BY DEF StoresWritten
<1> HIDE DEF s
<1>6. slot'[m] = s /\ \A k \in Msg : k # m => slot'[k] = slot[k]
    BY <1>5 DEF TypeOK
<1>7. \A k \in Msg : k # m /\ slot[k] # Unset =>
          /\ slot[k].arr # slot[m].arr
          /\ FitsIn(mem', slot[k]) /\ CellsIn(mem', slot[k]) = CellsIn(mem, slot[k])
    <2> SUFFICES ASSUME NEW k \in Msg, k # m, slot[k] # Unset
                 PROVE  /\ slot[k].arr # slot[m].arr
                        /\ FitsIn(mem', slot[k]) /\ CellsIn(mem', slot[k]) = CellsIn(mem, slot[k])
        OBVIOUS
    <2>1. slot[k].arr # slot[m].arr
        BY <1>1 DEF ArraysOwned
    <2>2. FitsIn(mem, slot[k])
        BY Held
    <2> QED
        BY <1>1, <2>1, <2>2, WrittenElsewhere
<1>8. \A k \in Msg : slot'[k] # Unset => FitsIn(mem', slot'[k])
    BY <1>4, <1>6, <1>7
<1>9. \A x \in Var : FitsIn(mem', var'[x])
    <2> SUFFICES ASSUME NEW x \in Var PROVE FitsIn(mem', var[x])
        BY <1>5
    <2>1. FitsIn(mem, var[x])
        BY Held
    <2> QED
        BY <1>1, <2>1, WrittenElsewhere
<1>10. TypeOK'
    BY <1>2, <1>4, <1>5, <1>8, <1>9 DEF TypeOK, FitsIn, CapIn, Cap, Memory
<1>11. ArraysOwned'
    BY <1>4, <1>6, <1>7 DEF ArraysOwned
<1>12. Lists' = [Lists EXCEPT ![m] = CellsIn(mem', s)]
    <2>1. Lists'[m] = CellsIn(mem', s)
        BY <1>4, <1>6 DEF Lists
    <2>2. \A k \in Msg : k # m => Lists'[k] = Lists[k]
        BY <1>6, <1>7 DEF Lists
    <2> QED
        BY <2>1, <2>2 DEF Lists
<1> QED
    BY <1>10, <1>11, <1>12 DEF s

(* The program's writing into a slice keeps the invariant.  It reaches one list at most,
   the one whose array it is, and of that the one element. *)
LEMMA KeepsWrittenStep ==
    ASSUME ListsInv, NEW x \in Var, NEW i, NEW e, NEW n, KeepsWritten(x, i, e, n)
    PROVE  /\ ListsInv'
           /\ \/ Lists' = Lists
              \/ \E m \in Msg : /\ slot[m] # Unset /\ i \in 1..slot[m].len
                                /\ Lists' = [Lists EXCEPT ![m] = [Lists[m] EXCEPT ![i] = e]]
<1> DEFINE s == [var[x] EXCEPT !.len = n]
           a == var[x].arr
<1> USE DEF ListsInv
<1>1. /\ FitsIn(mem, var[x]) /\ a \in Addr /\ a # Nil /\ IsWritten(mem', a, i, e)
    BY Held, ListsAssumption DEF KeepsWritten, IsWritten
<1>2. mem' \in Memory /\ Len(mem'[a]) = Len(mem[a]) /\ FitsIn(mem', var[x])
    BY <1>1, Written, WrittenElsewhere
<1>3. n \in var[x].len..Len(mem'[a])
    BY <1>2 DEF KeepsWritten
<1>4. FitsIn(mem', s) /\ s \in Slice
    <2>1. FitsIn(mem', s)
        BY <1>1, <1>2, <1>3, Grown
    <2> QED
        BY <2>1 DEF FitsIn
<1>5. var' = [var EXCEPT ![x] = s] /\ slot' = slot
    BY DEF KeepsWritten
<1> HIDE DEF s, a
<1>6. var'[x] = s /\ \A y \in Var : y # x => var'[y] = var[y]
    BY <1>5 DEF TypeOK
<1>7. \A y \in Var : FitsIn(mem', var[y])
    <2> SUFFICES ASSUME NEW y \in Var PROVE FitsIn(mem', var[y])
        OBVIOUS
    <2>1. FitsIn(mem, var[y])
        BY Held
    <2> QED
        BY <1>1, <2>1, WrittenElsewhere
<1>8. \A k \in Msg : slot[k] # Unset =>
          /\ FitsIn(mem', slot[k])
          /\ slot[k].arr # a => CellsIn(mem', slot[k]) = CellsIn(mem, slot[k])
    <2> SUFFICES ASSUME NEW k \in Msg, slot[k] # Unset
                 PROVE  /\ FitsIn(mem', slot[k])
                        /\ slot[k].arr # a => CellsIn(mem', slot[k]) = CellsIn(mem, slot[k])
        OBVIOUS
    <2>1. FitsIn(mem, slot[k])
        BY Held
    <2> QED
        BY <1>1, <2>1, WrittenElsewhere
<1>9. TypeOK'
    BY <1>2, <1>4, <1>5, <1>6, <1>7, <1>8 DEF TypeOK, FitsIn, CapIn, Cap, Memory
<1>10. ArraysOwned'
    BY <1>5 DEF ArraysOwned
<1>11. CASE \A k \in Msg : slot[k] # Unset => slot[k].arr # a
    <2>1. Lists' = Lists
        BY <1>5, <1>8, <1>11 DEF Lists
    <2> QED
        BY <1>9, <1>10, <2>1
<1>12. CASE \E k \in Msg : slot[k] # Unset /\ slot[k].arr = a
    <2> PICK m \in Msg : slot[m] # Unset /\ slot[m].arr = a
        BY <1>12
    <2>1. \A k \in Msg : k # m /\ slot[k] # Unset => slot[k].arr # a
        BY <1>1 DEF ArraysOwned
    <2>2. \A k \in Msg : k # m => Lists'[k] = Lists[k]
        BY <1>5, <1>8, <2>1 DEF Lists
    <2>3. FitsIn(mem, slot[m])
        BY Held
    <2>4. /\ i \in 1..slot[m].len => CellsIn(mem', slot[m]) = [CellsIn(mem, slot[m]) EXCEPT ![i] = e]
          /\ i \notin 1..slot[m].len => CellsIn(mem', slot[m]) = CellsIn(mem, slot[m])
        BY <1>1, <2>3, WrittenHere
    <2>5. Lists[m] = CellsIn(mem, slot[m]) /\ Lists'[m] = CellsIn(mem', slot[m])
        BY <1>5 DEF Lists
    <2>6. CASE i \in 1..slot[m].len
        <3>1. Lists' = [Lists EXCEPT ![m] = [Lists[m] EXCEPT ![i] = e]]
            BY <2>2, <2>4, <2>5, <2>6 DEF Lists
        <3> QED
            BY <1>9, <1>10, <2>6, <3>1
    <2>7. CASE i \notin 1..slot[m].len
        <3>1. Lists' = Lists
            BY <2>2, <2>4, <2>5, <2>7 DEF Lists
        <3> QED
            BY <1>9, <1>10, <3>1
    <2> QED
        BY <2>6, <2>7
<1> QED
    BY <1>11, <1>12

-----------------------------------------------------------------------------
(* Every action has one of these effects *)

(* append makes a new slice or fills the next cell. *)
LEMMA AppendedCases ==
    ASSUME TypeOK, NEW s, FitsIn(mem, s), NEW e \in Elem, NEW at \in Appended(s, e)
    PROVE  \/ IsNew(at, Append(CellsIn(mem, s), e))
           \/ /\ s.arr \in Addr /\ s.len + 1 \in 1..Len(mem[s.arr])
              /\ IsWritten(at.mem, s.arr, s.len + 1, e)
              /\ at.slice = [s EXCEPT !.len = s.len + 1]
<1>1. /\ s.len \in Nat /\ s.arr \in Addr \cup {Nil} /\ mem \in Memory
      /\ Cap(s) = CapIn(mem, s) /\ Elems(s) = CellsIn(mem, s)
    BY Held DEF FitsIn, Slice, Cap, CapIn, Elems, CellsIn
<1>2. CASE s.len < Cap(s)
    <2>1. /\ at = At([s EXCEPT !.len = s.len + 1], [mem EXCEPT ![s.arr][s.len + 1] = e])
        BY <1>2 DEF Appended
    <2>2. s.arr \in Addr /\ Len(mem[s.arr]) \in Nat /\ s.len < Len(mem[s.arr])
        BY <1>1, <1>2, LenProperties DEF CapIn, Memory
    <2> QED
        BY <1>1, <2>1, <2>2 DEF At, IsWritten
<1>3. CASE ~(s.len < Cap(s))
    <2>1. PICK c \in (s.len + 1)..MaxCap : at = Fresh(Append(Elems(s), e), c)
        BY <1>3 DEF Appended
    <2>2. /\ Append(CellsIn(mem, s), e) \in Seq(Elem)
          /\ Len(Append(CellsIn(mem, s), e)) = s.len + 1
        BY <1>1, Cells, AppendProperties
    <2>3. c \in Nat /\ s.len + 1 =< c
        BY <1>1, <2>1, ListsAssumption
    <2> QED
        BY <1>1, <2>1, <2>2, <2>3, FreshIsNew
<1> QED
    BY <1>2, <1>3

(* make with copy, and the decoders, store or keep a new slice. *)
LEMMA MadeIsNew ==
    ASSUME TypeOK, NEW list \in Seq(Elem)
    PROVE  IsNew(Made(list), list)
BY FreshIsNew, LenProperties DEF Made

LEMMA SetFieldStores ==
    ASSUME TypeOK, NEW m \in Msg, NEW x \in Var, SetField(m, x)
    PROVE  StoresNew(m, CellsIn(mem, var[x])) /\ CellsIn(mem, var[x]) \in Seq(Elem)
<1>1. CellsIn(mem, var[x]) \in Seq(Elem) /\ Elems(var[x]) = CellsIn(mem, var[x])
    BY Held, Cells DEF Elems, CellsIn
<1> QED
    BY <1>1, MadeIsNew DEF SetField, StoresNew

LEMMA DecodeStores ==
    ASSUME TypeOK, NEW m \in Msg, NEW list \in List, Decode(m, list)
    PROVE  StoresNew(m, list) /\ list \in Seq(Elem)
<1>1. list \in Seq(Elem) /\ Len(list) \in Nat /\ MaxCap \in Nat
    BY ListsAssumption, LenProperties
<1>2. PICK c \in Len(list)..MaxCap : Store(m, Fresh(list, c))
    BY DEF Decode
<1>3. IsNew(Fresh(list, c), list)
    BY <1>1, FreshIsNew
<1> QED
    BY <1>1, <1>2, <1>3 DEF StoresNew

LEMMA MakeKeeps ==
    ASSUME TypeOK, NEW x \in Var, NEW list \in List, Make(x, list)
    PROVE  KeepsNew(x, list)
BY ListsAssumption, MadeIsNew DEF Make, KeepsNew

LEMMA SetElementStores ==
    ASSUME TypeOK, NEW m \in Msg, NEW i \in 1..MaxCap, NEW e \in Elem, SetElement(m, i, e)
    PROVE  StoresWritten(m, i, e, slot[m].len) /\ i \in 1..slot[m].len
<1>1. /\ slot[m] # Unset /\ i =< slot[m].len /\ slot[m] \in Slice /\ mem \in Memory
      /\ slot[m].len =< CapIn(mem, slot[m])
    BY Held DEF SetElement, FitsIn
<1>2. i \in Nat /\ 1 =< i
    BY ListsAssumption
<1>3. slot[m].arr \in Addr /\ slot[m].len \in Nat /\ Len(mem[slot[m].arr]) \in Nat
      /\ slot[m].len =< Len(mem[slot[m].arr])
    BY <1>1, <1>2, LenProperties DEF CapIn, Slice, Memory
<1>4. slot' = [slot EXCEPT ![m] = [slot[m] EXCEPT !.len = slot[m].len]]
    BY <1>1 DEF SetElement, Store, At, Slice
<1>5. mem' = [mem EXCEPT ![slot[m].arr][i] = e] /\ var' = var
    BY DEF SetElement, Store, At
<1>6. IsWritten(mem', slot[m].arr, i, e)
    BY <1>1, <1>2, <1>3, <1>5 DEF IsWritten
<1>7. slot[m].len \in slot[m].len..Len(mem[slot[m].arr]) /\ i \in 1..slot[m].len
    BY <1>1, <1>2, <1>3
<1> QED
    BY <1>1, <1>4, <1>5, <1>6, <1>7 DEF StoresWritten

LEMMA WriteKeeps ==
    ASSUME TypeOK, NEW x \in Var, NEW i \in 1..MaxCap, NEW e \in Elem, Write(x, i, e)
    PROVE  KeepsWritten(x, i, e, var[x].len)
<1>1. /\ i =< var[x].len /\ var[x] \in Slice /\ mem \in Memory
      /\ var[x].len =< CapIn(mem, var[x])
    BY Held DEF Write, FitsIn
<1>2. i \in Nat /\ 1 =< i
    BY ListsAssumption
<1>3. var[x].arr \in Addr /\ var[x].len \in Nat /\ Len(mem[var[x].arr]) \in Nat
      /\ var[x].len =< Len(mem[var[x].arr])
    BY <1>1, <1>2, LenProperties DEF CapIn, Slice, Memory
<1>4. var' = [var EXCEPT ![x] = [var[x] EXCEPT !.len = var[x].len]]
    BY <1>1 DEF Write, Keep, At, Slice
<1>5. mem' = [mem EXCEPT ![var[x].arr][i] = e] /\ slot' = slot
    BY DEF Write, Keep, At
<1>6. IsWritten(mem', var[x].arr, i, e)
    BY <1>1, <1>2, <1>3, <1>5 DEF IsWritten
<1>7. var[x].len \in var[x].len..Len(mem[var[x].arr])
    BY <1>3
<1> QED
    BY <1>4, <1>5, <1>6, <1>7 DEF KeepsWritten

\* The list of m with one element more.
Longer(m, e) == IF slot[m] = Unset THEN <<e>> ELSE Append(CellsIn(mem, slot[m]), e)

LEMMA AppendStores ==
    ASSUME TypeOK, NEW m \in Msg, NEW e \in Elem, AppendField(m, e)
    PROVE  \/ StoresNew(m, Longer(m, e))
           \/ StoresWritten(m, slot[m].len + 1, e, slot[m].len + 1)
<1> DEFINE s == IF slot[m] = Unset THEN NoSlice ELSE slot[m]
<1>1. FitsIn(mem, s)
    BY Held, NoSliceFits
<1>2. PICK at \in Appended(s, e) : Store(m, at)
    BY DEF AppendField
<1>3. Append(CellsIn(mem, s), e) = Longer(m, e)
    <2>1. CASE slot[m] = Unset
        BY <2>1 DEF Longer, CellsIn, NoSlice
    <2>2. CASE slot[m] # Unset
        BY <2>2 DEF Longer
    <2> QED
        BY <2>1, <2>2
<1> HIDE DEF s
<1>4. CASE IsNew(at, Append(CellsIn(mem, s), e))
    BY <1>2, <1>3, <1>4 DEF StoresNew
<1>5. CASE /\ s.arr \in Addr /\ s.len + 1 \in 1..Len(mem[s.arr])
           /\ IsWritten(at.mem, s.arr, s.len + 1, e)
           /\ at.slice = [s EXCEPT !.len = s.len + 1]
    <2>1. slot[m] # Unset /\ s = slot[m]
        BY <1>5, ListsAssumption DEF s, NoSlice
    <2>2. s.len \in Nat /\ s.len + 1 \in s.len..Len(mem[s.arr])
        BY <1>1, <1>5 DEF FitsIn, Slice
    <2> QED
        BY <1>2, <1>5, <2>1, <2>2 DEF StoresWritten, Store
<1> QED
    BY <1>1, <1>4, <1>5, AppendedCases

LEMMA ExtendKeeps ==
    ASSUME TypeOK, NEW x \in Var, NEW e \in Elem, Extend(x, e)
    PROVE  \/ \E list : KeepsNew(x, list)
           \/ KeepsWritten(x, var[x].len + 1, e, var[x].len + 1)
<1>1. FitsIn(mem, var[x])
    BY Held
<1>2. PICK at \in Appended(var[x], e) : Keep(x, at)
    BY DEF Extend
<1>3. CASE IsNew(at, Append(CellsIn(mem, var[x]), e))
    BY <1>2, <1>3 DEF KeepsNew
<1>4. CASE /\ var[x].arr \in Addr /\ var[x].len + 1 \in 1..Len(mem[var[x].arr])
           /\ IsWritten(at.mem, var[x].arr, var[x].len + 1, e)
           /\ at.slice = [var[x] EXCEPT !.len = var[x].len + 1]
    <2>1. var[x].len \in Nat /\ var[x].len + 1 \in var[x].len..Len(mem[var[x].arr])
        BY <1>1, <1>4 DEF FitsIn, Slice
    <2> QED
        BY <1>2, <1>4, <2>1 DEF KeepsWritten, Keep
<1> QED
    BY <1>1, <1>3, <1>4, AppendedCases

(* Dropping a list: Clear, and a copy of a message that has none. *)
LEMMA DropStep ==
    ASSUME ListsInv, NEW m \in Msg, slot' = [slot EXCEPT ![m] = Unset], var' = var, mem' = mem
    PROVE  ListsInv' /\ Lists' = [Lists EXCEPT ![m] = Unset]
<1> USE DEF ListsInv
<1>1. slot'[m] = Unset /\ \A k \in Msg : k # m => slot'[k] = slot[k]
    BY DEF TypeOK
<1>2. TypeOK'
    BY <1>1 DEF TypeOK, Cap
<1>3. ArraysOwned'
    BY <1>1 DEF ArraysOwned
<1>4. Lists' = [Lists EXCEPT ![m] = Unset]
    <2>1. Lists'[m] = Unset
        BY <1>1 DEF Lists
    <2>2. \A k \in Msg : k # m => Lists'[k] = Lists[k]
        BY <1>1 DEF Lists, CellsIn
    <2> QED
        BY <2>1, <2>2, ZenonT(40) DEF Lists
<1> QED
    BY <1>2, <1>3, <1>4

(* A getter hands out what is stored. *)
LEMMA GetSliceStep ==
    ASSUME ListsInv, NEW x \in Var, NEW m \in Msg, GetSlice(x, m)
    PROVE  ListsInv' /\ Lists' = Lists /\ mem' = mem
<1> USE DEF ListsInv
<1> DEFINE s == IF slot[m] = Unset THEN NoSlice ELSE slot[m]
<1>1. FitsIn(mem, s) /\ s \in Slice
    BY Held, NoSliceFits DEF FitsIn
<1>2. var' = [var EXCEPT ![x] = s] /\ mem' = mem /\ slot' = slot
    BY DEF GetSlice, Keep, At
<1> HIDE DEF s
<1>3. var'[x] = s /\ \A y \in Var : y # x => var'[y] = var[y]
    BY <1>2 DEF TypeOK
<1>4. TypeOK'
    BY <1>1, <1>2, <1>3 DEF TypeOK, Cap, FitsIn, CapIn
<1>5. ArraysOwned'
    BY <1>2 DEF ArraysOwned
<1>6. Lists' = Lists
    BY <1>2 DEF Lists
<1> QED
    BY <1>2, <1>4, <1>5, <1>6

-----------------------------------------------------------------------------
(* The invariant *)

\* What a step of the library does to the list of m.
Library(m) ==
    \/ \E x \in Var : SetField(m, x)
    \/ \E i \in 1..MaxCap, e \in Elem : SetElement(m, i, e)
    \/ \E e \in Elem : AppendField(m, e)
    \/ ClearField(m)
    \/ \E n \in Msg : CopyFrom(m, n)
    \/ \E list \in List : Decode(m, list)

\* A step of the program on its variable x.
Program(x) ==
    \/ \E m \in Msg : GetSlice(x, m)
    \/ \E list \in List : Make(x, list)
    \/ \E i \in 1..MaxCap, e \in Elem : Write(x, i, e)
    \/ \E e \in Elem : Extend(x, e)

LEMMA Steps == Next => (\E m \in Msg : Library(m)) \/ (\E x \in Var : Program(x))
BY Zenon DEF Next, Library, Program

(* copyFrom drops the list or stores a copy of the source's. *)
LEMMA CopyFromCases ==
    ASSUME TypeOK, NEW m \in Msg, NEW n \in Msg, CopyFrom(m, n)
    PROVE  \/ /\ m = n \/ slot[n] = Unset
              /\ slot' = [slot EXCEPT ![m] = Unset] /\ var' = var /\ mem' = mem
           \/ /\ m # n /\ slot[n] # Unset
              /\ StoresNew(m, CellsIn(mem, slot[n])) /\ CellsIn(mem, slot[n]) \in Seq(Elem)
<1>1. CASE m = n \/ slot[n] = Unset
    BY <1>1 DEF CopyFrom
<1>2. CASE m # n /\ slot[n] # Unset
    <2>1. CellsIn(mem, slot[n]) \in Seq(Elem) /\ Elems(slot[n]) = CellsIn(mem, slot[n])
        BY <1>2, Held, Cells DEF Elems, CellsIn
    <2>2. Store(m, Made(CellsIn(mem, slot[n])))
        BY <1>2, <2>1 DEF CopyFrom
    <2>3. IsNew(Made(CellsIn(mem, slot[n])), CellsIn(mem, slot[n]))
        BY <2>1, MadeIsNew
    <2> QED
        BY <1>2, <2>1, <2>2, <2>3 DEF StoresNew
<1> QED
    BY <1>1, <1>2

(* Every call of the library keeps the invariant. *)
LEMMA LibraryKeeps == ASSUME ListsInv, NEW m \in Msg, Library(m) PROVE ListsInv'
<1>0. TypeOK
    BY DEF ListsInv
<1>1. ASSUME NEW x \in Var, SetField(m, x) PROVE ListsInv'
    BY <1>0, <1>1, SetFieldStores, StoresNewStep
<1>2. ASSUME NEW i \in 1..MaxCap, NEW e \in Elem, SetElement(m, i, e) PROVE ListsInv'
    BY <1>0, <1>2, SetElementStores, StoresWrittenStep
<1>3. ASSUME NEW e \in Elem, AppendField(m, e) PROVE ListsInv'
    BY <1>0, <1>3, AppendStores, StoresNewStep, StoresWrittenStep
<1>4. CASE ClearField(m)
    BY <1>4, DropStep DEF ClearField
<1>5. ASSUME NEW n \in Msg, CopyFrom(m, n) PROVE ListsInv'
    BY <1>0, <1>5, CopyFromCases, DropStep, StoresNewStep
<1>6. ASSUME NEW list \in List, Decode(m, list) PROVE ListsInv'
    BY <1>0, <1>6, DecodeStores, StoresNewStep
<1> QED
    BY <1>1, <1>2, <1>3, <1>4, <1>5, <1>6 DEF Library

(* So does every statement of the program. *)
LEMMA ProgramKeeps == ASSUME ListsInv, NEW x \in Var, Program(x) PROVE ListsInv'
<1>0. TypeOK
    BY DEF ListsInv
<1>1. ASSUME NEW m \in Msg, GetSlice(x, m) PROVE ListsInv'
    BY <1>1, GetSliceStep
<1>2. ASSUME NEW list \in List, Make(x, list) PROVE ListsInv'
    BY <1>0, <1>2, MakeKeeps, KeepsNewStep
<1>3. ASSUME NEW i \in 1..MaxCap, NEW e \in Elem, Write(x, i, e) PROVE ListsInv'
    BY <1>0, <1>3, WriteKeeps, KeepsWrittenStep
<1>4. ASSUME NEW e \in Elem, Extend(x, e) PROVE ListsInv'
    BY <1>0, <1>4, ExtendKeeps, KeepsNewStep, KeepsWrittenStep
<1> QED
    BY <1>1, <1>2, <1>3, <1>4 DEF Program

(* In every reachable state slices are within their arrays and no two messages share one
   (the slices of repeated fields). *)
THEOREM ListsInvariance == Spec => []ListsInv
<1>1. Init => ListsInv
    BY ListsAssumption, EmptySeq DEF Init, ListsInv, TypeOK, ArraysOwned, NoSlice, Slice, Cap
<1>2. ListsInv /\ [Next]_vars => ListsInv'
    <2> SUFFICES ASSUME ListsInv, [Next]_vars PROVE ListsInv'
        OBVIOUS
    <2>1. CASE Next
        BY <2>1, Steps, LibraryKeeps, ProgramKeeps
    <2>2. CASE UNCHANGED vars
        BY <2>2 DEF vars, ListsInv, TypeOK, ArraysOwned, Cap
    <2> QED
        BY <2>1, <2>2
<1> QED
    BY <1>1, <1>2, PTL DEF Spec

(* Slices of the messages and of the program are within their arrays. *)
THEOREM TypeCorrect == Spec => []TypeOK
<1>1. ListsInv => TypeOK
    BY DEF ListsInv
<1> QED
    BY <1>1, ListsInvariance, PTL

(* No two messages share an array: a copy is independent of its source, and a slice that
   is stored in a message has been copied. *)
THEOREM ArraysAreOwned == Spec => []ArraysOwned
<1>1. ListsInv => ArraysOwned
    BY DEF ListsInv
<1> QED
    BY <1>1, ListsInvariance, PTL

-----------------------------------------------------------------------------
(* Lists implements ListSpec *)

(* The elements of a list that is there (ListSpec's content). *)
LEMMA ListOf ==
    ASSUME TypeOK, NEW m \in Msg, slot[m] # Unset
    PROVE  /\ content[m] = CellsIn(mem, slot[m]) /\ content[m] # Unset
           /\ content[m] \in Seq(Elem) /\ DOMAIN content[m] = 1..slot[m].len
           /\ slot[m].len \in Nat
<1>1. FitsIn(mem, slot[m]) /\ mem \in Memory
    BY Held
<1>2. content[m] = CellsIn(mem, slot[m])
    BY ContentIs DEF Lists
<1>3. CellsIn(mem, slot[m]) \in Seq(Elem) /\ Len(CellsIn(mem, slot[m])) = slot[m].len
    BY <1>1, Cells
<1>4. DOMAIN CellsIn(mem, slot[m]) = 1..slot[m].len
    BY <1>3, LenProperties
<1> QED
    BY <1>1, <1>2, <1>3, <1>4, ListsAssumption DEF FitsIn, Slice

(* A call of the library is the call of that name on values. *)
LEMMA LibraryRefines ==
    ASSUME ListsInv, NEW m \in Msg, Library(m)
    PROVE  \/ Values!Assign(m) \/ Values!SetElement(m) \/ Values!AppendField(m)
           \/ Values!ClearField(m) \/ \E n \in Msg : Values!CopyFrom(m, n)
<1>0. TypeOK
    BY DEF ListsInv
<1>1. ASSUME NEW x \in Var, SetField(m, x) PROVE Values!Assign(m)
    <2>1. /\ StoresNew(m, CellsIn(mem, var[x])) /\ CellsIn(mem, var[x]) \in Seq(Elem)
          /\ Elems(var[x]) = CellsIn(mem, var[x])
        BY <1>0, <1>1, SetFieldStores DEF Elems, CellsIn
    <2>2. Lists' = [Lists EXCEPT ![m] = CellsIn(mem, var[x])]
        BY <2>1, StoresNewStep
    <2>3. op' = [name |-> "SetField", msg |-> m, list |-> CellsIn(mem, var[x])]
        BY <1>1, <2>1 DEF SetField
    <2> QED
        BY <2>1, <2>2, <2>3, ContentIs DEF Values!Assign, Values!Becomes
<1>2. ASSUME NEW i \in 1..MaxCap, NEW e \in Elem, SetElement(m, i, e)
      PROVE  Values!SetElement(m)
    <2>1. StoresWritten(m, i, e, slot[m].len) /\ i \in 1..slot[m].len
        BY <1>0, <1>2, SetElementStores
    <2>2. Lists' = [Lists EXCEPT ![m] = CellsIn(mem', [slot[m] EXCEPT !.len = slot[m].len])]
        BY <2>1, StoresWrittenStep
    <2>3. /\ slot[m] # Unset /\ FitsIn(mem, slot[m]) /\ IsWritten(mem', slot[m].arr, i, e)
          /\ [slot[m] EXCEPT !.len = slot[m].len] = slot[m]
        BY <1>0, <2>1, Held DEF StoresWritten, FitsIn, Slice
    <2>4. CellsIn(mem', slot[m]) = [CellsIn(mem, slot[m]) EXCEPT ![i] = e]
        BY <1>0, <2>1, <2>3, WrittenHere
    <2>5. /\ content[m] = CellsIn(mem, slot[m]) /\ content[m] # Unset
          /\ DOMAIN content[m] = 1..slot[m].len
        BY <1>0, <2>3, ListOf
    <2>6. content' = [content EXCEPT ![m] = [content[m] EXCEPT ![i] = e]]
        BY <2>2, <2>3, <2>4, <2>5, ContentIs
    <2>7. op' = [name |-> "SetElement", msg |-> m, idx |-> i, elem |-> e]
        BY <1>2 DEF SetElement
    <2>8. i \in Nat
        OBVIOUS
    <2> QED
        BY <2>1, <2>5, <2>6, <2>7, <2>8
        DEF Values!SetElement, Values!Has, Values!Becomes
<1>3. ASSUME NEW e \in Elem, AppendField(m, e) PROVE Values!AppendField(m)
    <2>1. op' = [name |-> "AppendField", msg |-> m, elem |-> e]
        BY <1>3 DEF AppendField
    <2>2. content' = [content EXCEPT ![m] = Longer(m, e)]
        <3>1. CASE StoresNew(m, Longer(m, e))
            BY <3>1, StoresNewStep, ContentIs
        <3>2. CASE StoresWritten(m, slot[m].len + 1, e, slot[m].len + 1)
            <4> DEFINE n == slot[m].len + 1
                       a == slot[m].arr
            <4>1. Lists' = [Lists EXCEPT ![m] = CellsIn(mem', [slot[m] EXCEPT !.len = n])]
                BY <3>2, StoresWrittenStep
            <4>2. /\ slot[m] # Unset /\ FitsIn(mem, slot[m]) /\ IsWritten(mem', a, n, e)
                  /\ n \in slot[m].len..Len(mem[a]) /\ slot[m].len \in Nat
                BY <1>0, <3>2, Held DEF StoresWritten, FitsIn, Slice
            <4>3. /\ mem' \in Memory /\ Len(mem'[a]) = Len(mem[a]) /\ mem'[a][n] = e
                  /\ FitsIn(mem', slot[m]) /\ a \in Addr
                <5>1. a \in Addr
                    BY <4>2 DEF IsWritten
                <5>2. mem' \in Memory /\ Len(mem'[a]) = Len(mem[a]) /\ mem'[a][n] = e
                    <6> HIDE DEF a, n
                    <6> QED
                        BY <1>0, <4>2, Written
                <5>3. FitsIn(mem', slot[m])
                    <6> HIDE DEF a, n
                    <6> QED
                        BY <1>0, <4>2, WrittenElsewhere
                <5> QED
                    BY <5>1, <5>2, <5>3
            <4>4. CellsIn(mem', slot[m]) = CellsIn(mem, slot[m])
                <5>1. n \notin 1..slot[m].len
                    BY <4>2
                <5> QED
                    BY <1>0, <4>2, <5>1, WrittenHere
            <4>5. CellsIn(mem', [slot[m] EXCEPT !.len = n])
                      = Append(CellsIn(mem', slot[m]), mem'[a][n])
                BY <4>2, <4>3, Grown
            <4>6. CellsIn(mem', [slot[m] EXCEPT !.len = n]) = Longer(m, e)
                BY <4>2, <4>3, <4>4, <4>5 DEF Longer
            <4> HIDE DEF n
            <4> QED
                BY <4>1, <4>6, ContentIs
        <3> QED
            BY <1>0, <1>3, <3>1, <3>2, AppendStores
    <2>3. Longer(m, e) = IF content[m] = Unset THEN <<e>> ELSE Append(content[m], e)
        <3>1. CASE slot[m] = Unset
            BY <3>1, ContentIs DEF Longer, Lists
        <3>2. CASE slot[m] # Unset
            BY <1>0, <3>2, ListOf DEF Longer
        <3> QED
            BY <3>1, <3>2
    <2> QED
        BY <2>1, <2>2, <2>3 DEF Values!AppendField, Values!Becomes
<1>4. CASE ClearField(m)
    <2>1. /\ op' = [name |-> "ClearField", msg |-> m]
          /\ slot' = [slot EXCEPT ![m] = Unset] /\ var' = var /\ mem' = mem
        BY <1>4 DEF ClearField
    <2> QED
        BY <2>1, DropStep, ContentIs DEF Values!ClearField, Values!Becomes
<1>5. ASSUME NEW n \in Msg, CopyFrom(m, n) PROVE Values!CopyFrom(m, n)
    <2>1. op' = [name |-> "CopyFrom", msg |-> m, from |-> n]
        BY <1>5 DEF CopyFrom
    <2>2. CASE /\ m = n \/ slot[n] = Unset
               /\ slot' = [slot EXCEPT ![m] = Unset] /\ var' = var /\ mem' = mem
        <3>1. content' = [content EXCEPT ![m] = Unset]
            BY <2>2, DropStep, ContentIs
        <3>2. slot[n] = Unset => content[n] = Unset
            BY ContentIs DEF Lists
        <3> QED
            BY <2>1, <2>2, <3>1, <3>2 DEF Values!CopyFrom, Values!Becomes
    <2>3. CASE /\ m # n /\ slot[n] # Unset
               /\ StoresNew(m, CellsIn(mem, slot[n])) /\ CellsIn(mem, slot[n]) \in Seq(Elem)
        <3>1. content' = [content EXCEPT ![m] = CellsIn(mem, slot[n])]
            BY <2>3, StoresNewStep, ContentIs
        <3>2. content[n] = CellsIn(mem, slot[n])
            BY <1>0, <2>3, ListOf
        <3> QED
            BY <2>1, <2>3, <3>1, <3>2 DEF Values!CopyFrom, Values!Becomes
    <2> QED
        BY <1>0, <1>5, <2>2, <2>3, CopyFromCases
<1>6. ASSUME NEW list \in List, Decode(m, list) PROVE Values!Assign(m)
    <2>1. StoresNew(m, list) /\ list \in Seq(Elem)
        BY <1>0, <1>6, DecodeStores
    <2>2. content' = [content EXCEPT ![m] = list]
        BY <2>1, StoresNewStep, ContentIs
    <2>3. op' = [name |-> "Decode", msg |-> m, list |-> list]
        BY <1>6 DEF Decode
    <2> QED
        BY <2>1, <2>2, <2>3 DEF Values!Assign, Values!Becomes
<1> QED
    BY <1>1, <1>2, <1>3, <1>4, <1>5, <1>6 DEF Library

(* A statement of the program is Look or Touch. *)
LEMMA ProgramRefines ==
    ASSUME ListsInv, NEW x \in Var, Program(x)
    PROVE  Values!Touch \/ Values!Look
<1>0. TypeOK
    BY DEF ListsInv
<1>1. ASSUME NEW m \in Msg, GetSlice(x, m) PROVE Values!Look
    <2>1. op' = [name |-> "Get"]
        BY <1>1 DEF GetSlice
    <2> QED
        BY <1>1, <2>1, GetSliceStep, ContentIs DEF Values!Look
<1>2. ASSUME NEW list \in List, Make(x, list) PROVE Values!Look
    <2>1. op' = [name |-> "Make"]
        BY <1>2 DEF Make
    <2> QED
        BY <1>0, <1>2, <2>1, MakeKeeps, KeepsNewStep, ContentIs DEF Values!Look
<1>3. ASSUME NEW i \in Nat, NEW e \in Elem,
             op' \in [name : {"Write", "Extend"}, idx : Nat, elem : Elem],
             op'.idx = i, op'.elem = e,
             (\E list : KeepsNew(x, list)) \/ (\E n : KeepsWritten(x, i, e, n))
      PROVE  Values!Touch
    <2>1. CASE \E list : KeepsNew(x, list)
        BY <1>3, <2>1, KeepsNewStep, ContentIs DEF Values!Touch
    <2>2. CASE \E n : KeepsWritten(x, i, e, n)
        <3>1. CASE Lists' = Lists
            BY <1>3, <3>1, ContentIs DEF Values!Touch
        <3>2. ASSUME NEW m \in Msg, slot[m] # Unset, i \in 1..slot[m].len,
                     Lists' = [Lists EXCEPT ![m] = [Lists[m] EXCEPT ![i] = e]]
              PROVE  Values!Touch
            <4>1. content[m] # Unset /\ DOMAIN content[m] = 1..slot[m].len
                BY <1>0, <3>2, ListOf
            <4>2. content' = [content EXCEPT ![m] = [content[m] EXCEPT ![i] = e]]
                BY <3>2, ContentIs
            <4> QED
                BY <1>3, <3>2, <4>1, <4>2 DEF Values!Touch, Values!Has, Values!Becomes
        <3> QED
            BY <2>2, <3>1, <3>2, KeepsWrittenStep
    <2> QED
        BY <1>3, <2>1, <2>2
<1>4. ASSUME NEW i \in 1..MaxCap, NEW e \in Elem, Write(x, i, e) PROVE Values!Touch
    <2>1. op' = [name |-> "Write", idx |-> i, elem |-> e]
        BY <1>4 DEF Write
    <2>2. KeepsWritten(x, i, e, var[x].len) /\ i \in Nat
        BY <1>0, <1>4, WriteKeeps
    <2> QED
        BY <1>3, <2>1, <2>2
<1>5. ASSUME NEW e \in Elem, Extend(x, e) PROVE Values!Touch
    <2>1. op' = [name |-> "Extend", idx |-> var[x].len + 1, elem |-> e]
        BY <1>5 DEF Extend
    <2>2. var[x].len + 1 \in Nat
        BY <1>0 DEF TypeOK, Slice
    <2>3. \/ \E list : KeepsNew(x, list)
          \/ KeepsWritten(x, var[x].len + 1, e, var[x].len + 1)
        BY <1>0, <1>5, ExtendKeeps
    <2> QED
        BY <1>3, <2>1, <2>2, <2>3
<1> QED
    BY <1>1, <1>2, <1>4, <1>5 DEF Program

(* Lists are values: whatever arrays are shared, a call changes the list it is about, as
   its name says, and a statement of the program one element of one list at most
   (refinement of ListSpec). *)
THEOREM Refinement == Spec => ListsAreValues
<1>1. Init => Values!Init
    BY ContentIs DEF Init, Values!Init, Lists
<1>2. ListsInv /\ [Next]_vars => [Values!Next]_(Values!lvars)
    <2> SUFFICES ASSUME ListsInv, [Next]_vars PROVE [Values!Next]_(Values!lvars)
        OBVIOUS
    <2>1. CASE \E m \in Msg : Library(m)
        BY <2>1, LibraryRefines DEF Values!Next
    <2>2. CASE \E x \in Var : Program(x)
        BY <2>2, ProgramRefines DEF Values!Next
    <2>3. CASE UNCHANGED vars
        BY <2>3 DEF vars, Values!lvars, content, Elems
    <2> QED
        BY <2>1, <2>2, <2>3, Steps
<1> QED
    BY <1>1, <1>2, ListsInvariance, PTL DEF Spec, ListsAreValues, Values!Spec

-----------------------------------------------------------------------------
(* What getters handed out *)

\* The elements of x are what they were, up to those behind the list of a message.
KeepsElements(x) == \A i \in 1..var[x].len :
    mem'[var[x].arr][i] = mem[var[x].arr][i] \/ BehindList(x, i)

(* A new array is no variable's. *)
LEMMA NewLeaves ==
    ASSUME TypeOK, NEW list, NEW at, IsNew(at, list), mem' = at.mem, NEW x \in Var
    PROVE  KeepsElements(x)
<1>1. FitsIn(mem, var[x]) /\ var[x].arr \in Used
    BY Held
<1>2. CASE var[x].arr = Nil
    <2>1. var[x].len = 0
        BY <1>1, <1>2 DEF FitsIn, CapIn, Slice
    <2> QED
        BY <2>1 DEF KeepsElements
<1>3. CASE var[x].arr # Nil
    <2>1. var[x].arr \in Addr /\ var[x].arr # at.slice.arr
        BY <1>1, <1>3 DEF FitsIn, Slice, IsNew
    <2> QED
        BY <2>1 DEF KeepsElements, IsNew
<1> QED
    BY <1>2, <1>3

(* append writes behind the list that it lengthens. *)
LEMMA AppendLeaves ==
    ASSUME TypeOK, NEW m \in Msg, NEW e,
           StoresWritten(m, slot[m].len + 1, e, slot[m].len + 1), NEW x \in Var
    PROVE  KeepsElements(x)
<1> DEFINE a == slot[m].arr
           n == slot[m].len + 1
<1>1. slot[m] # Unset /\ slot[m].len \in Nat /\ IsWritten(mem', a, n, e)
    BY Held DEF StoresWritten, FitsIn, Slice
<1>2. /\ \A b \in Addr : b # a => mem'[b] = mem[b]
      /\ \A j \in 1..Len(mem[a]) : j # n => mem'[a][j] = mem[a][j]
    <2> HIDE DEF a, n
    <2> QED
        BY <1>1, Written
<1>3. FitsIn(mem, var[x]) /\ mem \in Memory
    BY Held
<1> SUFFICES ASSUME NEW i \in 1..var[x].len
             PROVE  mem'[var[x].arr][i] = mem[var[x].arr][i] \/ BehindList(x, i)
    BY DEF KeepsElements
<1>4. var[x].arr \in Addr /\ i \in 1..Len(mem[var[x].arr])
    BY <1>3, LenProperties DEF FitsIn, CapIn, Slice, Memory
<1>5. CASE var[x].arr # a \/ i # n
    BY <1>2, <1>4, <1>5
<1>6. CASE var[x].arr = a /\ i = n
    BY <1>1, <1>6 DEF BehindList
<1> QED
    BY <1>5, <1>6

(* A slice that a getter handed out keeps its elements until one of them is set: Append,
   Clear, Set, a copy and a decoding put theirs in a new array or behind the list (the
   slice getters of value.go return the stored slice). *)
THEOREM HandedOutIsKept == Spec => HandedOutKept
<1> DEFINE Kept == op'.name \notin {"SetElement", "Write", "Extend"} =>
               \A x \in Var : var'[x] = var[x] => KeepsElements(x)
<1>1. ListsInv /\ [Next]_vars => [Kept]_vars
    <2> SUFFICES ASSUME ListsInv, Next PROVE Kept
        OBVIOUS
    <2>0. TypeOK
        BY DEF ListsInv
    <2>1. ASSUME mem' = mem PROVE Kept
        BY <2>1 DEF KeepsElements
    <2>2. ASSUME NEW m \in Msg, NEW list, StoresNew(m, list) PROVE Kept
        BY <2>0, <2>2, NewLeaves DEF StoresNew, Store
    <2>3. ASSUME NEW x \in Var, NEW list, KeepsNew(x, list) PROVE Kept
        BY <2>0, <2>3, NewLeaves DEF KeepsNew, Keep
    <2>4. ASSUME NEW m \in Msg, Library(m) PROVE Kept
        <3>1. ASSUME NEW x \in Var, SetField(m, x) PROVE Kept
            BY <2>0, <2>2, <3>1, SetFieldStores
        <3>2. ASSUME NEW i \in 1..MaxCap, NEW e \in Elem, SetElement(m, i, e) PROVE Kept
            BY <3>2 DEF SetElement
        <3>3. ASSUME NEW e \in Elem, AppendField(m, e) PROVE Kept
            BY <2>0, <2>2, <3>3, AppendStores, AppendLeaves
        <3>4. CASE ClearField(m)
            BY <2>1, <3>4 DEF ClearField
        <3>5. ASSUME NEW n \in Msg, CopyFrom(m, n) PROVE Kept
            BY <2>0, <2>1, <2>2, <3>5, CopyFromCases
        <3>6. ASSUME NEW list \in List, Decode(m, list) PROVE Kept
            BY <2>0, <2>2, <3>6, DecodeStores
        <3> HIDE DEF Kept
        <3> QED
            BY <2>4, <3>1, <3>2, <3>3, <3>4, <3>5, <3>6 DEF Library
    <2>5. ASSUME NEW x \in Var, Program(x) PROVE Kept
        <3>1. ASSUME NEW m \in Msg, GetSlice(x, m) PROVE Kept
            BY <2>1, <3>1, GetSliceStep
        <3>2. ASSUME NEW list \in List, Make(x, list) PROVE Kept
            BY <2>0, <2>3, <3>2, MakeKeeps
        <3>3. ASSUME NEW i \in 1..MaxCap, NEW e \in Elem, Write(x, i, e) PROVE Kept
            BY <3>3 DEF Write
        <3>4. ASSUME NEW e \in Elem, Extend(x, e) PROVE Kept
            BY <3>4 DEF Extend
        <3> HIDE DEF Kept
        <3> QED
            BY <2>5, <3>1, <3>2, <3>3, <3>4 DEF Program
    <2> HIDE DEF Kept
    <2> QED
        BY <2>4, <2>5, Steps
<1>2. ListsInv /\ [Next]_vars =>
          [op'.name \notin {"SetElement", "Write", "Extend"} =>
              \A x \in Var : var'[x] = var[x] =>
                  \A i \in 1..var[x].len : \/ mem'[var[x].arr][i] = mem[var[x].arr][i]
                                           \/ BehindList(x, i)]_vars
    BY <1>1 DEF KeepsElements
<1> HIDE DEF Kept
<1> QED
    BY <1>2, ListsInvariance, PTL DEF Spec, HandedOutKept
=============================================================================
