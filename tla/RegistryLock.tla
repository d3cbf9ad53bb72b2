---------------------------- MODULE RegistryLock ----------------------------
(***************************************************************************)
(* Register and New of dymsg.go as they are: a shared Go map behind        *)
(* registryMu, a sync.RWMutex, with one step per access to the mutex or    *)
(* the map.  The mutex is external code: LockMutex to UnlockMutex and      *)
(* RLock to RUnlock follow the documented behaviour of sync.RWMutex.  A    *)
(* writer first takes an inner mutex against other writers, then announces *)
(* itself, which makes later readers wait, and proceeds when the readers   *)
(* before it are gone; its unlock admits every reader that waited.         *)
(***************************************************************************)
CONSTANTS Proc, TypeID, Layout, NoLayout      \* see Registry

ASSUME RegistryAssumption == NoLayout \notin Layout

VARIABLES
    registry,          \* the map
    pc,                \* per goroutine: where it is in its call
    request, result,   \* per goroutine: its arguments and its answer
    writer,            \* the holders of the inner writer mutex: {} or one goroutine
    announced,         \* whether the writer made new readers wait
    readers,           \* the goroutines that hold the mutex for reading
    waiting            \* the readers that wait for the writer to unlock

mutex == <<writer, announced, readers, waiting>>
vars == <<registry, pc, request, result, mutex>>

\* What a caller sees of the steps below: Register takes effect where it finds
\* or stores a schema, New where it reads the map.
Taken == {"Unlock", "UnlockMutex", "RUnlock", "Return"}
phase == [p \in Proc |-> IF pc[p] = "idle" THEN "idle"
                         ELSE IF pc[p] \in Taken THEN "done" ELSE "called"]

\* The refinement mapping: the map and the calls are those of the code, phase is above.
Abs == INSTANCE Registry WITH registry <- registry, phase <- phase,
                              request <- request, result <- result

-----------------------------------------------------------------------------
Goto(p, l) == pc' = [pc EXCEPT ![p] = l]
Answer(p, r) == result' = [result EXCEPT ![p] = r]

Init ==
    /\ registry = [id \in TypeID |-> NoLayout]
    /\ request = [p \in Proc |-> Abs!NoCall]
    /\ result = [p \in Proc |-> Abs!Nil]
    /\ pc = [p \in Proc |-> "idle"]
    /\ writer = {}
    /\ announced = FALSE
    /\ readers = {}
    /\ waiting = {}

Invoke(p, c) ==
    /\ pc[p] = "idle"
    /\ Goto(p, IF c.op = "Register" THEN "LockMutex" ELSE "RLock")
    /\ request' = [request EXCEPT ![p] = c]
    /\ UNCHANGED <<registry, result, mutex>>

-----------------------------------------------------------------------------
(* Register: registryMu.Lock *)
\* Mutant: Register forgets to lock.
LockMutex_Skipped(p) ==
    /\ pc[p] = "LockMutex"
    /\ Goto(p, "Check")
    /\ UNCHANGED <<registry, request, result, mutex>>

LockMutex(p) ==
    /\ pc[p] = "LockMutex"
    /\ writer = {}
    /\ writer' = {p}
    /\ Goto(p, "Announce")
    /\ UNCHANGED <<registry, request, result, announced, readers, waiting>>

Announce(p) ==
    /\ pc[p] = "Announce"
    /\ announced' = TRUE
    /\ Goto(p, "AwaitReaders")
    /\ UNCHANGED <<registry, request, result, writer, readers, waiting>>

AwaitReaders(p) ==
    /\ pc[p] = "AwaitReaders"
    /\ readers = {}
    /\ Goto(p, "Check")
    /\ UNCHANGED <<registry, request, result, mutex>>

\* Mutants: Register does not look before it stores; it accepts any layout under a
\* known type ID; it returns an error without unlocking.
Check_Skipped(p) ==
    /\ pc[p] = "Check"
    /\ Goto(p, "Insert")
    /\ UNCHANGED <<registry, request, result, mutex>>

Check_AnyLayout(p) ==
    /\ pc[p] = "Check"
    /\ IF registry[request[p].schema.typeID] # NoLayout
       THEN Answer(p, Abs!Nil) /\ Goto(p, "Unlock")
       ELSE UNCHANGED result /\ Goto(p, "Insert")
    /\ UNCHANGED <<registry, request, mutex>>

Check_NoUnlock(p) ==
    /\ pc[p] = "Check"
    /\ LET existing == registry[request[p].schema.typeID]
       IN  CASE existing = NoLayout -> UNCHANGED result /\ Goto(p, "Insert")
             [] existing = request[p].schema.fields -> Answer(p, Abs!Nil) /\ Goto(p, "Unlock")
             [] OTHER -> Answer(p, Abs!ErrDuplicateID) /\ Goto(p, "Return")
    /\ UNCHANGED <<registry, request, mutex>>

\* existing, ok := registry[s.typeID], and the comparison with schemasEqual
Check(p) ==
    /\ pc[p] = "Check"
    /\ LET s == request[p].schema
           existing == [typeID |-> s.typeID, fields |-> registry[s.typeID]]
       IN  \/ /\ existing.fields # NoLayout
              /\ Abs!schemasEqual(existing, s)
              /\ Answer(p, Abs!Nil)
              /\ Goto(p, "Unlock")
           \/ /\ existing.fields # NoLayout
              /\ ~Abs!schemasEqual(existing, s)
              /\ Answer(p, Abs!ErrDuplicateID)
              /\ Goto(p, "Unlock")
           \/ /\ existing.fields = NoLayout
              /\ Goto(p, "Insert")
              /\ UNCHANGED result
    /\ UNCHANGED <<registry, request, mutex>>

\* Mutant: Register answers without storing.
Insert_Lost(p) ==
    /\ pc[p] = "Insert"
    /\ Answer(p, Abs!Nil)
    /\ Goto(p, "Unlock")
    /\ UNCHANGED <<registry, request, mutex>>

Insert(p) ==
    /\ pc[p] = "Insert"
    /\ LET s == request[p].schema
       IN  registry' = [registry EXCEPT ![s.typeID] = s.fields]
    /\ Answer(p, Abs!Nil)
    /\ Goto(p, "Unlock")
    /\ UNCHANGED <<request, mutex>>

(* Register: the deferred registryMu.Unlock *)
Unlock(p) ==
    /\ pc[p] = "Unlock"
    /\ announced' = FALSE
    /\ readers' = readers \cup waiting
    /\ waiting' = {}
    /\ Goto(p, "UnlockMutex")
    /\ UNCHANGED <<registry, request, result, writer>>

UnlockMutex(p) ==
    /\ pc[p] = "UnlockMutex"
    /\ writer' = {}
    /\ Goto(p, "Return")
    /\ UNCHANGED <<registry, request, result, announced, readers, waiting>>

-----------------------------------------------------------------------------
(* New *)
RLock(p) ==
    /\ pc[p] = "RLock"
    /\ \/ /\ ~announced
          /\ readers' = readers \cup {p}
          /\ Goto(p, "Read")
          /\ UNCHANGED waiting
       \/ /\ announced
          /\ waiting' = waiting \cup {p}
          /\ Goto(p, "RWait")
          /\ UNCHANGED readers
    /\ UNCHANGED <<registry, request, result, writer, announced>>

RWake(p) ==
    /\ pc[p] = "RWait"
    /\ p \in readers
    /\ Goto(p, "Read")
    /\ UNCHANGED <<registry, request, result, mutex>>

\* Mutant: New makes a message of whatever the map gives.
Read_IgnoresOk(p) ==
    /\ pc[p] = "Read"
    /\ Answer(p, Abs!NewMessage(registry[request[p].typeID]))
    /\ Goto(p, "RUnlock")
    /\ UNCHANGED <<registry, request, mutex>>

\* s, ok := registry[typeID]; the message is made after the unlock, from s
Read(p) ==
    /\ pc[p] = "Read"
    /\ LET s == registry[request[p].typeID]
       IN  Answer(p, IF s = NoLayout THEN Abs!ErrUnknownTypeID ELSE Abs!NewMessage(s))
    /\ Goto(p, "RUnlock")
    /\ UNCHANGED <<registry, request, mutex>>

RUnlock(p) ==
    /\ pc[p] = "RUnlock"
    /\ readers' = readers \ {p}
    /\ Goto(p, "Return")
    /\ UNCHANGED <<registry, request, result, writer, announced, waiting>>

Return(p) ==
    /\ pc[p] = "Return"
    /\ Goto(p, "idle")
    /\ request' = [request EXCEPT ![p] = Abs!NoCall]
    /\ result' = [result EXCEPT ![p] = Abs!Nil]
    /\ UNCHANGED <<registry, mutex>>

-----------------------------------------------------------------------------
Register(p) ==
    \/ LockMutex(p) \/ Announce(p) \/ AwaitReaders(p)
    \/ Check(p) \/ Insert(p)
    \/ Unlock(p) \/ UnlockMutex(p)

New(p) == RLock(p) \/ RWake(p) \/ Read(p) \/ RUnlock(p)

Step(p) == Register(p) \/ New(p) \/ Return(p)

Next == \E p \in Proc : Step(p) \/ \E c \in Abs!Call : Invoke(p, c)

Spec == Init /\ [][Next]_vars

(* The Go scheduler runs every goroutine that can run, and sync.Mutex hands the
   lock to a waiter it has starved (its starvation mode), so that a writer which
   can take the inner mutex again and again eventually does. *)
Fairness == \A p \in Proc : WF_vars(Step(p)) /\ SF_vars(LockMutex(p))

FairSpec == Spec /\ Fairness

-----------------------------------------------------------------------------
WriteAccess == {"Check", "Insert"}
Label == {"idle", "LockMutex", "Announce", "AwaitReaders", "RLock", "RWait", "Read"}
             \cup WriteAccess \cup Taken

(* Type correctness. *)
TypeOK ==
    /\ registry \in [TypeID -> Layout \cup {NoLayout}]
    /\ pc \in [Proc -> Label]
    /\ request \in [Proc -> Abs!Call \cup {Abs!NoCall}]
    /\ result \in [Proc -> Abs!Result]
    /\ writer \in SUBSET Proc
    /\ announced \in BOOLEAN
    /\ readers \in SUBSET Proc
    /\ waiting \in SUBSET Proc

(* No goroutine is about to write the map while another one is about to read or
   to write it: Go maps do not support that, and registryMu must rule it out. *)
NoMapRace == \A p, q \in Proc :
    p # q /\ pc[p] = "Insert" => pc[q] \notin WriteAccess \cup {"Read"}

(* Every call of Register and New takes effect at one instant between its
   invocation and its return: the locked code implements the atomic registry. *)
Linearizable == Abs!Spec

(* What Register or New told a caller stays true of the registry while the caller
   returns, whatever the other goroutines do. *)
AnswersHold == Abs!AnswersHold

(* The first schema registered under a type ID is never replaced or removed, even
   though Register looks before it stores. *)
FirstWins == Abs!FirstWins

(* Every call returns, however many readers and writers compete for registryMu. *)
CallsReturn == \A p \in Proc : pc[p] # "idle" ~> pc[p] = "idle"

-----------------------------------------------------------------------------
(* The inductive invariant behind the properties above, in its parts. *)
Writing == {"Announce", "AwaitReaders", "Check", "Insert", "Unlock", "UnlockMutex"}
Excluding == {"Check", "Insert", "Unlock"}

\* A call of Register takes the writer's way, a call of New the reader's.
RequestFits == \A p \in Proc :
    /\ pc[p] = "LockMutex" \/ pc[p] \in Writing => request[p] \in Abs!RegisterCall
    /\ pc[p] \in {"RLock", "RWait", "Read", "RUnlock"} => request[p] \in Abs!NewCall
    /\ pc[p] = "Return" => request[p] \in Abs!Call

\* The inner mutex has at most one holder, and only its holder writes.
WriterAlone == \A p, q \in Proc :
    /\ p \in writer <=> pc[p] \in Writing
    /\ pc[p] \in Writing /\ pc[q] \in Writing => p = q

\* While a writer is announced, no reader enters; those before it have left when it
\* goes on.
WriterAnnounced ==
    /\ announced <=> \E p \in Proc : pc[p] \in Excluding \cup {"AwaitReaders"}
    /\ (\E p \in Proc : pc[p] \in Excluding) => readers = {}

ReadersKnown == \A p \in Proc :
    /\ pc[p] \in {"Read", "RUnlock"} => p \in readers
    /\ p \in readers => pc[p] \in {"Read", "RUnlock", "RWait"}
    /\ p \in waiting => pc[p] = "RWait" /\ p \notin readers

\* What Check saw still holds at Insert.
CheckHolds == \A p \in Proc :
    pc[p] = "Insert" => registry[request[p].schema.typeID] = NoLayout

LockInv == TypeOK /\ RequestFits /\ WriterAlone /\ WriterAnnounced /\ ReadersKnown /\ CheckHolds
=============================================================================
