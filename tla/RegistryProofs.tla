--------------------------- MODULE RegistryProofs ---------------------------
(***************************************************************************)
(* Proofs about RegistryLock for any number of goroutines, type IDs and    *)
(* layouts: the lock excludes a race on the map, what Register checked is  *)
(* still true when it inserts, and the locked code implements the atomic   *)
(* Registry.                                                               *)
(***************************************************************************)
EXTENDS RegistryLock, TLAPS

(* The invariant of RegistryLock holds initially. *)
LEMMA InitLockInv == Init => LockInv
<1>1. SUFFICES ASSUME Init PROVE LockInv
    OBVIOUS
<1>2. TypeOK
    BY <1>1 DEF Init, TypeOK, Label, Abs!Result
<1>3. RequestFits /\ WriterAlone /\ WriterAnnounced /\ ReadersKnown /\ CheckHolds
    BY <1>1 DEF Init, RequestFits, WriterAlone, WriterAnnounced, ReadersKnown, CheckHolds,
                Writing, Excluding
<1> QED BY <1>2, <1>3 DEF LockInv

(* Each step of a goroutine keeps the types. *)
LEMMA StepTypeOK == LockInv /\ [Next]_vars => TypeOK'
<1>1. SUFFICES ASSUME LockInv, [Next]_vars PROVE TypeOK'
    OBVIOUS
<1> USE DEF LockInv, TypeOK, Goto, Answer, mutex
<1>2. ASSUME NEW p \in Proc, NEW c \in Abs!Call, Invoke(p, c) PROVE TypeOK'
    BY <1>1, <1>2 DEF Invoke, Label, Taken, WriteAccess
<1>3. ASSUME NEW p \in Proc, LockMutex(p) \/ Announce(p) \/ AwaitReaders(p) PROVE TypeOK'
    BY <1>1, <1>3 DEF LockMutex, Announce, AwaitReaders, Label, Taken, WriteAccess
<1>4. ASSUME NEW p \in Proc, Check(p) PROVE TypeOK'
    BY <1>1, <1>4 DEF Check, Label, Taken, WriteAccess, Abs!Result
<1>5. ASSUME NEW p \in Proc, Insert(p) PROVE TypeOK'
    <2>1. request[p].schema \in Abs!MessageSchema
        BY <1>1, <1>5 DEF Insert, RequestFits, Writing, Abs!RegisterCall
    <2> QED BY <1>1, <1>5, <2>1 DEF Insert, Label, Taken, WriteAccess, Abs!Result, Abs!MessageSchema
<1>6. ASSUME NEW p \in Proc, Unlock(p) \/ UnlockMutex(p) PROVE TypeOK'
    BY <1>1, <1>6 DEF Unlock, UnlockMutex, Label, Taken, WriteAccess
<1>7. ASSUME NEW p \in Proc, RLock(p) \/ RWake(p) \/ RUnlock(p) PROVE TypeOK'
    BY <1>1, <1>7 DEF RLock, RWake, RUnlock, Label, Taken, WriteAccess
<1>8. ASSUME NEW p \in Proc, Read(p) PROVE TypeOK'
    <2>1. request[p].typeID \in TypeID
        BY <1>1, <1>8 DEF Read, RequestFits, Abs!NewCall
    <2> QED BY <1>1, <1>8, <2>1 DEF Read, Label, Taken, WriteAccess, Abs!Result
<1>9. ASSUME NEW p \in Proc, Return(p) PROVE TypeOK'
    BY <1>1, <1>9 DEF Return, Label, Taken, WriteAccess, Abs!Result
<1>10. CASE UNCHANGED vars
    BY <1>1, <1>10 DEF vars
<1> QED BY <1>1, <1>2, <1>3, <1>4, <1>5, <1>6, <1>7, <1>8, <1>9, <1>10 DEF Next, Step, Register, New

(* Each step keeps a call on the way of its function. *)
LEMMA StepRequestFits == LockInv /\ [Next]_vars => RequestFits'
<1>1. SUFFICES ASSUME LockInv, [Next]_vars PROVE RequestFits'
    OBVIOUS
<1> USE DEF LockInv, TypeOK, RequestFits, Goto, Answer, mutex, Writing
<1>2. ASSUME NEW p \in Proc, NEW c \in Abs!Call, Invoke(p, c) PROVE RequestFits'
    BY <1>1, <1>2 DEF Invoke, Abs!Call, Abs!RegisterCall, Abs!NewCall
<1>3. ASSUME NEW p \in Proc, Register(p) PROVE RequestFits'
    BY <1>1, <1>3 DEF Register, LockMutex, Announce, AwaitReaders, Check, Insert, Unlock,
                      UnlockMutex, Abs!Call
<1>4. ASSUME NEW p \in Proc, New(p) PROVE RequestFits'
    BY <1>1, <1>4 DEF New, RLock, RWake, Read, RUnlock, Abs!Call
<1>5. ASSUME NEW p \in Proc, Return(p) PROVE RequestFits'
    BY <1>1, <1>5 DEF Return
<1>6. CASE UNCHANGED vars
    BY <1>1, <1>6 DEF vars
<1> QED BY <1>1, <1>2, <1>3, <1>4, <1>5, <1>6 DEF Next, Step

(* Each step keeps the inner mutex exclusive. *)
LEMMA StepWriterAlone == LockInv /\ [Next]_vars => WriterAlone'
<1>1. SUFFICES ASSUME LockInv, [Next]_vars PROVE WriterAlone'
    OBVIOUS
<1> USE DEF LockInv, TypeOK, WriterAlone, Goto, Answer, mutex, Writing
<1>2. ASSUME NEW p \in Proc, NEW c \in Abs!Call, Invoke(p, c) PROVE WriterAlone'
    BY <1>1, <1>2 DEF Invoke
<1>3. ASSUME NEW p \in Proc, LockMutex(p) PROVE WriterAlone'
    BY <1>1, <1>3 DEF LockMutex
<1>4. ASSUME NEW p \in Proc, Announce(p) \/ AwaitReaders(p) \/ Check(p) \/ Insert(p) \/ Unlock(p)
      PROVE WriterAlone'
    BY <1>1, <1>4 DEF Announce, AwaitReaders, Check, Insert, Unlock
<1>5. ASSUME NEW p \in Proc, UnlockMutex(p) PROVE WriterAlone'
    BY <1>1, <1>5 DEF UnlockMutex
<1>6. ASSUME NEW p \in Proc, New(p) \/ Return(p) PROVE WriterAlone'
    BY <1>1, <1>6 DEF New, RLock, RWake, Read, RUnlock, Return
<1>7. CASE UNCHANGED vars
    BY <1>1, <1>7 DEF vars
<1> QED BY <1>1, <1>2, <1>3, <1>4, <1>5, <1>6, <1>7 DEF Next, Step, Register

(* Each step keeps readers out while a writer is at work. *)
LEMMA StepReaders == LockInv /\ [Next]_vars => WriterAnnounced' /\ ReadersKnown'
<1>1. SUFFICES ASSUME LockInv, [Next]_vars PROVE WriterAnnounced' /\ ReadersKnown'
    OBVIOUS
<1> USE DEF LockInv, TypeOK, WriterAlone, WriterAnnounced, ReadersKnown, Goto, Answer, mutex,
            Writing, Excluding
<1>2. ASSUME NEW p \in Proc, NEW c \in Abs!Call, Invoke(p, c)
      PROVE WriterAnnounced' /\ ReadersKnown'
    BY <1>1, <1>2 DEF Invoke
<1>3. ASSUME NEW p \in Proc, LockMutex(p) \/ Announce(p) \/ UnlockMutex(p) \/ Return(p)
      PROVE WriterAnnounced' /\ ReadersKnown'
    BY <1>1, <1>3 DEF LockMutex, Announce, UnlockMutex, Return
<1>4. ASSUME NEW p \in Proc, AwaitReaders(p) \/ Check(p) \/ Insert(p)
      PROVE WriterAnnounced' /\ ReadersKnown'
    BY <1>1, <1>4 DEF AwaitReaders, Check, Insert
<1>5. ASSUME NEW p \in Proc, Unlock(p) PROVE WriterAnnounced' /\ ReadersKnown'
    BY <1>1, <1>5 DEF Unlock
<1>6. ASSUME NEW p \in Proc, RLock(p) PROVE WriterAnnounced' /\ ReadersKnown'
    BY <1>1, <1>6 DEF RLock
<1>7. ASSUME NEW p \in Proc, RWake(p) \/ Read(p) \/ RUnlock(p)
      PROVE WriterAnnounced' /\ ReadersKnown'
    <2>1. CASE RWake(p)
        <3>1. ReadersKnown'
            BY <1>1, <2>1 DEF RWake
        <3>2. \A q \in Proc : pc'[q] \in Excluding \cup {"AwaitReaders"}
                                <=> pc[q] \in Excluding \cup {"AwaitReaders"}
            BY <1>1, <2>1 DEF RWake
        <3>3. \A q \in Proc : pc'[q] \in Excluding <=> pc[q] \in Excluding
            BY <1>1, <2>1 DEF RWake
        <3>4. UNCHANGED <<announced, readers>>
            BY <2>1 DEF RWake
        <3> HIDE DEF Excluding
        <3> QED BY <1>1, <3>1, <3>2, <3>3, <3>4
    <2>2. CASE Read(p)
        BY <1>1, <2>2 DEF Read
    <2>3. CASE RUnlock(p)
        BY <1>1, <2>3 DEF RUnlock
    <2> QED BY <1>7, <2>1, <2>2, <2>3
<1>8. CASE UNCHANGED vars
    BY <1>1, <1>8 DEF vars
<1> HIDE DEF LockInv, TypeOK, WriterAlone, WriterAnnounced, ReadersKnown, Goto, Answer, mutex
<1> QED BY <1>1, <1>2, <1>3, <1>4, <1>5, <1>6, <1>7, <1>8 DEF Next, Step, Register, New

(* Between Check and Insert nobody else stores a schema. *)
LEMMA StepCheckHolds == LockInv /\ [Next]_vars => CheckHolds'
<1>1. SUFFICES ASSUME LockInv, [Next]_vars PROVE CheckHolds'
    OBVIOUS
<1> USE DEF LockInv, TypeOK, CheckHolds, Goto, Answer, mutex
<1>2. ASSUME NEW p \in Proc, NEW c \in Abs!Call, Invoke(p, c) PROVE CheckHolds'
    BY <1>1, <1>2 DEF Invoke
<1>3. ASSUME NEW p \in Proc, Insert(p) PROVE CheckHolds'
    BY <1>1, <1>3 DEF Insert, WriterAlone, Writing
<1>4. ASSUME NEW p \in Proc, Check(p) PROVE CheckHolds'
    BY <1>1, <1>4 DEF Check
<1>5. ASSUME NEW p \in Proc,
             LockMutex(p) \/ Announce(p) \/ AwaitReaders(p) \/ Unlock(p) \/ UnlockMutex(p)
      PROVE CheckHolds'
    BY <1>1, <1>5 DEF LockMutex, Announce, AwaitReaders, Unlock, UnlockMutex
<1>6. ASSUME NEW p \in Proc, New(p) \/ Return(p) PROVE CheckHolds'
    BY <1>1, <1>6 DEF New, RLock, RWake, Read, RUnlock, Return
<1>7. CASE UNCHANGED vars
    BY <1>1, <1>7 DEF vars
<1> QED BY <1>1, <1>2, <1>3, <1>4, <1>5, <1>6, <1>7 DEF Next, Step, Register

(* The inductive invariant of the lock and the map, for every instance. *)
THEOREM Invariance == Spec => []LockInv
<1>1. LockInv /\ [Next]_vars => LockInv'
    BY StepTypeOK, StepRequestFits, StepWriterAlone, StepReaders, StepCheckHolds DEF LockInv
<1> QED BY InitLockInv, <1>1, PTL DEF Spec

(* Every variable of Register and New keeps its type. *)
THEOREM TypeCorrect == Spec => []TypeOK
<1>1. LockInv => TypeOK
    BY DEF LockInv
<1> QED BY Invariance, <1>1, PTL

(* registryMu rules out a write of the map beside any other access to it. *)
THEOREM MutualExclusion == Spec => []NoMapRace
<1>1. LockInv => NoMapRace
    BY DEF LockInv, WriterAlone, WriterAnnounced, ReadersKnown, NoMapRace, Writing, Excluding,
           WriteAccess
<1> QED BY Invariance, <1>1, PTL

-----------------------------------------------------------------------------
(* Every step of the locked code is a step of the atomic registry or no step of it. *)
LEMMA StepImplements == LockInv /\ [Next]_vars => [Abs!Next]_(Abs!rvars)
<1>1. SUFFICES ASSUME LockInv, [Next]_vars PROVE Abs!Next \/ UNCHANGED Abs!rvars
    OBVIOUS
<1> USE DEF LockInv, TypeOK, Goto, Answer, mutex, phase, Taken, Abs!rvars
<1>2. ASSUME NEW p \in Proc, NEW c \in Abs!Call, Invoke(p, c) PROVE Abs!Invoke(p, c)
    BY <1>1, <1>2 DEF Invoke, Abs!Invoke
<1>3. ASSUME NEW p \in Proc,
             LockMutex(p) \/ Announce(p) \/ AwaitReaders(p) \/ Unlock(p) \/ UnlockMutex(p)
      PROVE UNCHANGED Abs!rvars
    BY <1>1, <1>3 DEF LockMutex, Announce, AwaitReaders, Unlock, UnlockMutex
<1>4. ASSUME NEW p \in Proc, RLock(p) \/ RWake(p) \/ RUnlock(p) PROVE UNCHANGED Abs!rvars
    BY <1>1, <1>4 DEF RLock, RWake, RUnlock
<1>5. ASSUME NEW p \in Proc, Check(p) PROVE Abs!Register(p) \/ UNCHANGED Abs!rvars
    <2>1. request[p] \in Abs!RegisterCall
        BY <1>1, <1>5 DEF Check, RequestFits, Writing
    <2>2. CASE registry[request[p].schema.typeID] = NoLayout
        BY <1>1, <1>5, <2>2 DEF Check
    <2>3. CASE registry[request[p].schema.typeID] # NoLayout
        BY <1>1, <1>5, <2>1, <2>3 DEF Check, Abs!Register, Abs!RegisterCall, Abs!schemasEqual
    <2> QED BY <2>2, <2>3
<1>6. ASSUME NEW p \in Proc, Insert(p) PROVE Abs!Register(p)
    <2>1. request[p] \in Abs!RegisterCall
        BY <1>1, <1>6 DEF Insert, RequestFits, Writing
    <2> QED BY <1>1, <1>6, <2>1 DEF Insert, CheckHolds, Abs!Register, Abs!RegisterCall
<1>7. ASSUME NEW p \in Proc, Read(p) PROVE Abs!New(p)
    <2>1. request[p] \in Abs!NewCall
        BY <1>1, <1>7 DEF Read, RequestFits
    <2> QED BY <1>1, <1>7, <2>1 DEF Read, Abs!New, Abs!NewCall
<1>8. ASSUME NEW p \in Proc, Return(p) PROVE Abs!Return(p)
    BY <1>1, <1>8 DEF Return, Abs!Return
<1>9. CASE UNCHANGED vars
    BY <1>1, <1>9 DEF vars
<1> QED BY <1>1, <1>2, <1>3, <1>4, <1>5, <1>6, <1>7, <1>8, <1>9
        DEF Next, Step, Register, New, Abs!Next

(* Register and New are linearizable: the locked code implements Registry. *)
THEOREM Implements == Spec => Linearizable
<1>1. Init => Abs!Init
    BY DEF Init, Abs!Init, phase
<1> QED BY <1>1, Invariance, StepImplements, PTL DEF Spec, Linearizable, Abs!Spec

(* The first schema registered under a type ID stays, whatever is called later. *)
THEOREM FirstRegistrationWins == Spec => FirstWins
<1>1. ASSUME LockInv, [Next]_vars
      PROVE [\A id \in TypeID : registry[id] # NoLayout => registry'[id] = registry[id]]_(Abs!rvars)
    <2>1. CASE Abs!Next
        BY <1>1, <2>1 DEF LockInv, TypeOK, Abs!Next, Abs!Invoke, Abs!Register, Abs!New, Abs!Return
    <2>2. CASE UNCHANGED Abs!rvars
        BY <2>2
    <2> QED BY <1>1, <2>1, <2>2, StepImplements
<1> QED BY <1>1, Invariance, PTL DEF Spec, FirstWins, Abs!FirstWins

(* What a caller was told stays true of the registry until its call returns. *)
THEOREM AnswersStayTrue == Spec => []AnswersHold
<1>1. Init => Abs!AnswersHold
    BY DEF Init, Abs!AnswersHold, phase
<1>2. ASSUME LockInv, Abs!AnswersHold, [Next]_vars PROVE Abs!AnswersHold'
    <2> USE DEF LockInv, TypeOK, Abs!AnswersHold
    <2>1. ASSUME NEW p \in Proc, NEW c \in Abs!Call, Abs!Invoke(p, c) PROVE Abs!AnswersHold'
        BY <1>2, <2>1 DEF Abs!Invoke, phase
    <2>2. ASSUME NEW p \in Proc, Abs!Register(p) PROVE Abs!AnswersHold'
        <3>1. request[p] \in Abs!RegisterCall
            BY <1>2, <2>2 DEF Abs!Register, Abs!Call, Abs!NewCall, Abs!NoCall
        <3>2. ASSUME NEW q \in Proc, phase'[q] = "done"
              PROVE IF request'[q].op = "Register"
                    THEN LET s == request'[q].schema
                         IN  /\ registry'[s.typeID] # NoLayout
                             /\ result'[q] = Abs!Nil <=> registry'[s.typeID] = s.fields
                    ELSE \/ result'[q] = Abs!ErrUnknownTypeID
                         \/ result'[q] = Abs!NewMessage(registry'[request'[q].typeID])
            <4>1. CASE q = p
                BY <1>2, <2>2, <3>1, <3>2, <4>1, RegistryAssumption
                DEF Abs!Register, Abs!RegisterCall, Abs!MessageSchema, Abs!Nil, Abs!ErrDuplicateID
            <4>2. CASE q # p
                <5>1. phase[q] = "done"
                    BY <2>2, <3>2, <4>2 DEF Abs!Register, phase
                <5>2. /\ result'[q] = result[q] /\ request'[q] = request[q]
                      /\ \A id \in TypeID : registry[id] # NoLayout => registry'[id] = registry[id]
                    BY <1>2, <2>2, <3>1, <4>2
                    DEF Abs!Register, Abs!RegisterCall, Abs!MessageSchema
                <5>3. CASE request[q].op = "Register"
                    <6>1. request[q].schema.typeID \in TypeID
                        BY <1>2, <5>3
                        DEF Abs!Call, Abs!RegisterCall, Abs!NewCall, Abs!NoCall, Abs!MessageSchema
                    <6> QED BY <1>2, <5>1, <5>2, <5>3, <6>1
                <5>4. CASE request[q].op # "Register"
                    <6>1. request[q] \in Abs!NewCall
                        BY <1>2, <5>1, <5>4
                        DEF Abs!Call, Abs!RegisterCall, Abs!NoCall, RequestFits, phase, Label,
                            WriteAccess, Taken, Writing
                    <6>2. request[q].typeID \in TypeID
                        BY <6>1 DEF Abs!NewCall
                    <6>3. registry[request[q].typeID] \in Layout
                          \/ result[q] = Abs!ErrUnknownTypeID
                        <7>1. ASSUME NEW l \in Layout, result[q] = Abs!NewMessage(l),
                                     result[q] = Abs!NewMessage(registry[request[q].typeID])
                              PROVE registry[request[q].typeID] = l
                            BY <7>1 DEF Abs!NewMessage
                        <7>2. \A x : Abs!NewMessage(x) # Abs!Nil /\ Abs!NewMessage(x) # Abs!ErrDuplicateID
                            BY DEF Abs!NewMessage, Abs!Nil, Abs!ErrDuplicateID
                        <7> QED BY <1>2, <5>1, <5>4, <7>1, <7>2 DEF Abs!Result
                    <6> QED BY <5>1, <5>2, <5>4, <6>2, <6>3, <1>2, RegistryAssumption
                <5> QED BY <5>3, <5>4
            <4> QED BY <4>1, <4>2
        <3> QED BY <3>2
    <2>3. ASSUME NEW p \in Proc, Abs!New(p) PROVE Abs!AnswersHold'
        BY <1>2, <2>3 DEF Abs!New, phase
    <2>4. ASSUME NEW p \in Proc, Abs!Return(p) PROVE Abs!AnswersHold'
        BY <1>2, <2>4 DEF Abs!Return, phase
    <2>5. CASE UNCHANGED Abs!rvars
        BY <1>2, <2>5 DEF Abs!rvars
    <2> QED BY <1>2, <2>1, <2>2, <2>3, <2>4, <2>5, StepImplements DEF Abs!Next
<1> QED BY <1>1, <1>2, Invariance, PTL DEF Spec, AnswersHold
=============================================================================
