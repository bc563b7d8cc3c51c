------------------------- MODULE PthreadRwlockProofs -------------------------
(***************************************************************************)
(* Proofs about PthreadRwlock for every finite set of threads and every    *)
(* position of the writer's mark.                                          *)
(***************************************************************************)
EXTENDS PthreadRwlock, FiniteSetTheorems, TLAPS

\* Whoever holds the lock is outside every operation on it.
HoldersAreIdle == \A t \in Threads : mode[t] # "none" => pc[t] = "idle"

\* A caller about to wait has seen a lock it could not have.
SnapshotsAreBusy ==
    \A t \in Threads :
        /\ pc[t] = "rdwait" => expected[t] = WRITER
        /\ pc[t] = "wrwait" => expected[t] \in 1..WRITER

\* What the word tells of the holders, with what makes it inductive.
Holding == WordTellsHolders /\ Exclusion /\ HoldersAreIdle

IInv == TypeOK /\ Holding /\ SnapshotsAreBusy /\ NoLostWakeup

Marks == MAX_READERS = WRITER - 1 /\ DESTROYED = WRITER + 1 /\ INITIALIZER = WRITER + 2

USE DEF Goto

-----------------------------------------------------------------------------
LEMMA MarksOrdered == Marks /\ WRITER \in Nat /\ WRITER > 0
  BY WriterMark DEF Marks, MAX_READERS, DESTROYED, INITIALIZER

LEMMA ReadersFinite == IsFiniteSet(Readers) /\ Cardinality(Readers) \in Nat
                       /\ (Cardinality(Readers) = 0 <=> Readers = {})
<1>1. Readers \subseteq Threads  BY Zenon DEF Readers
<1>2. IsFiniteSet(Readers)  BY <1>1, ThreadsFinite, FS_Subset, Zenon
<1> QED  BY <1>2, FS_CardinalityType, FS_EmptySet, Zenon

\* Two words say that nobody holds the lock: 0 and any mark that is not a writer's.
LEMMA FreeWord ==
    ASSUME WordTellsHolders, word = 0 \/ word > WRITER
    PROVE  Readers = {} /\ Writers = {}
  BY ReadersFinite, MarksOrdered DEF WordTellsHolders, Marks

LEMMA InitIInv == Init => IInv
<1> SUFFICES ASSUME Init PROVE IInv  BY Zenon
<1>1. Readers = {} /\ Writers = {}  BY Zenon DEF Init, Readers, Writers
<1> QED  BY <1>1, MarksOrdered
         DEF Init, IInv, TypeOK, Holding, WordTellsHolders, Exclusion, HoldersAreIdle,
             SnapshotsAreBusy, NoLostWakeup, PCs, Marks

-----------------------------------------------------------------------------
LEMMA TypedStep == ASSUME TypeOK, [Next]_vars PROVE TypeOK'
<1> USE MarksOrdered DEF TypeOK, PCs, Acquiring, Marks
<1>1. ASSUME NEW t \in Threads, Internal(t) PROVE TypeOK'
  <2>1. CASE current(t)  BY <2>1 DEF current
  <2>2. CASE try_read(t)  BY <2>2 DEF try_read, Granted, Busy, Refused
  <2>3. CASE try_write(t)  BY <2>3 DEF try_write, Granted, Busy, Refused
  <2>4. CASE Wait(t)  BY <2>4, Zenon DEF Wait
  <2>5. CASE Retry(t)  BY <2>5, Zenon DEF Retry
  <2>6. CASE Wake(t)  BY <2>6, Zenon DEF Wake
  <2> QED  BY <1>1, <2>1, <2>2, <2>3, <2>4, <2>5, <2>6, Zenon DEF Internal
<1>2. ASSUME NEW t \in Threads, External(t) PROVE TypeOK'
  <2>1. CASE acquire(t)  BY <2>1, Zenon DEF acquire
  <2>2. CASE TryLock(t)  BY <2>2 DEF TryLock, Granted
  <2>3. CASE Interrupt(t)  BY <2>3, Zenon DEF Interrupt
  <2>4. CASE TimedOut(t)  BY <2>4, Zenon DEF TimedOut
  <2>5. CASE unlock(t)  BY <2>5 DEF unlock
  <2>6. CASE destroy(t)  BY <2>6 DEF destroy
  <2>7. CASE initialize(t)  BY <2>7 DEF initialize
  <2> QED  BY <1>2, <2>1, <2>2, <2>3, <2>4, <2>5, <2>6, <2>7, Zenon DEF External
<1>3. CASE UNCHANGED vars  BY <1>3, Zenon DEF vars
<1> QED  BY <1>1, <1>2, <1>3, Zenon DEF Next

-----------------------------------------------------------------------------
\* A thread outside the lock becomes a reader of a lock with fewer than the most.
LEMMA ReaderEnters ==
    ASSUME TypeOK, Holding, NEW t \in Threads, mode[t] = "none",
           NEW value, value = IF word = INITIALIZER THEN 0 ELSE word,
           value < MAX_READERS, word' = value + 1,
           mode' = [mode EXCEPT ![t] = "read"], pc' = [pc EXCEPT ![t] = "idle"]
    PROVE  Holding'
<1>1. Writers = {}
  <2>1. Writers # {} => word = WRITER  BY Zenon DEF Holding, WordTellsHolders
  <2>2. word = WRITER => value = WRITER  BY MarksOrdered DEF Marks
  <2>3. ~(WRITER < WRITER - 1)  BY MarksOrdered
  <2> QED  BY <2>1, <2>2, <2>3, MarksOrdered, Zenon DEF Marks
<1>2. value = Cardinality(Readers)
  BY <1>1, MarksOrdered, ReadersFinite DEF TypeOK, Holding, WordTellsHolders, Marks
<1>3. Readers' = Readers \union {t} /\ t \notin Readers /\ Writers' = {}
  BY <1>1, Zenon DEF TypeOK, Readers, Writers
<1>4. Cardinality(Readers') = Cardinality(Readers) + 1
  BY <1>3, ReadersFinite, FS_AddElement, Zenon
<1>5. Readers' # {} /\ word' = Cardinality(Readers') /\ word' <= MAX_READERS
  <2>1. value \in Nat /\ MAX_READERS \in Int
    BY <1>2, ReadersFinite, MarksOrdered DEF Marks
  <2>2. value + 1 <= MAX_READERS  BY <2>1
  <2> QED  BY <1>2, <1>3, <1>4, <2>2, Zenon
<1>6. WordTellsHolders'  BY <1>3, <1>5, Zenon DEF WordTellsHolders, MAX_READERS
<1>7. Exclusion' /\ HoldersAreIdle'
  BY <1>3, Zenon DEF TypeOK, Holding, HoldersAreIdle, Exclusion, Writers
<1> QED  BY <1>6, <1>7, Zenon DEF Holding

\* A thread outside the lock becomes the writer of a free lock.
LEMMA WriterEnters ==
    ASSUME TypeOK, Holding, NEW t \in Threads, mode[t] = "none",
           word = 0 \/ word = INITIALIZER, word' = WRITER,
           mode' = [mode EXCEPT ![t] = "write"], pc' = [pc EXCEPT ![t] = "idle"]
    PROVE  Holding'
<1>1. Readers = {} /\ Writers = {}  BY FreeWord, MarksOrdered DEF Holding, Marks
<1>2. Writers' = {t}  BY <1>1, Zenon DEF TypeOK, Writers
<1>3. \A u \in Threads \ {t} : mode'[u] = "none"  BY <1>1, Zenon DEF TypeOK, Readers, Writers
<1> QED  BY <1>2, <1>3, Zenon
         DEF TypeOK, Holding, WordTellsHolders, Exclusion, HoldersAreIdle

\* A holder leaves: the writer, or one of the readers.
LEMMA HolderLeaves == ASSUME TypeOK, Holding, NEW t \in Threads, unlock(t) PROVE Holding'
<1>1. mode' = [mode EXCEPT ![t] = "none"]
      /\ pc' \in {[pc EXCEPT ![t] = "wake"], [pc EXCEPT ![t] = "idle"]}
  BY Zenon DEF unlock
<1>2. Exclusion' /\ HoldersAreIdle'
  BY <1>1 DEF TypeOK, Holding, Exclusion, HoldersAreIdle
<1>3. CASE mode[t] = "write"
  <2>1. \A u \in Threads \ {t} : mode[u] = "none"  BY <1>3, Zenon DEF TypeOK, Holding, Exclusion
  <2>2. Writers' = {} /\ Readers' = {}  BY <1>1, <2>1, Zenon DEF TypeOK, Writers, Readers
  <2>3. word' = 0  BY <1>3, Zenon DEF unlock, Holding, WordTellsHolders, Writers
  <2> QED  BY <1>2, <2>2, <2>3, Zenon DEF Holding, WordTellsHolders
<1>4. CASE mode[t] = "read"
  <2>1. Writers = {} /\ t \in Readers
    BY <1>4, Zenon DEF TypeOK, Holding, Exclusion, Writers, Readers
  <2>2. word = Cardinality(Readers) /\ word <= MAX_READERS
    BY <2>1, Zenon DEF Holding, WordTellsHolders
  <2>3. word' = word - 1  BY <2>2, MarksOrdered, ReadersFinite DEF unlock, Marks
  <2>4. Readers' = Readers \ {t} /\ Writers' = {}
    BY <1>1, <2>1, Zenon DEF TypeOK, Readers, Writers
  <2>5. Cardinality(Readers') = Cardinality(Readers) - 1 /\ IsFiniteSet(Readers')
    BY <2>1, <2>4, ReadersFinite, FS_RemoveElement, Zenon
  <2>6. Readers' = {} => Cardinality(Readers') = 0  BY FS_EmptySet, Zenon
  <2> QED  BY <1>2, <2>2, <2>3, <2>4, <2>5, <2>6, MarksOrdered, ReadersFinite
           DEF Holding, WordTellsHolders, Marks
<1> QED  BY <1>3, <1>4, Zenon DEF unlock, TypeOK

\* A step that leaves the holders alone may mark a free lock in another way.
LEMMA HoldersUnchanged ==
    ASSUME Holding, mode' = mode,
           \/ word' = word
           \/ (word = 0 \/ word > WRITER) /\ word' \in {0, DESTROYED, INITIALIZER},
           \A t \in Threads : pc[t] = "idle" /\ mode[t] # "none" => pc'[t] = "idle"
    PROVE  Holding'
<1>1. Readers' = Readers /\ Writers' = Writers  BY Zenon DEF Readers, Writers
<1>2. WordTellsHolders'
  <2>1. CASE word' = word  BY <1>1, <2>1, Zenon DEF Holding, WordTellsHolders
  <2>2. CASE (word = 0 \/ word > WRITER) /\ word' \in {0, DESTROYED, INITIALIZER}
    BY <1>1, <2>2, FreeWord, Zenon DEF Holding, WordTellsHolders
  <2> QED  BY <2>1, <2>2, Zenon
<1> QED  BY <1>2, Zenon DEF Holding, Exclusion, HoldersAreIdle

LEMMA HoldingStep == ASSUME TypeOK, Holding, [Next]_vars PROVE Holding'
<1> USE MarksOrdered DEF Marks
<1>1. ASSUME NEW t \in Threads, pc[t] # "idle" PROVE mode[t] = "none"
  BY <1>1, Zenon DEF Holding, HoldersAreIdle
<1>2. ASSUME NEW t \in Threads, Internal(t) PROVE Holding'
  <2>1. CASE current(t)  BY <2>1, HoldersUnchanged DEF current
  <2>2. CASE try_read(t)
    BY <1>1, <2>2, HoldersUnchanged, ReaderEnters, Zenon DEF try_read, Granted, Busy, Refused, TypeOK
  <2>3. CASE try_write(t)
    BY <1>1, <2>3, HoldersUnchanged, WriterEnters, Zenon DEF try_write, Granted, Busy, Refused, TypeOK
  <2>4. CASE Wait(t)  BY <1>1, <2>4, HoldersUnchanged, Zenon DEF Wait, TypeOK
  <2>5. CASE Retry(t)  BY <1>1, <2>5, HoldersUnchanged, Zenon DEF Retry, TypeOK
  <2>6. CASE Wake(t)  BY <1>1, <2>6, HoldersUnchanged, Zenon DEF Wake, TypeOK
  <2> QED  BY <1>2, <2>1, <2>2, <2>3, <2>4, <2>5, <2>6, Zenon DEF Internal
<1>3. ASSUME NEW t \in Threads, External(t) PROVE Holding'
  <2>1. CASE acquire(t)  BY <2>1, HoldersUnchanged, Zenon DEF acquire, TypeOK
  <2>2. CASE TryLock(t)
    BY <2>2, ReaderEnters, WriterEnters, Zenon DEF TryLock, Granted
  <2>3. CASE Interrupt(t)  BY <2>3, HoldersUnchanged, Zenon DEF Interrupt
  <2>4. CASE TimedOut(t)  BY <1>1, <2>4, HoldersUnchanged, Zenon DEF TimedOut, TypeOK
  <2>5. CASE unlock(t)  BY <2>5, HolderLeaves, Zenon
  <2>6. CASE destroy(t)  BY <2>6, HoldersUnchanged DEF destroy
  <2>7. CASE initialize(t)  BY <2>7, HoldersUnchanged DEF initialize
  <2> QED  BY <1>3, <2>1, <2>2, <2>3, <2>4, <2>5, <2>6, <2>7, Zenon DEF External
<1>4. CASE UNCHANGED vars  BY <1>4, HoldersUnchanged, Zenon DEF vars
<1> QED  BY <1>2, <1>3, <1>4, Zenon DEF Next

-----------------------------------------------------------------------------
LEMMA WaitingStep ==
    ASSUME TypeOK, SnapshotsAreBusy, NoLostWakeup, [Next]_vars
    PROVE  SnapshotsAreBusy' /\ NoLostWakeup'
<1> USE MarksOrdered DEF TypeOK, SnapshotsAreBusy, NoLostWakeup, Marks
<1>1. ASSUME NEW t \in Threads, Internal(t) PROVE SnapshotsAreBusy' /\ NoLostWakeup'
  <2>1. CASE current(t)  BY <2>1 DEF current
  <2>2. CASE try_read(t)  BY <2>2 DEF try_read, Granted, Busy, Refused
  <2>3. CASE try_write(t)  BY <2>3 DEF try_write, Granted, Busy, Refused
  <2>4. CASE Wait(t)  BY <2>4 DEF Wait
  <2>5. CASE Retry(t)  BY <2>5 DEF Retry
  <2>6. CASE Wake(t)  BY <2>6, Zenon DEF Wake
  <2> QED  BY <1>1, <2>1, <2>2, <2>3, <2>4, <2>5, <2>6, Zenon DEF Internal
<1>2. ASSUME NEW t \in Threads, External(t) PROVE SnapshotsAreBusy' /\ NoLostWakeup'
  <2>1. CASE acquire(t)  BY <2>1, Zenon DEF acquire
  <2>2. CASE TryLock(t)  BY <2>2 DEF TryLock, Granted
  <2>3. CASE Interrupt(t)  BY <2>3, Zenon DEF Interrupt
  <2>4. CASE TimedOut(t)  BY <2>4, Zenon DEF TimedOut
  <2>5. CASE unlock(t)  BY <2>5 DEF unlock
  <2>6. CASE destroy(t)  BY <2>6, Zenon DEF destroy
  <2>7. CASE initialize(t)  BY <2>7, Zenon DEF initialize
  <2> QED  BY <1>2, <2>1, <2>2, <2>3, <2>4, <2>5, <2>6, <2>7, Zenon DEF External
<1>3. CASE UNCHANGED vars  BY <1>3, Zenon DEF vars
<1> QED  BY <1>1, <1>2, <1>3, Zenon DEF Next

-----------------------------------------------------------------------------
\* IInv is an inductive invariant of the read-write lock.
THEOREM Invariance == Spec => []IInv
<1>1. Init => IInv  BY InitIInv, Zenon
<1>2. IInv /\ [Next]_vars => IInv'  BY TypedStep, HoldingStep, WaitingStep, Zenon DEF IInv
<1> QED  BY <1>1, <1>2, PTL DEF Spec

\* The word always tells who holds the lock, and the count of readers stays below
\* the writer's mark, for any number of threads.
THEOREM HoldersAreTold == Spec => []WordTellsHolders
<1>1. IInv => WordTellsHolders  BY Zenon DEF IInv, Holding
<1> QED  BY <1>1, Invariance, PTL

\* A writer is alone.
THEOREM WriterIsAlone == Spec => []Exclusion
<1>1. IInv => Exclusion  BY Zenon DEF IInv, Holding
<1> QED  BY <1>1, Invariance, PTL

\* No caller sleeps on a lock it could have, unless the broadcast is under way.
THEOREM SleepersHaveAReason == Spec => []NoLostWakeup
<1>1. IInv => NoLostWakeup  BY Zenon DEF IInv
<1> QED  BY <1>1, Invariance, PTL
=============================================================================
