---------------------------- MODULE SyncLiveProofs ----------------------------
(***************************************************************************)
(* Proofs about the mutex, the barrier and the once control for every      *)
(* finite set of threads, every set of mutex kinds and recursion limit,    *)
(* every number of participants and bound of the barrier's counters.       *)
(***************************************************************************)
EXTENDS MCSyncLive, FiniteSetTheorems, TLAPS

RegisteredThreads == {t \in Threads : pc[t] \in Registered}

\* The last level of an unlock has cleared the owner word before the swap.
SwapAfterOwner == \A t \in Threads : pc[t] = "unlockSwap" => owner # t

\* The exclusion part of the inductive invariant: the state word and the
\* holders determine each other, and there is at most one holder.
Exclusion == MutualExclusion /\ StateTellsHolder /\ SwapAfterOwner

\* TypeOK but for the waiter count, which is a count only by WaitersCounted.
Typed ==
    /\ state \in 0..2
    /\ kind \in Kinds
    /\ owner \in Threads \union {NoOwner}
    /\ depth \in 0..MaxDepth
    /\ initialized \in BOOLEAN
    /\ pc \in [Threads -> PCs]
    /\ sleeping \subseteq Threads
    /\ selected \subseteq Threads

IInv == Typed /\ Exclusion

USE DEF Goto, word, kernel

-----------------------------------------------------------------------------
LEMMA InitIInv == Init => IInv
  BY NoOwnerFresh, MaxDepthPositive
  DEF Init, IInv, Typed, Exclusion, MutualExclusion, StateTellsHolder, SwapAfterOwner,
      Holds, PCs, Registered

LEMMA TypedStep == ASSUME Typed, [Next]_vars PROVE Typed'
<1> USE MaxDepthPositive DEF Typed, PCs, Registered
<1>1. ASSUME NEW t \in Threads, Internal(t) PROVE Typed'
  <2>1. CASE TryCas(t)  BY <2>1 DEF TryCas
  <2>2. CASE LockCas(t)  BY <2>2 DEF LockCas
  <2>3. CASE Register(t)  BY <2>3, Zenon DEF Register
  <2>4. CASE Swap(t)  BY <2>4 DEF Swap
  <2>5. CASE Acquired(t)  BY <2>5 DEF Acquired
  <2>6. CASE Unregister(t)  BY <2>6, Zenon DEF Unregister
  <2>7. CASE WaitOnAddress(t)  BY <2>7, Zenon DEF WaitOnAddress
  <2>8. CASE Awoken(t)  BY <2>8, Zenon DEF Awoken
  <2>9. CASE FailedCheck(t)  BY <2>9, Zenon DEF FailedCheck
  <2>10. CASE Handoff(t)  BY <2>10, Zenon DEF Handoff, WakeOne
  <2>11. CASE UnlockSwap(t)  BY <2>11 DEF UnlockSwap
  <2>12. CASE UnlockWake(t)  BY <2>12, Zenon DEF UnlockWake, WakeOne
  <2>13. CASE DestroyState(t)  BY <2>13, Zenon DEF DestroyState
  <2>14. CASE DestroyWaiters(t)  BY <2>14, Zenon DEF DestroyWaiters
  <2>15. CASE DestroyStore(t)  BY <2>15, Zenon DEF DestroyStore
  <2> QED  BY <1>1, <2>1, <2>2, <2>3, <2>4, <2>5, <2>6, <2>7, <2>8, <2>9, <2>10,
              <2>11, <2>12, <2>13, <2>14, <2>15, Zenon DEF Internal
<1>2. ASSUME NEW t \in Threads, External(t) PROVE Typed'
  <2>1. CASE MutexInit(t)  BY <2>1 DEF MutexInit, Fresh
  <2>2. CASE lock(t)  BY <2>2 DEF lock, Enter, relock
  <2>3. CASE try_lock(t)  BY <2>3 DEF try_lock, Enter, relock
  <2>4. CASE unlock(t)  BY <2>4 DEF unlock
  <2>5. CASE destroy(t)  BY <2>5, Zenon DEF destroy
  <2>6. CASE RetryWait(t)  BY <2>6, Zenon DEF RetryWait, MayReturnEarly
  <2>7. CASE WaitFails(t)  BY <2>7, Zenon DEF WaitFails, MayReturnEarly
  <2> QED  BY <1>2, <2>1, <2>2, <2>3, <2>4, <2>5, <2>6, <2>7, Zenon DEF External
<1>3. CASE UNCHANGED vars  BY <1>3, Zenon DEF vars
<1> QED  BY <1>1, <1>2, <1>3, Zenon DEF Next

LEMMA ExclusionStep == ASSUME IInv, [Next]_vars PROVE Exclusion'
<1> USE NoOwnerFresh DEF IInv, Typed, Exclusion, MutualExclusion, StateTellsHolder,
        SwapAfterOwner, Holds
<1>1. ASSUME NEW t \in Threads, Internal(t) PROVE Exclusion'
  <2>1. CASE TryCas(t)  BY <2>1 DEF TryCas
  <2>2. CASE LockCas(t)  BY <2>2 DEF LockCas
  <2>3. CASE Register(t)  BY <2>3, Zenon DEF Register
  <2>4. CASE Swap(t)  BY <2>4 DEF Swap
  <2>5. CASE Acquired(t)  BY <2>5 DEF Acquired
  <2>6. CASE Unregister(t)  BY <2>6, Zenon DEF Unregister
  <2>7. CASE WaitOnAddress(t)  BY <2>7 DEF WaitOnAddress
  <2>8. CASE Awoken(t)  BY <2>8, Zenon DEF Awoken
  <2>9. CASE FailedCheck(t)  BY <2>9, Zenon DEF FailedCheck
  <2>10. CASE Handoff(t)  BY <2>10, Zenon DEF Handoff, WakeOne
  <2>11. CASE UnlockSwap(t)  BY <2>11, Zenon DEF UnlockSwap
  <2>12. CASE UnlockWake(t)  BY <2>12, Zenon DEF UnlockWake, WakeOne
  <2>13. CASE DestroyState(t)  BY <2>13, Zenon DEF DestroyState
  <2>14. CASE DestroyWaiters(t)  BY <2>14 DEF DestroyWaiters
  <2>15. CASE DestroyStore(t)  BY <2>15, Zenon DEF DestroyStore
  <2> QED
    BY <1>1, <2>1, <2>2, <2>3, <2>4, <2>5, <2>6, <2>7, <2>8, <2>9, <2>10, <2>11, <2>12,
       <2>13, <2>14, <2>15, Zenon DEF Internal
<1>2. ASSUME NEW t \in Threads, External(t) PROVE Exclusion'
  <2>1. CASE MutexInit(t)  BY <2>1, Zenon DEF MutexInit, Fresh
  <2>2. CASE lock(t)  BY <2>2 DEF lock, Enter, relock
  <2>3. CASE try_lock(t)  BY <2>3 DEF try_lock, Enter, relock
  <2>4. CASE unlock(t)  BY <2>4, Zenon DEF unlock
  <2>5. CASE destroy(t)  BY <2>5, Zenon DEF destroy
  <2>6. CASE RetryWait(t)  BY <2>6, Zenon DEF RetryWait, MayReturnEarly
  <2>7. CASE WaitFails(t)  BY <2>7, Zenon DEF WaitFails, MayReturnEarly
  <2> QED  BY <1>2, <2>1, <2>2, <2>3, <2>4, <2>5, <2>6, <2>7, Zenon DEF External
<1>3. CASE UNCHANGED vars  BY <1>3, Zenon DEF vars
<1> QED  BY <1>1, <1>2, <1>3, Zenon DEF Next

\* IInv is an inductive invariant of the mutex.
THEOREM Invariance == Spec => []IInv
<1>1. Init => IInv  BY InitIInv, Zenon
<1>2. IInv /\ [Next]_vars => IInv'  BY TypedStep, ExclusionStep, Zenon DEF IInv
<1> QED  BY <1>1, <1>2, PTL DEF Spec

\* Two threads never hold the mutex, for any number of threads.
THEOREM MutexExclusion == Spec => []MutualExclusion
<1>1. IInv => MutualExclusion  BY Zenon DEF IInv, Exclusion
<1> QED  BY <1>1, Invariance, PTL

\* The state word is 0 exactly when no thread holds the mutex.
THEOREM StateWord == Spec => []StateTellsHolder
<1>1. IInv => StateTellsHolder  BY Zenon DEF IInv, Exclusion
<1> QED  BY <1>1, Invariance, PTL

-----------------------------------------------------------------------------
LEMMA RegisteredFinite ==
    /\ IsFiniteSet(RegisteredThreads)
    /\ Cardinality(RegisteredThreads) \in Nat
  BY ThreadsFinite, FS_Subset, FS_CardinalityType, Zenon DEF RegisteredThreads

\* Every step but the three that touch the count keeps the registered threads.
LEMMA WaitersStep ==
    ASSUME Typed, WaitersCounted, [Next]_vars
    PROVE  WaitersCounted'
<1> USE DEF Typed, RegisteredThreads, Registered
<1>1. waiters = Cardinality(RegisteredThreads)  BY Zenon DEF WaitersCounted
<1>2. SUFFICES waiters' = Cardinality(RegisteredThreads')  BY Zenon DEF WaitersCounted
<1>3. ASSUME waiters' = waiters, RegisteredThreads' = RegisteredThreads
      PROVE  waiters' = Cardinality(RegisteredThreads')
  BY <1>1, <1>3, Zenon
<1>4. ASSUME NEW t \in Threads, Internal(t) PROVE waiters' = Cardinality(RegisteredThreads')
  <2>1. CASE TryCas(t)  BY <2>1, <1>3, Zenon DEF TryCas
  <2>2. CASE LockCas(t)  BY <2>2, <1>3, Zenon DEF LockCas
  <2>3. CASE Swap(t)  BY <2>3, <1>3, Zenon DEF Swap
  <2>4. CASE Acquired(t)  BY <2>4, <1>3, Zenon DEF Acquired
  <2>5. CASE WaitOnAddress(t)  BY <2>5, <1>3, Zenon DEF WaitOnAddress
  <2>6. CASE Awoken(t)  BY <2>6, <1>3, Zenon DEF Awoken
  <2>7. CASE FailedCheck(t)  BY <2>7, <1>3, Zenon DEF FailedCheck
  <2>8. CASE Handoff(t)  BY <2>8, <1>3, Zenon DEF Handoff, WakeOne
  <2>9. CASE UnlockSwap(t)  BY <2>9, <1>3, Zenon DEF UnlockSwap
  <2>10. CASE UnlockWake(t)  BY <2>10, <1>3, Zenon DEF UnlockWake, WakeOne
  <2>11. CASE DestroyState(t)  BY <2>11, <1>3, Zenon DEF DestroyState
  <2>12. CASE DestroyWaiters(t)  BY <2>12, <1>3, Zenon DEF DestroyWaiters
  <2>13. CASE DestroyStore(t)  BY <2>13, <1>3, Zenon DEF DestroyStore
  <2>14. CASE Register(t)
    <3>1. RegisteredThreads' = RegisteredThreads \union {t}  BY <2>14, Zenon DEF Register
    <3>2. t \notin RegisteredThreads  BY <2>14, Zenon DEF Register
    <3> HIDE DEF RegisteredThreads
    <3>3. Cardinality(RegisteredThreads') = Cardinality(RegisteredThreads) + 1
      BY <3>1, <3>2, RegisteredFinite, FS_AddElement, Zenon
    <3> QED  BY <3>3, <2>14, <1>1, Zenon DEF Register
  <2>15. CASE Unregister(t)
    <3>1. RegisteredThreads' = RegisteredThreads \ {t}  BY <2>15, Zenon DEF Unregister
    <3>2. t \in RegisteredThreads  BY <2>15, Zenon DEF Unregister
    <3> HIDE DEF RegisteredThreads
    <3>3. Cardinality(RegisteredThreads') = Cardinality(RegisteredThreads) - 1
      BY <3>1, <3>2, RegisteredFinite, FS_RemoveElement, Zenon
    <3> QED  BY <3>3, <2>15, <1>1, Zenon DEF Unregister
  <2> QED
    BY <1>4, <2>1, <2>2, <2>3, <2>4, <2>5, <2>6, <2>7, <2>8, <2>9, <2>10, <2>11, <2>12,
       <2>13, <2>14, <2>15, SMTT(20) DEF Internal
<1>5. ASSUME NEW t \in Threads, External(t) PROVE waiters' = Cardinality(RegisteredThreads')
  <2>1. CASE lock(t)  BY <2>1, <1>3, Zenon DEF lock, Enter, relock
  <2>2. CASE try_lock(t)  BY <2>2, <1>3, Zenon DEF try_lock, Enter, relock
  <2>3. CASE unlock(t)  BY <2>3, <1>3, Zenon DEF unlock
  <2>4. CASE destroy(t)  BY <2>4, <1>3, Zenon DEF destroy
  <2>5. CASE RetryWait(t)  BY <2>5, <1>3, Zenon DEF RetryWait, MayReturnEarly
  <2>6. CASE WaitFails(t)  BY <2>6, <1>3, Zenon DEF WaitFails, MayReturnEarly
  <2>7. CASE MutexInit(t)
    <3>1. RegisteredThreads' = {}  BY <2>7, Zenon DEF MutexInit
    <3> QED  BY <3>1, <2>7, FS_EmptySet, Zenon DEF MutexInit, Fresh
  <2> QED  BY <1>5, <2>1, <2>2, <2>3, <2>4, <2>5, <2>6, <2>7, Zenon DEF External
<1>6. CASE UNCHANGED vars  BY <1>6, <1>3, Zenon DEF vars
<1> QED  BY <1>4, <1>5, <1>6, Zenon DEF Next

\* The waiter count is exact for any number of threads, so destroy's test of
\* it sees every caller on the slow path.
THEOREM WaiterCount == Spec => []WaitersCounted
<1>1. Init => WaitersCounted
  <2>1. ASSUME Init PROVE {t \in Threads : pc[t] \in Registered} = {}
    BY <2>1, Zenon DEF Init, Registered
  <2> QED  BY <2>1, FS_EmptySet, Zenon DEF Init, WaitersCounted
<1>2. IInv /\ WaitersCounted /\ [Next]_vars => WaitersCounted'
  BY WaitersStep, Zenon DEF IInv
<1> QED  BY <1>1, <1>2, Invariance, PTL DEF Spec

\* Every variable keeps its type; the waiter count never goes below zero.
THEOREM TypeCorrectness == Spec => []TypeOK
<1>1. IInv /\ WaitersCounted => TypeOK
  BY RegisteredFinite, Zenon DEF IInv, Typed, TypeOK, WaitersCounted, RegisteredThreads
<1> QED  BY <1>1, Invariance, WaiterCount, PTL

-----------------------------------------------------------------------------
\* The kernel's two sets split the threads that are inside WaitOnAddress.
Parked ==
    /\ \A t \in Threads : pc[t] = "asleep" <=> t \in sleeping \union selected
    /\ sleeping \intersect selected = {}

LEMMA ParkedStep == ASSUME Typed, Parked, [Next]_vars PROVE Parked'
<1> USE DEF Typed, Parked
<1>1. ASSUME NEW t \in Threads, Internal(t) PROVE Parked'
  <2>1. CASE TryCas(t)  BY <2>1, Zenon DEF TryCas
  <2>2. CASE LockCas(t)  BY <2>2, Zenon DEF LockCas
  <2>3. CASE Register(t)  BY <2>3, Zenon DEF Register
  <2>4. CASE Swap(t)  BY <2>4, Zenon DEF Swap
  <2>5. CASE Acquired(t)  BY <2>5, Zenon DEF Acquired
  <2>6. CASE Unregister(t)  BY <2>6, Zenon DEF Unregister
  <2>7. CASE WaitOnAddress(t)  BY <2>7 DEF WaitOnAddress
  <2>8. CASE Awoken(t)  BY <2>8, Zenon DEF Awoken
  <2>9. CASE FailedCheck(t)  BY <2>9, Zenon DEF FailedCheck
  <2>10. CASE Handoff(t)  BY <2>10, Zenon DEF Handoff, WakeOne
  <2>11. CASE UnlockSwap(t)  BY <2>11, Zenon DEF UnlockSwap
  <2>12. CASE UnlockWake(t)  BY <2>12, Zenon DEF UnlockWake, WakeOne
  <2>13. CASE DestroyState(t)  BY <2>13, Zenon DEF DestroyState
  <2>14. CASE DestroyWaiters(t)  BY <2>14, Zenon DEF DestroyWaiters
  <2>15. CASE DestroyStore(t)  BY <2>15, Zenon DEF DestroyStore
  <2> QED
    BY <1>1, <2>1, <2>2, <2>3, <2>4, <2>5, <2>6, <2>7, <2>8, <2>9, <2>10, <2>11, <2>12,
       <2>13, <2>14, <2>15, SMTT(20) DEF Internal
<1>2. ASSUME NEW t \in Threads, External(t) PROVE Parked'
  <2>1. CASE MutexInit(t)  BY <2>1, Zenon DEF MutexInit, Fresh
  <2>2. CASE lock(t)  BY <2>2, Zenon DEF lock, Enter, relock
  <2>3. CASE try_lock(t)  BY <2>3, Zenon DEF try_lock, Enter, relock
  <2>4. CASE unlock(t)  BY <2>4, Zenon DEF unlock
  <2>5. CASE destroy(t)  BY <2>5, Zenon DEF destroy
  <2>6. CASE RetryWait(t)  BY <2>6, Zenon DEF RetryWait, MayReturnEarly
  <2>7. CASE WaitFails(t)  BY <2>7, Zenon DEF WaitFails, MayReturnEarly
  <2> QED  BY <1>2, <2>1, <2>2, <2>3, <2>4, <2>5, <2>6, <2>7, Zenon DEF External
<1>3. CASE UNCHANGED vars  BY <1>3, Zenon DEF vars
<1> QED  BY <1>1, <1>2, <1>3, Zenon DEF Next

LEMMA NoLostWakeupStep ==
    ASSUME IInv, Parked, ~LostSelection, NoLostWakeup, [Next]_vars
    PROVE  NoLostWakeup'
<1> USE DEF IInv, Typed, Parked, NoLostWakeup
<1>1. ASSUME NEW t \in Threads, Internal(t) PROVE NoLostWakeup'
  <2>1. CASE TryCas(t)  BY <2>1 DEF TryCas
  <2>2. CASE LockCas(t)  BY <2>2 DEF LockCas
  <2>3. CASE Register(t)  BY <2>3, Zenon DEF Register
  <2>4. CASE Swap(t)  BY <2>4, Zenon DEF Swap
  <2>5. CASE Acquired(t)  BY <2>5, Zenon DEF Acquired
  <2>6. CASE Unregister(t)  BY <2>6, Zenon DEF Unregister
  <2>7. CASE WaitOnAddress(t)  BY <2>7, Zenon DEF WaitOnAddress
  <2>8. CASE Awoken(t)  BY <2>8, Zenon DEF Awoken
  <2>9. CASE FailedCheck(t)  BY <2>9, Zenon DEF FailedCheck
  <2>10. CASE Handoff(t)  BY <2>10, Zenon DEF Handoff, WakeOne
  <2>11. CASE UnlockSwap(t)  BY <2>11, Zenon DEF UnlockSwap
  <2>12. CASE UnlockWake(t)  BY <2>12, Zenon DEF UnlockWake, WakeOne
  <2>13. CASE DestroyState(t)  BY <2>13, Zenon DEF DestroyState
  <2>14. CASE DestroyWaiters(t)  BY <2>14, Zenon DEF DestroyWaiters
  <2>15. CASE DestroyStore(t)  BY <2>15, Zenon DEF DestroyStore
  <2> QED
    BY <1>1, <2>1, <2>2, <2>3, <2>4, <2>5, <2>6, <2>7, <2>8, <2>9, <2>10, <2>11, <2>12,
       <2>13, <2>14, <2>15, SMTT(20) DEF Internal
<1>2. ASSUME NEW t \in Threads, External(t) PROVE NoLostWakeup'
  <2>1. CASE MutexInit(t)  BY <2>1, Zenon DEF MutexInit, Fresh
  <2>2. CASE lock(t)  BY <2>2, Zenon DEF lock, Enter, relock
  <2>3. CASE try_lock(t)  BY <2>3, Zenon DEF try_lock, Enter, relock
  <2>4. CASE unlock(t)  BY <2>4, Zenon DEF unlock
  <2>5. CASE destroy(t)  BY <2>5, Zenon DEF destroy
  <2>6. CASE RetryWait(t)  BY <2>6 DEF RetryWait, MayReturnEarly
  <2>7. CASE WaitFails(t)  BY <2>7, Zenon DEF WaitFails, MayReturnEarly
  <2> QED  BY <1>2, <2>1, <2>2, <2>3, <2>4, <2>5, <2>6, <2>7, Zenon DEF External
<1>3. CASE UNCHANGED vars  BY <1>3, Zenon DEF vars
<1> QED  BY <1>1, <1>2, <1>3, Zenon DEF Next

\* Where the kernel reports every wake it delivers, no wake-up is lost: a
\* sleeper always has the mark 2, or a thread on its way, to rely on.
THEOREM WakeupsReachSleepers == ~LostSelection /\ Spec => []NoLostWakeup
<1>1. Init => Parked /\ NoLostWakeup  BY Zenon DEF Init, Parked, NoLostWakeup
<1>2. IInv /\ Parked /\ [Next]_vars => Parked'  BY ParkedStep, Zenon DEF IInv
<1>3. ~LostSelection /\ IInv /\ Parked /\ NoLostWakeup /\ [Next]_vars => NoLostWakeup'
  BY NoLostWakeupStep, Zenon
<1>4. CASE ~LostSelection
  <2>1. IInv /\ Parked /\ NoLostWakeup /\ [Next]_vars => NoLostWakeup'
    BY <1>3, <1>4, Zenon
  <2> QED  BY <1>1, <1>2, <2>1, Invariance, PTL DEF Spec
<1> QED  BY <1>4, Zenon

-----------------------------------------------------------------------------
AbstractPhases == [t \in Threads |-> Phase(t)]

\* A step that moves the phase of one thread is the abstract step of that move.
LEMMA PhaseMoves ==
    ASSUME NEW t \in Threads, \A u \in Threads \ {t} : Phase(u)' = Phase(u)
    PROVE  /\ Phase(t)' = Phase(t) => AbstractPhases' = AbstractPhases
           /\ Phase(t) = "out" /\ Phase(t)' = "asking" => Lock!Ask(t)
           /\ Phase(t) = "asking" /\ Phase(t)' = "out" => Lock!GiveUp(t)
           /\ Phase(t) = "in" /\ Phase(t)' = "out" => Lock!Leave(t)
           /\ Phase(t) = "asking" /\ Phase(t)' = "in" /\ (\A u \in Threads : Phase(u) # "in")
              => Lock!Enter(t)
  BY Zenon DEF AbstractPhases, Lock!Ask, Lock!GiveUp, Lock!Leave, Lock!Enter

LEMMA RefinementStep ==
    ASSUME IInv, [Next]_vars
    PROVE  [Lock!Next]_AbstractPhases
<1> DEFINE Refines == [Lock!Next]_AbstractPhases
<1> USE NoOwnerFresh DEF IInv, Typed, Exclusion, MutualExclusion, StateTellsHolder,
        SwapAfterOwner, Holds, Registered
<1>0. ASSUME NEW t \in Threads,
             \/ Phase(t)' = Phase(t)
             \/ Phase(t) = "out" /\ Phase(t)' = "asking"
             \/ Phase(t) = "asking" /\ Phase(t)' = "out"
             \/ Phase(t) = "in" /\ Phase(t)' = "out"
             \/ Phase(t) = "asking" /\ Phase(t)' = "in" /\ \A u \in Threads : Phase(u) # "in",
             \A u \in Threads \ {t} : Phase(u)' = Phase(u)
      PROVE  Refines
  BY <1>0, PhaseMoves, Zenon DEF Lock!Next
<1> HIDE DEF Refines
<1> USE <1>0 DEF Phase
<1>1. ASSUME NEW t \in Threads, Internal(t) PROVE Refines
  <2>1. CASE TryCas(t)  BY <2>1 DEF TryCas
  <2>2. CASE LockCas(t)  BY <2>2 DEF LockCas
  <2>3. CASE Register(t)  BY <2>3 DEF Register
  <2>4. CASE Swap(t)  BY <2>4 DEF Swap
  <2>5. CASE Acquired(t)  BY <2>5 DEF Acquired
  <2>6. CASE Unregister(t)  BY <2>6 DEF Unregister
  <2>7. CASE WaitOnAddress(t)  BY <2>7 DEF WaitOnAddress
  <2>8. CASE Awoken(t)  BY <2>8 DEF Awoken
  <2>9. CASE FailedCheck(t)  BY <2>9 DEF FailedCheck
  <2>10. CASE Handoff(t)  BY <2>10 DEF Handoff, WakeOne
  <2>11. CASE UnlockSwap(t)  BY <2>11 DEF UnlockSwap
  <2>12. CASE UnlockWake(t)  BY <2>12 DEF UnlockWake, WakeOne
  <2>13. CASE DestroyState(t)  BY <2>13 DEF DestroyState
  <2>14. CASE DestroyWaiters(t)  BY <2>14 DEF DestroyWaiters
  <2>15. CASE DestroyStore(t)  BY <2>15 DEF DestroyStore
  <2> QED
    BY <1>1, <2>1, <2>2, <2>3, <2>4, <2>5, <2>6, <2>7, <2>8, <2>9, <2>10, <2>11, <2>12,
       <2>13, <2>14, <2>15, Zenon DEF Internal
<1>2. ASSUME NEW t \in Threads, External(t) PROVE Refines
  <2>1. CASE MutexInit(t)  BY <2>1, Zenon DEF MutexInit, Fresh
  <2>2. CASE lock(t)  BY <2>2 DEF lock, Enter, relock
  <2>3. CASE try_lock(t)  BY <2>3 DEF try_lock, Enter, relock
  <2>4. CASE unlock(t)  BY <2>4 DEF unlock
  <2>5. CASE destroy(t)  BY <2>5, Zenon DEF destroy
  <2>6. CASE RetryWait(t)  BY <2>6 DEF RetryWait, MayReturnEarly
  <2>7. CASE WaitFails(t)  BY <2>7 DEF WaitFails, MayReturnEarly
  <2> QED  BY <1>2, <2>1, <2>2, <2>3, <2>4, <2>5, <2>6, <2>7, Zenon DEF External
<1>3. CASE UNCHANGED vars  BY <1>3, Zenon DEF vars, Refines, AbstractPhases
<1> QED  BY <1>1, <1>2, <1>3, Zenon DEF Next, Refines

\* The mutex implements the abstract lock for any number of threads.
THEOREM Refinement == Spec => ImplementsLock
<1>1. Init => Lock!Init
  BY NoOwnerFresh, Zenon DEF Init, Lock!Init, Phase, Holds, Registered
<1>2. IInv /\ [Next]_vars => [Lock!Next]_AbstractPhases  BY RefinementStep, Zenon
<1> QED
  BY <1>1, <1>2, Invariance, PTL DEF Spec, ImplementsLock, Lock!Spec, AbstractPhases

-----------------------------------------------------------------------------
(* The barrier.                                                            *)

\* What the theorems assume of the constants.
BarrierConstants == IsFiniteSet(Threads) /\ Count \in Nat \ {0} /\ RESET_BOUND \in Nat

TicketHolders == {t \in Threads : b_pc[t] \in Barriers!Admitted}
Resetting == {t \in Threads : b_pc[t] \in {"reset", "reopen"}}

BarrierTyped ==
    /\ entered \in Nat /\ completed \in Nat /\ departed \in Nat
    /\ b_initialized \in BOOLEAN
    /\ b_pc \in [Threads -> Barriers!PCs]
    /\ ticket \in [Threads -> Nat]

\* A ticket is of this range of the counters, the ticket of a publisher ends a round,
\* and who may leave has seen its round completed.
TicketsValid ==
    \A t \in TicketHolders :
        /\ ticket[t] \in 1..entered
        /\ b_pc[t] \in {"publish", "notify"} => ticket[t] % Count = 0
        /\ b_pc[t] = "leave" => ticket[t] <= completed

\* Only whole rounds complete, and only rounds that are full.
RoundsComplete == completed % Count = 0 /\ completed <= entered /\ entered <= Barriers!limit

\* Every ticket given is held or handed back; the last one handed back resets the
\* counters while nobody holds a ticket and nobody can get one.
TicketsCounted ==
    /\ Resetting = {} => entered = departed + Cardinality(TicketHolders)
    /\ Resetting # {} => TicketHolders = {} /\ entered = Barriers!limit
    /\ \A t, u \in Resetting : t = u
    /\ \A t \in Threads : b_pc[t] = "reopen" => completed = 0 /\ departed = 0
    /\ ~b_initialized => \A t \in Threads : b_pc[t] = "idle"

BarrierInv == BarrierTyped /\ TicketsValid /\ RoundsComplete /\ TicketsCounted

\* The steps of a thread.
BarrierStep(t) ==
    \/ Barriers!arrive(t) \/ Barriers!EntryWait(t) \/ Barriers!EntryAwoken(t)
    \/ Barriers!Publish(t) \/ Barriers!Notify(t) \/ Barriers!Load(t) \/ Barriers!passed(t)
    \/ Barriers!Wait(t) \/ Barriers!Awoken(t) \/ Barriers!leave(t) \/ Barriers!Reset(t)
    \/ Barriers!Reopen(t) \/ Barriers!EntryWake(t)
    \/ Barriers!pthread_barrier_wait(t) \/ Barriers!WaitFails(t)

USE DEF Barriers!Goto, Barriers!barrier, Barriers!frame, Barriers!queues, Barriers!Drop

-----------------------------------------------------------------------------
\* Arithmetic of rounds.
LEMMA Division ==
    ASSUME NEW a \in Nat, NEW n \in Nat \ {0}
    PROVE  a \div n \in Nat /\ (a % n) \in 0..(n - 1) /\ a = n * (a \div n) + (a % n)
<1>1. a \div n >= 0 /\ a \div n \in Int  OBVIOUS
<1>2. (a % n) \in 0..(n - 1)  OBVIOUS
<1>3. a = n * (a \div n) + (a % n)  OBVIOUS
<1> QED  BY <1>1, <1>2, <1>3

LEMMA NonNegative == ASSUME NEW a \in Nat, NEW b \in Nat PROVE a * b >= 0
  OBVIOUS

\* A multiple of the participants that is not below a ticket is not below its round.
LEMMA RoundBelow ==
    ASSUME BarrierConstants, NEW k \in Nat, k > 0, NEW c \in Nat, c % Count = 0, k <= c
    PROVE  Barriers!RoundEnd(k) <= c
<1> DEFINE q == c \div Count
           r == (k + Count - 1) \div Count
<1>1. q \in Nat /\ c = Count * q  BY Division DEF BarrierConstants
<1>2. r \in Nat /\ Count * r <= k + Count - 1
  <2>1. k + Count - 1 \in Nat  BY DEF BarrierConstants
  <2>2. r \in Nat /\ ((k + Count - 1) % Count) \in Nat
        /\ k + Count - 1 = Count * r + ((k + Count - 1) % Count)
    BY <2>1, Division DEF BarrierConstants
  <2> QED  BY <2>1, <2>2 DEF BarrierConstants
<1> HIDE DEF q, r
<1>3. r <= q
  <2> SUFFICES ASSUME r >= q + 1 PROVE FALSE  BY <1>1, <1>2
  <2>1. (r - (q + 1)) * Count >= 0  BY <1>1, <1>2, NonNegative DEF BarrierConstants
  <2>2. (r - (q + 1)) * Count = Count * r - Count * q - Count
    BY <1>1, <1>2 DEF BarrierConstants
  <2> QED  BY <1>1, <1>2, <2>1, <2>2 DEF BarrierConstants
<1>4. Count * r <= Count * q
  <2>1. (q - r) * Count >= 0  BY <1>1, <1>2, <1>3, NonNegative DEF BarrierConstants
  <2> QED  BY <1>1, <1>2, <2>1 DEF BarrierConstants
<1>5. Barriers!RoundEnd(k) = r * Count  BY Zenon DEF Barriers!RoundEnd, r
<1>6. r * Count = Count * r  BY <1>2 DEF BarrierConstants
<1> QED  BY <1>1, <1>4, <1>5, <1>6, Zenon

LEMMA LimitNat == ASSUME BarrierConstants PROVE Barriers!limit \in Nat
<1>1. RESET_BOUND = Count * (RESET_BOUND \div Count) + (RESET_BOUND % Count)
      /\ RESET_BOUND \div Count \in Nat /\ (RESET_BOUND % Count) \in Nat
  BY Division DEF BarrierConstants
<1>2. Count * (RESET_BOUND \div Count) \in Nat  BY <1>1, NonNegative DEF BarrierConstants
<1> QED  BY <1>1, <1>2 DEF Barriers!limit, BarrierConstants

LEMMA ZeroRound == ASSUME BarrierConstants PROVE 0 % Count = 0
  BY DEF BarrierConstants

-----------------------------------------------------------------------------
LEMMA HoldersFinite ==
    ASSUME BarrierConstants
    PROVE  /\ IsFiniteSet(TicketHolders) /\ Cardinality(TicketHolders) \in Nat
           /\ Cardinality(TicketHolders) = 0 <=> TicketHolders = {}
<1>1. TicketHolders \subseteq Threads  BY Zenon DEF TicketHolders
<1>2. IsFiniteSet(TicketHolders)  BY <1>1, FS_Subset, Zenon DEF BarrierConstants
<1> QED  BY <1>2, FS_CardinalityType, FS_EmptySet, Zenon

LEMMA TicketGiven ==
    ASSUME BarrierConstants, NEW t, t \notin TicketHolders,
           TicketHolders' = TicketHolders \union {t}
    PROVE  Cardinality(TicketHolders') = Cardinality(TicketHolders) + 1
  BY HoldersFinite, FS_AddElement, Zenon

LEMMA TicketHandedBack ==
    ASSUME BarrierConstants, NEW t, t \in TicketHolders,
           TicketHolders' = TicketHolders \ {t}
    PROVE  /\ Cardinality(TicketHolders') = Cardinality(TicketHolders) - 1
           /\ IsFiniteSet(TicketHolders')
  BY HoldersFinite, FS_RemoveElement, Zenon

LEMMA InitBarrierInv == ASSUME BarrierConstants, Barriers!Init PROVE BarrierInv
<1>1. TicketHolders = {} /\ Resetting = {}
  BY Zenon DEF Barriers!Init, TicketHolders, Resetting, Barriers!Admitted
<1>2. Cardinality(TicketHolders) = 0  BY <1>1, FS_EmptySet, Zenon
<1> QED  BY <1>1, <1>2, LimitNat, ZeroRound
         DEF Barriers!Init, BarrierInv, BarrierTyped, TicketsValid, RoundsComplete,
             TicketsCounted, Barriers!PCs

LEMMA BarrierNextSplit ==
    Barriers!Next => \/ \E t \in Threads : BarrierStep(t)
                     \/ Barriers!destroy \/ Barriers!pthread_barrier_init
  BY Zenon DEF Barriers!Next, Barriers!Internal, BarrierStep

-----------------------------------------------------------------------------
LEMMA BarrierTypedStep ==
    ASSUME BarrierTyped, [Barriers!Next]_(Barriers!vars)
    PROVE  BarrierTyped'
<1> USE DEF BarrierTyped, Barriers!PCs, Barriers!Admitted
<1>1. ASSUME NEW t \in Threads PROVE BarrierStep(t) => BarrierTyped'
  <2>1. CASE Barriers!arrive(t)  BY <2>1 DEF Barriers!arrive
  <2>2. CASE Barriers!EntryWait(t)  BY <2>2, Zenon DEF Barriers!EntryWait
  <2>3. CASE Barriers!EntryAwoken(t)  BY <2>3, Zenon DEF Barriers!EntryAwoken
  <2>4. CASE Barriers!Publish(t)  BY <2>4, Zenon DEF Barriers!Publish
  <2>5. CASE Barriers!Notify(t)  BY <2>5, Zenon DEF Barriers!Notify
  <2>6. CASE Barriers!Load(t)  BY <2>6, Zenon DEF Barriers!Load
  <2>7. CASE Barriers!passed(t)  BY <2>7, Zenon DEF Barriers!passed
  <2>8. CASE Barriers!Wait(t)  BY <2>8, Zenon DEF Barriers!Wait
  <2>9. CASE Barriers!Awoken(t)  BY <2>9, Zenon DEF Barriers!Awoken
  <2>10. CASE Barriers!leave(t)  BY <2>10 DEF Barriers!leave
  <2>11. CASE Barriers!Reset(t)  BY <2>11, Zenon DEF Barriers!Reset
  <2>12. CASE Barriers!Reopen(t)  BY <2>12, Zenon DEF Barriers!Reopen
  <2>13. CASE Barriers!EntryWake(t)  BY <2>13, Zenon DEF Barriers!EntryWake
  <2>14. CASE Barriers!pthread_barrier_wait(t)
    BY <2>14, Zenon DEF Barriers!pthread_barrier_wait
  <2>15. CASE Barriers!WaitFails(t)  BY <2>15, Zenon DEF Barriers!WaitFails
  <2> QED  BY <2>1, <2>2, <2>3, <2>4, <2>5, <2>6, <2>7, <2>8, <2>9,
              <2>10, <2>11, <2>12, <2>13, <2>14, <2>15, Zenon DEF BarrierStep
<1>2. CASE Barriers!destroy  BY <1>2, Zenon DEF Barriers!destroy
<1>3. CASE Barriers!pthread_barrier_init  BY <1>3, Zenon DEF Barriers!pthread_barrier_init
<1>4. CASE UNCHANGED Barriers!vars  BY <1>4, Zenon DEF Barriers!vars
<1> QED  BY <1>1, <1>2, <1>3, <1>4, BarrierNextSplit, Zenon

LEMMA TicketsStep ==
    ASSUME BarrierConstants, BarrierInv, [Barriers!Next]_(Barriers!vars)
    PROVE  (TicketsValid /\ RoundsComplete)'
<1> USE LimitNat, ZeroRound
    DEF BarrierInv, BarrierTyped, TicketsValid, RoundsComplete, TicketHolders,
        Barriers!Admitted
<1>1. ASSUME NEW t \in Threads PROVE BarrierStep(t) => (TicketsValid /\ RoundsComplete)'
  <2>1. CASE Barriers!arrive(t)  BY <2>1 DEF Barriers!arrive
  <2>2. CASE Barriers!EntryWait(t)  BY <2>2, Zenon DEF Barriers!EntryWait
  <2>3. CASE Barriers!EntryAwoken(t)  BY <2>3, Zenon DEF Barriers!EntryAwoken
  <2>4. CASE Barriers!Publish(t)  BY <2>4 DEF Barriers!Publish
  <2>5. CASE Barriers!Notify(t)  BY <2>5, Zenon DEF Barriers!Notify
  <2>6. CASE Barriers!Load(t)  BY <2>6, Zenon DEF Barriers!Load
  <2>7. CASE Barriers!passed(t)  BY <2>7, Zenon DEF Barriers!passed
  <2>8. CASE Barriers!Wait(t)  BY <2>8, Zenon DEF Barriers!Wait
  <2>9. CASE Barriers!Awoken(t)  BY <2>9, Zenon DEF Barriers!Awoken
  <2>10. CASE Barriers!leave(t)  BY <2>10, Zenon DEF Barriers!leave
  <2>11. CASE Barriers!Reset(t)
    <3>1. TicketHolders = {}
      BY <2>11, Zenon DEF TicketsCounted, Resetting, Barriers!Reset
    <3>2. TicketHolders' = {}  BY <2>11, <3>1, Zenon DEF Barriers!Reset
    <3> QED  BY <2>11, <3>2 DEF Barriers!Reset
  <2>12. CASE Barriers!Reopen(t)
    <3>1. TicketHolders = {}
      BY <2>12, Zenon DEF TicketsCounted, Resetting, Barriers!Reopen
    <3>2. TicketHolders' = {}  BY <2>12, <3>1, Zenon DEF Barriers!Reopen
    <3> QED  BY <2>12, <3>2 DEF Barriers!Reopen, TicketsCounted
  <2>13. CASE Barriers!EntryWake(t)  BY <2>13, Zenon DEF Barriers!EntryWake
  <2>14. CASE Barriers!pthread_barrier_wait(t)
    BY <2>14, Zenon DEF Barriers!pthread_barrier_wait
  <2>15. CASE Barriers!WaitFails(t)  BY <2>15, Zenon DEF Barriers!WaitFails
  <2> QED  BY <2>1, <2>2, <2>3, <2>4, <2>5, <2>6, <2>7, <2>8, <2>9,
              <2>10, <2>11, <2>12, <2>13, <2>14, <2>15, Zenon DEF BarrierStep
<1>2. CASE Barriers!destroy  BY <1>2, Zenon DEF Barriers!destroy
<1>3. CASE Barriers!pthread_barrier_init
  <2>1. TicketHolders' = {}
    BY <1>3, Zenon DEF Barriers!pthread_barrier_init, TicketsCounted
  <2> QED  BY <1>3, <2>1 DEF Barriers!pthread_barrier_init
<1>4. CASE UNCHANGED Barriers!vars  BY <1>4, Zenon DEF Barriers!vars
<1> QED  BY <1>1, <1>2, <1>3, <1>4, BarrierNextSplit, Zenon

LEMMA CountedStep ==
    ASSUME BarrierConstants, BarrierInv, [Barriers!Next]_(Barriers!vars)
    PROVE  TicketsCounted'
<1> USE LimitNat
    DEF BarrierInv, BarrierTyped, RoundsComplete, TicketsCounted, TicketHolders, Resetting,
        Barriers!Admitted
<1>1. ASSUME NEW t \in Threads PROVE BarrierStep(t) => TicketsCounted'
  <2>1. CASE Barriers!arrive(t)
    <3>1. CASE entered >= Barriers!limit
      <4>1. TicketHolders' = TicketHolders /\ Resetting' = Resetting
        BY <2>1, <3>1, Zenon DEF Barriers!arrive
      <4> QED  BY Zenon, <2>1, <3>1, <4>1 DEF Barriers!arrive
    <3>2. CASE ~(entered >= Barriers!limit)
      <4>1. Resetting = {}  BY <3>2, Zenon
      <4>2. TicketHolders' = TicketHolders \union {t} /\ t \notin TicketHolders /\ Resetting' = {}
        BY <2>1, <3>2, <4>1, Zenon DEF Barriers!arrive
      <4>3. Cardinality(TicketHolders') = Cardinality(TicketHolders) + 1
        BY <4>2, TicketGiven, Zenon
      <4> QED  BY <2>1, <3>2, <4>1, <4>2, <4>3, HoldersFinite DEF Barriers!arrive
    <3> QED  BY <3>1, <3>2, Zenon
  <2>2. CASE Barriers!EntryWait(t)
    <3>1. TicketHolders' = TicketHolders /\ Resetting' = Resetting
      BY <2>2, Zenon DEF Barriers!EntryWait
    <3> QED  BY <2>2, <3>1, Zenon DEF Barriers!EntryWait
  <2>3. CASE Barriers!EntryAwoken(t)
    <3>1. TicketHolders' = TicketHolders /\ Resetting' = Resetting
      BY <2>3, Zenon DEF Barriers!EntryAwoken
    <3> QED  BY <2>3, <3>1, Zenon DEF Barriers!EntryAwoken
  <2>4. CASE Barriers!Publish(t)
    <3>1. TicketHolders' = TicketHolders /\ Resetting' = Resetting
      BY <2>4, Zenon DEF Barriers!Publish
    <3> QED  BY <2>4, <3>1, Zenon DEF Barriers!Publish
  <2>5. CASE Barriers!Notify(t)
    <3>1. TicketHolders' = TicketHolders /\ Resetting' = Resetting
      BY <2>5, Zenon DEF Barriers!Notify
    <3> QED  BY <2>5, <3>1, Zenon DEF Barriers!Notify
  <2>6. CASE Barriers!Load(t)
    <3>1. TicketHolders' = TicketHolders /\ Resetting' = Resetting
      BY <2>6, Zenon DEF Barriers!Load
    <3> QED  BY <2>6, <3>1, Zenon DEF Barriers!Load
  <2>7. CASE Barriers!passed(t)
    <3>1. TicketHolders' = TicketHolders /\ Resetting' = Resetting
      BY <2>7, Zenon DEF Barriers!passed
    <3> QED  BY <2>7, <3>1, Zenon DEF Barriers!passed
  <2>8. CASE Barriers!Wait(t)
    <3>1. TicketHolders' = TicketHolders /\ Resetting' = Resetting
      BY <2>8, Zenon DEF Barriers!Wait
    <3> QED  BY <2>8, <3>1, Zenon DEF Barriers!Wait
  <2>9. CASE Barriers!Awoken(t)
    <3>1. TicketHolders' = TicketHolders /\ Resetting' = Resetting
      BY <2>9, Zenon DEF Barriers!Awoken
    <3> QED  BY <2>9, <3>1, Zenon DEF Barriers!Awoken
  <2>10. CASE Barriers!leave(t)
    <3>1. Resetting = {} /\ t \in TicketHolders  BY <2>10, Zenon DEF Barriers!leave
    <3>2. TicketHolders' = TicketHolders \ {t}  BY <2>10, Zenon DEF Barriers!leave
    <3>3. Cardinality(TicketHolders') = Cardinality(TicketHolders) - 1 /\ IsFiniteSet(TicketHolders')
      BY <3>1, <3>2, TicketHandedBack, Zenon
    <3>4. entered = departed + Cardinality(TicketHolders)  BY <3>1, Zenon
    <3>5. CASE departed + 1 = Barriers!limit
      <4>1. Resetting' = {t}  BY <2>10, <3>1, <3>5, Zenon DEF Barriers!leave
      <4>2. Cardinality(TicketHolders') = 0 /\ entered = Barriers!limit
        BY <3>1, <3>3, <3>4, <3>5, HoldersFinite DEF RoundsComplete
      <4>3. TicketHolders' = {}  BY <3>3, <4>2, FS_EmptySet, Zenon
      <4> QED  BY <2>10, <3>1, <4>1, <4>2, <4>3, Zenon DEF Barriers!leave, Barriers!limit
    <3>6. CASE departed + 1 # Barriers!limit
      <4>1. Resetting' = {}  BY <2>10, <3>1, <3>6, Zenon DEF Barriers!leave
      <4> QED  BY <2>10, <3>3, <3>4, <4>1, HoldersFinite DEF Barriers!leave
    <3> QED  BY <3>5, <3>6, Zenon
  <2>11. CASE Barriers!Reset(t)
    <3>1. Resetting' = Resetting /\ TicketHolders' = TicketHolders /\ t \in Resetting
      BY <2>11, Zenon DEF Barriers!Reset
    <3> QED  BY <2>11, <3>1, Zenon DEF Barriers!Reset, Barriers!limit
  <2>12. CASE Barriers!Reopen(t)
    <3>1. t \in Resetting /\ TicketHolders = {}  BY <2>12, Zenon DEF Barriers!Reopen
    <3>2. Resetting' = {} /\ TicketHolders' = {}
      BY <2>12, <3>1, Zenon DEF Barriers!Reopen
    <3>3. Cardinality(TicketHolders') = 0  BY <3>2, FS_EmptySet, Zenon
    <3> QED  BY <2>12, <3>2, <3>3 DEF Barriers!Reopen
  <2>13. CASE Barriers!EntryWake(t)
    <3>1. TicketHolders' = TicketHolders /\ Resetting' = Resetting
      BY <2>13, Zenon DEF Barriers!EntryWake
    <3> QED  BY <2>13, <3>1, Zenon DEF Barriers!EntryWake
  <2>14. CASE Barriers!pthread_barrier_wait(t)
    <3>1. TicketHolders' = TicketHolders /\ Resetting' = Resetting
      BY <2>14, Zenon DEF Barriers!pthread_barrier_wait
    <3> QED  BY <2>14, <3>1 DEF Barriers!pthread_barrier_wait
  <2>15. CASE Barriers!WaitFails(t)
    <3>1. TicketHolders' = TicketHolders /\ Resetting' = Resetting
      BY <2>15, Zenon DEF Barriers!WaitFails
    <3> QED  BY <2>15, <3>1, Zenon DEF Barriers!WaitFails
  <2> QED  BY <2>1, <2>2, <2>3, <2>4, <2>5, <2>6, <2>7, <2>8, <2>9,
              <2>10, <2>11, <2>12, <2>13, <2>14, <2>15, Zenon DEF BarrierStep
<1>2. CASE Barriers!destroy
  <2>1. TicketHolders' = TicketHolders /\ Resetting' = Resetting
    BY <1>2, Zenon DEF Barriers!destroy
  <2> QED  BY <1>2, <2>1, Zenon DEF Barriers!destroy
<1>3. CASE Barriers!pthread_barrier_init
  <2>1. TicketHolders' = {} /\ Resetting' = {}
    BY <1>3, Zenon DEF Barriers!pthread_barrier_init
  <2>2. Cardinality(TicketHolders') = 0  BY <2>1, FS_EmptySet, Zenon
  <2> QED  BY <1>3, <2>1, <2>2 DEF Barriers!pthread_barrier_init
<1>4. CASE UNCHANGED Barriers!vars
  <2>1. TicketHolders' = TicketHolders /\ Resetting' = Resetting
    BY <1>4, Zenon DEF Barriers!vars
  <2> QED  BY <1>4, <2>1, Zenon DEF Barriers!vars
<1> QED  BY <1>1, <1>2, <1>3, <1>4, BarrierNextSplit, Zenon

-----------------------------------------------------------------------------
\* Nobody leaves a round of pthread_barrier_wait before all of its tickets are out,
\* through any number of rounds and resets of the counters, for any number of threads
\* and participants, whichever object a behaviour is about.
THEOREM NobodyLeavesEarly == ASSUME BarrierConstants PROVE SpecAll => []NoEarlyRelease
<1>1. InitAll => BarrierInv  BY InitBarrierInv, Zenon DEF InitAll
<1>2. BarrierInv /\ [NextAll]_allvars => BarrierInv'
  <2> SUFFICES ASSUME BarrierInv, [NextAll]_allvars PROVE BarrierInv'
    BY Zenon
  <2>1. [Barriers!Next]_(Barriers!vars)
    BY Zenon DEF NextAll, OnMutex, OnBarrier, OnOnce, allvars, barrier, Barriers!vars
  <2> QED  BY <2>1, BarrierTypedStep, TicketsStep, CountedStep, Zenon DEF BarrierInv
<1>3. BarrierInv => Barriers!NoEarlyRelease
  <2> SUFFICES ASSUME BarrierInv, NEW t \in Threads, b_pc[t] = "leave"
               PROVE  Barriers!RoundEnd(ticket[t]) <= entered
    BY Zenon DEF Barriers!NoEarlyRelease
  <2>1. ticket[t] \in 1..entered /\ ticket[t] <= completed
    BY Zenon DEF BarrierInv, TicketsValid, TicketHolders, Barriers!Admitted
  <2>2. Barriers!RoundEnd(ticket[t]) <= completed
    BY <2>1, RoundBelow DEF BarrierInv, BarrierTyped, RoundsComplete
  <2>3. Barriers!RoundEnd(ticket[t]) \in Int
    BY <2>1, Division DEF Barriers!RoundEnd, BarrierInv, BarrierTyped, BarrierConstants
  <2> QED  BY <2>2, <2>3 DEF BarrierInv, BarrierTyped, RoundsComplete
<1> QED  BY <1>1, <1>2, <1>3, PTL DEF SpecAll, NoEarlyRelease

-----------------------------------------------------------------------------
(* The once control.                                                       *)

OnceTyped ==
    /\ once_state \in 0..2 /\ completions \in 0..1
    /\ o_pc \in [Threads -> {"idle", "claim", "routine", "wait", "waiting", "wake", "abortWake",
                             "returned", "exited"}]

\* The word tells who runs the routine and whether it has run to its end.
OnceTells ==
    /\ \A t \in Threads : o_pc[t] = "routine" => once_state = Onces!RUNNING
    /\ \A t, u \in Threads : o_pc[t] = "routine" /\ o_pc[u] = "routine" => t = u
    /\ \A t \in Threads : o_pc[t] \in {"wake", "returned"} => once_state = Onces!COMPLETE
    /\ completions = IF once_state = Onces!COMPLETE THEN 1 ELSE 0

OnceInv == OnceTyped /\ OnceTells

USE DEF Onces!Goto, Onces!RUNNING, Onces!COMPLETE

LEMMA OnceTypedStep == ASSUME OnceInv, [Onces!Next]_(Onces!vars) PROVE OnceTyped'
<1> USE DEF OnceInv, OnceTyped
<1>1. ASSUME NEW t \in Threads, Onces!Internal(t) PROVE OnceTyped'
  <2>1. CASE Onces!claim(t)  BY <2>1 DEF Onces!claim
  <2>2. CASE Onces!Wait(t)  BY <2>2, Zenon DEF Onces!Wait
  <2>3. CASE Onces!Awoken(t)  BY <2>3, Zenon DEF Onces!Awoken
  <2>4. CASE Onces!complete(t)  BY <2>4 DEF Onces!complete, OnceTells
  <2>5. CASE Onces!Wake(t)  BY <2>5, Zenon DEF Onces!Wake
  <2> QED  BY <1>1, <2>1, <2>2, <2>3, <2>4, <2>5, Zenon DEF Onces!Internal
<1>2. ASSUME NEW t \in Threads, Onces!pthread_once(t) PROVE OnceTyped'
  BY <1>2, Zenon DEF Onces!pthread_once
<1>3. ASSUME NEW t \in Threads, Onces!Interrupt(t) PROVE OnceTyped'
  BY <1>3, Zenon DEF Onces!Interrupt
<1>4. ASSUME NEW t \in Threads, Onces!reset(t) PROVE OnceTyped'  BY <1>4 DEF Onces!reset
<1>5. ASSUME NEW t \in Threads, Onces!Again(t) PROVE OnceTyped'
  BY <1>5, Zenon DEF Onces!Again
<1>6. CASE UNCHANGED Onces!vars  BY <1>6, Zenon DEF Onces!vars
<1> QED  BY <1>1, <1>2, <1>3, <1>4, <1>5, <1>6, Zenon DEF Onces!Next

LEMMA OnceTellsStep == ASSUME OnceInv, [Onces!Next]_(Onces!vars) PROVE OnceTells'
<1> USE DEF OnceInv, OnceTyped, OnceTells
<1>1. ASSUME NEW t \in Threads, Onces!Internal(t) PROVE OnceTells'
  <2>1. CASE Onces!claim(t)  BY <2>1 DEF Onces!claim
  <2>2. CASE Onces!Wait(t)  BY <2>2 DEF Onces!Wait
  <2>3. CASE Onces!Awoken(t)  BY <2>3, Zenon DEF Onces!Awoken
  <2>4. CASE Onces!complete(t)  BY <2>4 DEF Onces!complete
  <2>5. CASE Onces!Wake(t)  BY <2>5, Zenon DEF Onces!Wake
  <2> QED  BY <1>1, <2>1, <2>2, <2>3, <2>4, <2>5, Zenon DEF Onces!Internal
<1>2. ASSUME NEW t \in Threads, Onces!pthread_once(t) PROVE OnceTells'
  BY <1>2, Zenon DEF Onces!pthread_once
<1>3. ASSUME NEW t \in Threads, Onces!Interrupt(t) PROVE OnceTells'
  BY <1>3, Zenon DEF Onces!Interrupt
<1>4. ASSUME NEW t \in Threads, Onces!reset(t) PROVE OnceTells'  BY <1>4 DEF Onces!reset
<1>5. ASSUME NEW t \in Threads, Onces!Again(t) PROVE OnceTells'
  BY <1>5, Zenon DEF Onces!Again
<1>6. CASE UNCHANGED Onces!vars  BY <1>6, Zenon DEF Onces!vars
<1> QED  BY <1>1, <1>2, <1>3, <1>4, <1>5, <1>6, Zenon DEF Onces!Next

\* The initializer of pthread_once runs to its end once, in one thread, before any
\* call returns, for any number of threads and of initializers that were canceled
\* and took their claim back, whichever object a behaviour is about.
THEOREM RoutineRunsOnce == SpecAll => []InitializedOnce
<1>1. InitAll => OnceInv
  BY DEF InitAll, Onces!Init, OnceInv, OnceTyped, OnceTells
<1>2. OnceInv /\ [NextAll]_allvars => OnceInv'
  <2> SUFFICES ASSUME OnceInv, [NextAll]_allvars PROVE OnceInv'
    BY Zenon
  <2>1. [Onces!Next]_(Onces!vars)
    BY Zenon DEF NextAll, OnMutex, OnBarrier, OnOnce, allvars, once, Onces!vars
  <2> QED  BY <2>1, OnceTypedStep, OnceTellsStep, Zenon DEF OnceInv
<1>3. OnceInv => InitializedOnce
  BY DEF OnceInv, OnceTells, InitializedOnce, Onces!InitializedOnce
<1> QED  BY <1>1, <1>2, <1>3, PTL DEF SpecAll
===============================================================================
