----------------------------- MODULE SyncProofs -----------------------------
(***************************************************************************)
(* The condition variable and the semaphore as MCSync runs them: what      *)
(* PthreadCondProofs and SemaphoreProofs prove of each component holds of  *)
(* the composed specification, whose object chooses the one that moves.    *)
(***************************************************************************)
EXTENDS MCSync, TLAPS

\* The component's proofs, with the constants and the variables MCSync gives it.
Cond == INSTANCE PthreadCondProofs WITH
  Notifiers <- Threads, initialized <- c_initialized, cancel_pending <- c_cancel_pending,
  multiplex_generation <- c_multiplex_generation, canceling <- c_canceling, pc <- c_pc,
  notification <- c_notification, parked <- c_parked

Sem == INSTANCE SemaphoreProofs WITH
  Threads <- SemaphoreThreads, Cancelable <- SemaphoreCancelable,
  initialized <- s_initialized, cancel_pending <- s_cancel_pending,
  multiplex_generation <- s_multiplex_generation, canceling <- s_canceling, pc <- s_pc,
  notification <- s_notification, parked <- s_parked

-----------------------------------------------------------------------------
(* The condition variable.                                                     *)

\* A behaviour that began with a condition variable takes its steps only.
LEMMA ConditionMoves ==
    ASSUME [NextAll]_allvars, object = "condition"
    PROVE  [Conditions!Next]_(Conditions!vars)
  BY Zenon DEF NextAll, allvars, condition, Conditions!vars, Conditions!condition,
               Conditions!control, Conditions!frame, Conditions!history

LEMMA ConditionInit == Conditions!Init => Cond!Init
  BY Zenon DEF Conditions!Init, Cond!Init, Conditions!ENABLE, Cond!ENABLE

\* The two instances of PthreadCond take the same steps ...
LEMMA ConditionStep == [Conditions!Next]_(Conditions!vars) => [Cond!Next]_(Cond!vars)
  BY ZenonT(60) DEF
    Conditions!Next, Cond!Next, Conditions!Internal, Cond!Internal,
    Conditions!External, Cond!External, Conditions!vars, Cond!vars,
    Conditions!condition, Cond!condition, Conditions!control, Cond!control,
    Conditions!frame, Cond!frame, Conditions!history, Cond!history, Conditions!ENABLE,
    Cond!ENABLE, Conditions!DISABLE, Cond!DISABLE, Conditions!Goto, Cond!Goto,
    Conditions!GateFree, Cond!GateFree, Conditions!Cardinality, Cond!Cardinality,
    Conditions!Pending, Cond!Pending, Conditions!Leaves, Cond!Leaves, Conditions!Exit,
    Cond!Exit, Conditions!Serves, Cond!Serves, Conditions!Registered, Cond!Registered,
    Conditions!Admitted, Cond!Admitted, Conditions!Waiting, Cond!Waiting,
    Conditions!begin, Cond!begin, Conditions!WaitUnlock, Cond!WaitUnlock,
    Conditions!Snapshot, Cond!Snapshot, Conditions!CheckPending, Cond!CheckPending,
    Conditions!CheckGeneration, Cond!CheckGeneration, Conditions!Park, Cond!Park,
    Conditions!Unpark, Cond!Unpark, Conditions!Relock, Cond!Relock, Conditions!Decide,
    Cond!Decide, Conditions!end, Cond!end, Conditions!Restore, Cond!Restore,
    Conditions!Notify, Cond!Notify, Conditions!NotifyWake, Cond!NotifyWake,
    Conditions!MutexLock, Cond!MutexLock, Conditions!MutexUnlock, Cond!MutexUnlock,
    Conditions!SetCancelState, Cond!SetCancelState, Conditions!CancelStore,
    Cond!CancelStore, Conditions!CancelNotify, Cond!CancelNotify, Conditions!wait,
    Cond!wait, Conditions!signal, Cond!signal, Conditions!TimedOut, Cond!TimedOut,
    Conditions!Interrupt, Cond!Interrupt, Conditions!destroy, Cond!destroy,
    Conditions!CondInit, Cond!CondInit

\* ... and mean the same by the two properties.
LEMMA ConditionClaims ==
    /\ Cond!SignalIsServed => Conditions!SignalIsServed
    /\ Cond!CancelEndsWait => Conditions!CancelEndsWait
  BY Zenon DEF
    Conditions!SignalIsServed, Cond!SignalIsServed, Conditions!CancelEndsWait,
    Cond!CancelEndsWait, Conditions!Quiescent, Cond!Quiescent, Conditions!Pending,
    Cond!Pending, Conditions!ENABLE, Cond!ENABLE

\* The invariant of PthreadCondProofs, of the behaviours that are about a condition.
ConditionInv == object = "condition" => Cond!IInv

LEMMA ConditionHolds == ASSUME Cond!Constants PROVE SpecAll => []ConditionInv
<1>1. InitAll => ConditionInv
  BY ConditionInit, Cond!InitIInv, Zenon DEF InitAll, ConditionInv
<1>2. ConditionInv /\ [NextAll]_allvars => ConditionInv'
  <2> SUFFICES ASSUME ConditionInv, [NextAll]_allvars, object' = "condition"
               PROVE  Cond!IInv'
    BY Zenon DEF ConditionInv
  <2>1. object = "condition"  BY Zenon DEF NextAll, allvars
  <2>2. [Cond!Next]_(Cond!vars)  BY <2>1, ConditionMoves, ConditionStep, Zenon
  <2> QED  BY <2>1, <2>2, Cond!StepIInv, Zenon DEF ConditionInv
<1> QED  BY <1>1, <1>2, PTL DEF SpecAll

\* Of every behaviour that is about a condition variable, for any number of threads
\* and calls: once everything has settled, no thread that a signal or a broadcast of
\* pthread_cond.rs was for still waits unserved.
THEOREM SignalsReachTheirAudience == ASSUME Cond!Constants PROVE SpecAll => []SignalIsServed
<1>1. ConditionInv => SignalIsServed
  BY Cond!ServedAtRest, ConditionClaims, Zenon DEF ConditionInv, SignalIsServed
<1> QED  BY <1>1, ConditionHolds, PTL

\* Of the same behaviours: once everything has settled nobody sleeps in a condition
\* wait over a cancel request of its own.
THEOREM CancelsReachSleepers == ASSUME Cond!Constants PROVE SpecAll => []CancelEndsWait
<1>1. ConditionInv => CancelEndsWait
  BY Cond!CanceledAtRest, ConditionClaims, Zenon DEF ConditionInv, CancelEndsWait
<1> QED  BY <1>1, ConditionHolds, PTL

-----------------------------------------------------------------------------
(* The semaphore.                                                              *)

\* A behaviour that began with a semaphore takes its steps only.
LEMMA SemaphoreMoves ==
    ASSUME [NextAll]_allvars, object = "semaphore"
    PROVE  [Semaphores!Next]_(Semaphores!vars)
  BY Zenon DEF NextAll, allvars, semaphore, Semaphores!vars, Semaphores!tokens,
               Semaphores!control, Semaphores!frame

LEMMA SemaphoreInit == Semaphores!Init => Sem!Init
  BY Zenon DEF Semaphores!Init, Sem!Init

\* The two instances of Semaphore take the same steps ...
LEMMA SemaphoreStep == [Semaphores!Next]_(Semaphores!vars) => [Sem!Next]_(Sem!vars)
  BY Zenon DEF
    Semaphores!tokens, Sem!tokens, Semaphores!control, Sem!control, Semaphores!frame,
    Sem!frame, Semaphores!vars, Sem!vars, Semaphores!InWait, Sem!InWait,
    Semaphores!Goto, Sem!Goto, Semaphores!PostToken, Sem!PostToken,
    Semaphores!PostWake, Sem!PostWake,
    Semaphores!TryWait, Sem!TryWait, Semaphores!Destroy, Sem!Destroy,
    Semaphores!SemInit, Sem!SemInit, Semaphores!CancelStore, Sem!CancelStore,
    Semaphores!CancelNotify, Sem!CancelNotify, Semaphores!Handler, Sem!Handler,
    Semaphores!wait, Sem!wait, Semaphores!Snapshot, Sem!Snapshot, Semaphores!Check,
    Sem!Check, Semaphores!Take, Sem!Take, Semaphores!Park, Sem!Park, Semaphores!Unpark,
    Sem!Unpark, Semaphores!TimedOut, Sem!TimedOut, Semaphores!Drop, Sem!Drop,
    Semaphores!Commit, Sem!Commit,
    Semaphores!Fail, Sem!Fail, Semaphores!Next, Sem!Next

\* ... and mean the same by the two properties.
LEMMA SemaphoreClaims ==
    /\ Sem!TokensAccounted => Semaphores!TokensAccounted
    /\ Sem!NoStrandedWaiter => Semaphores!NoStrandedWaiter
  BY Zenon DEF
    Semaphores!TokensAccounted, Sem!TokensAccounted, Semaphores!NoStrandedWaiter,
    Sem!NoStrandedWaiter, Semaphores!Quiescent, Sem!Quiescent,
    Semaphores!Cardinality, Sem!Cardinality

\* The invariant of SemaphoreProofs, of the behaviours that are about a semaphore.
SemaphoreInv == object = "semaphore" => Sem!IInv

LEMMA SemaphoreHolds == ASSUME Sem!Constants PROVE SpecAll => []SemaphoreInv
<1>1. InitAll => SemaphoreInv
  BY SemaphoreInit, Sem!InitIInv, Zenon DEF InitAll, SemaphoreInv
<1>2. SemaphoreInv /\ [NextAll]_allvars => SemaphoreInv'
  <2> SUFFICES ASSUME SemaphoreInv, [NextAll]_allvars, object' = "semaphore"
               PROVE  Sem!IInv'
    BY Zenon DEF SemaphoreInv
  <2>1. object = "semaphore"  BY Zenon DEF NextAll, allvars
  <2>2. [Sem!Next]_(Sem!vars)  BY <2>1, SemaphoreMoves, SemaphoreStep, Zenon
  <2> QED  BY <2>1, <2>2, Sem!StepIInv, Zenon DEF SemaphoreInv
<1> QED  BY <1>1, <1>2, PTL DEF SpecAll

\* Of every behaviour that is about a semaphore, for any number of threads, posts
\* and signals: no token of semaphore.rs is made or lost.
THEOREM NoTokenIsLost == ASSUME Sem!Constants PROVE SpecAll => []TokensAccounted
<1>1. SemaphoreInv => TokensAccounted
  BY Sem!TokensInOrder, SemaphoreClaims, Zenon DEF SemaphoreInv, TokensAccounted
<1> QED  BY <1>1, SemaphoreHolds, PTL

\* Of the same behaviours: at rest no thread sleeps beside a token, or over a cancel
\* or a signal of its own.
THEOREM NobodyIsStranded == ASSUME Sem!Constants PROVE SpecAll => []NoStrandedWaiter
<1>1. SemaphoreInv => NoStrandedWaiter
  BY Sem!AsleepAtRest, SemaphoreClaims, Zenon DEF SemaphoreInv, NoStrandedWaiter
<1> QED  BY <1>1, SemaphoreHolds, PTL
=============================================================================
