-------------------------- MODULE PthreadCondProofs --------------------------
(***************************************************************************)
(* SignalIsServed and CancelEndsWait of PthreadCond, for every finite set  *)
(* of threads and every bound on their calls.                              *)
(***************************************************************************)
EXTENDS PthreadCond, FiniteSetTheorems, TLAPS

\* What the theorems ask of the constants.
Constants ==
    /\ IsFiniteSet(Threads)
    /\ NoThread \notin Threads

Wakers == {"wakeOne", "wakeAll"}

Typed ==
    /\ generation \in Nat
    /\ gate \in Threads \union {NoThread}
    /\ pc \in [Threads -> PCs]
    /\ before \in [Threads -> Nat]
    /\ notification \in [Threads -> Nat]
    /\ multiplex_generation \in [Threads -> Nat]
    /\ cancel_pending \in [Threads -> BOOLEAN]
    /\ canceled \in [Threads -> BOOLEAN]
    /\ cancel_state \in [Threads -> {ENABLE, DISABLE}]
    /\ previous \in [Threads -> {ENABLE, DISABLE}]

\* waiters counts the threads between begin and end.
Counted == waiters = Cardinality(Registered)

\* The kernel's queue and the two histories hold threads that wait.
Inside ==
    /\ \A t \in parked : t \in Threads /\ pc[t] = "parked"
    /\ audience \union called \subseteq Registered

\* The gate is held across the wake, and nobody registers meanwhile: every
\* waiter then belongs to an earlier generation and cannot park.
Gated ==
    /\ \A t \in Threads : pc[t] \in Wakers => gate = t
    /\ gate # NoThread => /\ pc[gate] \in Wakers
                          /\ \A t \in Registered : before[t] < generation

\* A waiter is of this or an earlier generation; one that a signal or a
\* broadcast was for is of an earlier one.
Earlier ==
    /\ \A t \in Registered : before[t] <= generation
    /\ \A t \in audience \union called : before[t] < generation

\* A broadcast that a sleeper is owed has still to wake.
Broadcasting ==
    parked \intersect called # {} => gate # NoThread /\ pc[gate] = "wakeAll"

\* If somebody of the audience sleeps, then another one is on its way out of
\* the wait and will serve the signal or pass it on, or the wake has still to
\* come and will hit the audience.  A thread about to park does not count: its
\* deadline may pass.
Promised ==
    audience \intersect parked # {} =>
        \/ \E u \in audience : u \notin parked /\ pc[u] # "park"
        \/ gate # NoThread /\ parked \subseteq audience

\* A request that came after CheckPending is still to be notified, or has moved
\* the word that Park compares; a sleeper's is still to be notified.
Noted ==
    /\ \A t \in Threads : notification[t] <= multiplex_generation[t]
    /\ \A t \in Threads : pc[t] \in {"generation", "park"} /\ Pending(t) =>
         t \in canceling \/ notification[t] < multiplex_generation[t]
    /\ \A t \in parked : Pending(t) => t \in canceling

\* Where threads, queue and gate stand to each other.
Structure == Inside /\ Gated /\ Earlier
\* What is owed to the threads a signal or a broadcast was for.
Owed == Broadcasting /\ Promised
\* The inductive invariant.
IInv == Typed /\ Counted /\ Structure /\ Owed /\ Noted

USE DEF Goto, condition, control, frame, history, ENABLE, DISABLE

-----------------------------------------------------------------------------
LEMMA InitTyped == ASSUME Constants, Init PROVE Typed
  BY Zenon DEF Constants, Init, Typed, PCs, Waiting

LEMMA TypedStep ==
    ASSUME Constants, Typed, [Next]_vars
    PROVE  Typed'
<1> USE DEF Constants, Typed, PCs, Waiting
<1>1. ASSUME NEW t \in Threads, Internal(t) \/ External(t) PROVE Typed'
  <2>1. CASE begin(t)  BY <2>1 DEF begin, GateFree
  <2>2. CASE WaitUnlock(t)  BY <2>2, Zenon DEF WaitUnlock
  <2>3. CASE Snapshot(t)  BY <2>3, Zenon DEF Snapshot
  <2>4. CASE CheckPending(t)  BY <2>4, Zenon DEF CheckPending
  <2>5. CASE CheckGeneration(t)  BY <2>5, Zenon DEF CheckGeneration
  <2>6. CASE Park(t)  BY <2>6, Zenon DEF Park
  <2>7. CASE Unpark(t)  BY <2>7, Zenon DEF Unpark
  <2>8. CASE Relock(t)  BY <2>8, Zenon DEF Relock
  <2>9. CASE Decide(t)  BY <2>9, Zenon DEF Decide, Pending
  <2>10. CASE end(t)  BY <2>10, Zenon DEF end, GateFree, Serves
  <2>11. CASE Restore(t)  BY <2>11 DEF Restore, Exit
  <2>12. CASE Notify(t)  BY <2>12 DEF Notify, GateFree, Admitted
  <2>13. CASE NotifyWake(t)  BY <2>13, Zenon DEF NotifyWake
  <2>14. CASE MutexLock(t)  BY <2>14, Zenon DEF MutexLock
  <2>15. CASE MutexUnlock(t)  BY <2>15, Zenon DEF MutexUnlock
  <2>16. CASE SetCancelState(t)  BY <2>16, Zenon DEF SetCancelState
  <2>17. CASE CancelStore(t)  BY <2>17, Zenon DEF CancelStore
  <2>18. CASE CancelNotify(t)  BY <2>18 DEF CancelNotify
  <2>19. CASE wait(t)  BY <2>19, Zenon DEF wait, Exit
  <2>20. CASE signal(t)  BY <2>20, Zenon DEF signal
  <2>21. CASE TimedOut(t)  BY <2>21, Zenon DEF TimedOut, Leaves
  <2>22. CASE Interrupt(t)  BY <2>22, Zenon DEF Interrupt
  <2>23. CASE destroy(t)  BY <2>23, Zenon DEF destroy, GateFree
  <2>24. CASE CondInit(t)  BY <2>24, Zenon DEF CondInit
  <2> QED  BY Zenon, <1>1, <2>1, <2>2, <2>3, <2>4, <2>5, <2>6, <2>7, <2>8, <2>9, <2>10, <2>11,
              <2>12, <2>13, <2>14, <2>15, <2>16, <2>17, <2>18, <2>19, <2>20, <2>21, <2>22,
              <2>23, <2>24 DEF Internal, External
<1>2. CASE UNCHANGED vars  BY <1>2, Zenon DEF vars
<1> QED  BY <1>1, <1>2, ZenonT(60) DEF Next

-----------------------------------------------------------------------------
\* waiters counts the waiters: begin adds one, end takes one away.
LEMMA RegisteredFinite ==
    ASSUME Constants
    PROVE  IsFiniteSet(Registered) /\ Cardinality(Registered) \in Nat
<1>1. Registered \subseteq Threads  BY Zenon DEF Registered
<1>2. IsFiniteSet(Registered)  BY <1>1, FS_Subset, Zenon DEF Constants
<1> QED  BY <1>2, FS_CardinalityType, Zenon

LEMMA CountedStep ==
    ASSUME Constants, Typed, Counted, [Next]_vars
    PROVE  Counted'
<1> USE RegisteredFinite DEF Counted, Typed, PCs, Waiting
<1>0. pc' = pc => Registered' = Registered  BY Zenon DEF Registered
<1>1. ASSUME NEW t \in Threads, Internal(t) \/ External(t) PROVE Counted'
  <2>1. CASE begin(t)
    <3>1. CASE initialized
      <4>1. Registered' = Registered \union {t} /\ t \notin Registered
        BY <2>1, <3>1 DEF begin, Registered
      <4>2. Cardinality(Registered') = Cardinality(Registered) + 1  BY <4>1, FS_AddElement, Zenon
      <4> QED  BY <2>1, <3>1, <4>2, Zenon DEF begin
    <3>2. CASE ~initialized
      <4>1. Registered' = Registered  BY <2>1, <3>2 DEF begin, Registered
      <4> QED  BY <2>1, <3>2, <4>1, Zenon DEF begin
    <3> QED  BY <3>1, <3>2, Zenon
  <2>2. CASE WaitUnlock(t)
    <3>1. Registered' = Registered  BY <2>2, Zenon DEF WaitUnlock, Registered
    <3> QED  BY <2>2, <3>1, Zenon DEF WaitUnlock
  <2>3. CASE Snapshot(t)
    <3>1. Registered' = Registered  BY <2>3, Zenon DEF Snapshot, Registered
    <3> QED  BY <2>3, <3>1, Zenon DEF Snapshot
  <2>4. CASE CheckPending(t)
    <3>1. Registered' = Registered  BY <2>4, Zenon DEF CheckPending, Registered
    <3> QED  BY <2>4, <3>1, Zenon DEF CheckPending
  <2>5. CASE CheckGeneration(t)
    <3>1. Registered' = Registered  BY <2>5, Zenon DEF CheckGeneration, Registered
    <3> QED  BY <2>5, <3>1, Zenon DEF CheckGeneration
  <2>6. CASE Park(t)
    <3>1. Registered' = Registered  BY <2>6, Zenon DEF Park, Registered
    <3> QED  BY <2>6, <3>1, Zenon DEF Park
  <2>7. CASE Unpark(t)
    <3>1. Registered' = Registered  BY <2>7, Zenon DEF Unpark, Registered
    <3> QED  BY <2>7, <3>1, Zenon DEF Unpark
  <2>8. CASE Relock(t)
    <3>1. Registered' = Registered  BY <2>8, Zenon DEF Relock, Registered
    <3> QED  BY <2>8, <3>1, Zenon DEF Relock
  <2>9. CASE Decide(t)
    <3>1. Registered' = Registered  BY <2>9, Zenon DEF Decide, Registered, Pending
    <3> QED  BY <2>9, <3>1, Zenon DEF Decide, Pending
  <2>10. CASE end(t)
    <3>1. Registered' = Registered \ {t} /\ t \in Registered  BY <2>10, Zenon DEF end, Registered
    <3>2. Cardinality(Registered') = Cardinality(Registered) - 1  BY <3>1, FS_RemoveElement, Zenon
    <3> QED  BY <2>10, <3>2, Zenon DEF end
  <2>11. CASE Restore(t)
    <3>1. Registered' = Registered  BY <2>11 DEF Restore, Registered, Exit
    <3> QED  BY <2>11, <3>1, Zenon DEF Restore, Exit
  <2>12. CASE Notify(t)
    <3>1. Registered' = Registered  BY <2>12 DEF Notify, Registered, GateFree, Admitted
    <3> QED  BY <2>12, <3>1, Zenon DEF Notify, GateFree, Admitted
  <2>13. CASE NotifyWake(t)
    <3>1. Registered' = Registered  BY <2>13, Zenon DEF NotifyWake, Registered
    <3> QED  BY <2>13, <3>1, Zenon DEF NotifyWake
  <2>14. CASE MutexLock(t)  BY <1>0, <2>14, Zenon DEF MutexLock
  <2>15. CASE MutexUnlock(t)  BY <1>0, <2>15, Zenon DEF MutexUnlock
  <2>16. CASE SetCancelState(t)  BY <1>0, <2>16, Zenon DEF SetCancelState
  <2>17. CASE CancelStore(t)  BY <1>0, <2>17, Zenon DEF CancelStore
  <2>18. CASE CancelNotify(t)  BY <1>0, <2>18, Zenon DEF CancelNotify
  <2>19. CASE wait(t)
    <3>1. Registered' = Registered  BY <2>19 DEF wait, Registered, Exit
    <3> QED  BY <2>19, <3>1, Zenon DEF wait, Exit
  <2>20. CASE signal(t)
    <3>1. Registered' = Registered  BY <2>20, Zenon DEF signal, Registered
    <3> QED  BY <2>20, <3>1, Zenon DEF signal
  <2>21. CASE TimedOut(t)
    <3>1. Registered' = Registered  BY <2>21, Zenon DEF TimedOut, Registered, Leaves
    <3> QED  BY <2>21, <3>1, Zenon DEF TimedOut, Leaves
  <2>22. CASE Interrupt(t)  BY <1>0, <2>22, Zenon DEF Interrupt
  <2>23. CASE destroy(t)  BY <1>0, <2>23, Zenon DEF destroy, GateFree
  <2>24. CASE CondInit(t)  BY <1>0, <2>24, Zenon DEF CondInit
  <2> QED  BY <1>1, <2>1, <2>2, <2>3, <2>4, <2>5, <2>6, <2>7, <2>8, <2>9, <2>10, <2>11,
              <2>12, <2>13, <2>14, <2>15, <2>16, <2>17, <2>18, <2>19, <2>20, <2>21, <2>22,
              <2>23, <2>24, Zenon DEF Internal, External
<1>2. CASE UNCHANGED vars  BY <1>0, <1>2, Zenon DEF vars
<1> QED  BY <1>1, <1>2, Zenon DEF Next

\* A thread that leaves as the last waiter leaves nobody behind.
LEMMA LastWaiter ==
    ASSUME Constants, Counted, NEW t \in Registered, ~(waiters > 1)
    PROVE  Registered = {t}
<1>1. SUFFICES ASSUME NEW u \in Registered, u # t PROVE FALSE  BY Zenon
<1>2. {t, u} \subseteq Registered  BY <1>1, Zenon
<1>3. Cardinality({t, u}) <= Cardinality(Registered)  BY <1>2, RegisteredFinite, FS_Subset, Zenon
<1>4. Cardinality({t}) = 1 /\ IsFiniteSet({t})  BY FS_Singleton, Zenon
<1>5. Cardinality({t} \union {u}) = 2  BY <1>1, <1>4, FS_AddElement
<1>6. {t, u} = {t} \union {u}  BY Zenon
<1> QED  BY <1>3, <1>5, <1>6, RegisteredFinite DEF Counted

-----------------------------------------------------------------------------
LEMMA StructureStep ==
    ASSUME Constants, Typed, Structure, [Next]_vars
    PROVE  Structure'
<1> USE DEF Constants, Typed, PCs, Waiting, Inside, Gated, Earlier, Wakers, Registered, Structure
<1>1. ASSUME NEW t \in Threads, Internal(t) \/ External(t) PROVE Structure'
  <2>1. CASE begin(t)  BY <2>1 DEF begin, GateFree
  <2>2. CASE WaitUnlock(t)  BY <2>2 DEF WaitUnlock
  <2>3. CASE Snapshot(t)  BY <2>3 DEF Snapshot
  <2>4. CASE CheckPending(t)  BY <2>4 DEF CheckPending
  <2>5. CASE CheckGeneration(t)  BY <2>5 DEF CheckGeneration
  <2>6. CASE Park(t)  BY <2>6 DEF Park
  <2>7. CASE Unpark(t)  BY <2>7 DEF Unpark
  <2>8. CASE Relock(t)  BY <2>8 DEF Relock
  <2>9. CASE Decide(t)  BY <2>9 DEF Decide, Pending
  <2>10. CASE end(t)  BY <2>10 DEF end, GateFree, Serves
  <2>11. CASE Restore(t)  BY <2>11 DEF Restore, Exit
  <2>12. CASE Notify(t)  BY <2>12 DEF Notify, GateFree, Admitted
  <2>13. CASE NotifyWake(t)  BY <2>13 DEF NotifyWake
  <2>14. CASE MutexLock(t)  BY <2>14, Zenon DEF MutexLock
  <2>15. CASE MutexUnlock(t)  BY <2>15, Zenon DEF MutexUnlock
  <2>16. CASE SetCancelState(t)  BY <2>16, Zenon DEF SetCancelState
  <2>17. CASE CancelStore(t)  BY <2>17, Zenon DEF CancelStore
  <2>18. CASE CancelNotify(t)  BY <2>18, Zenon DEF CancelNotify
  <2>19. CASE wait(t)  BY <2>19 DEF wait, Exit
  <2>20. CASE signal(t)  BY <2>20 DEF signal
  <2>21. CASE TimedOut(t)  BY <2>21 DEF TimedOut, Leaves
  <2>22. CASE Interrupt(t)  BY <2>22, Zenon DEF Interrupt
  <2>23. CASE destroy(t)  BY <2>23, Zenon DEF destroy, GateFree
  <2>24. CASE CondInit(t)  BY <2>24 DEF CondInit
  <2> QED  BY <1>1, <2>1, <2>2, <2>3, <2>4, <2>5, <2>6, <2>7, <2>8, <2>9, <2>10, <2>11,
              <2>12, <2>13, <2>14, <2>15, <2>16, <2>17, <2>18, <2>19, <2>20, <2>21, <2>22,
              <2>23, <2>24, Zenon DEF Internal, External
<1>2. CASE UNCHANGED vars  BY <1>2, Zenon DEF vars
<1> QED  BY <1>1, <1>2, Zenon DEF Next

LEMMA OwedStep ==
    ASSUME Constants, Typed, Counted, Structure, Owed, [Next]_vars
    PROVE  Owed'
<1> USE DEF Constants, Typed, PCs, Waiting, Inside, Gated, Earlier, Wakers, Registered,
        Structure, Owed, Broadcasting, Promised
<1>1. ASSUME NEW t \in Threads, Internal(t) \/ External(t) PROVE Owed'
  <2>1. CASE begin(t)  BY <2>1 DEF begin, GateFree
  <2>2. CASE WaitUnlock(t)  BY <2>2 DEF WaitUnlock
  <2>3. CASE Snapshot(t)  BY <2>3 DEF Snapshot
  <2>4. CASE CheckPending(t)  BY <2>4 DEF CheckPending
  <2>5. CASE CheckGeneration(t)  BY <2>5 DEF CheckGeneration
  <2>6. CASE Park(t)  BY <2>6 DEF Park
  <2>7. CASE Unpark(t)  BY <2>7, Zenon DEF Unpark
  <2>8. CASE Relock(t)  BY <2>8 DEF Relock
  <2>9. CASE Decide(t)  BY <2>9 DEF Decide, Pending
  <2>10. CASE end(t)
    <3>1. t \in Registered  BY <2>10, Zenon DEF end
    <3>2. CASE waiters > 1  BY <2>10, <3>2 DEF end, GateFree, Serves
    <3>3. CASE ~(waiters > 1)
      <4>1. Registered = {t}  BY <3>1, <3>3, LastWaiter, Zenon
      <4>2. audience' = {} /\ called' = {}  BY <2>10, <4>1 DEF end, Serves
      <4> QED  BY <4>2, Zenon
    <3> QED  BY <3>2, <3>3, Zenon
  <2>11. CASE Restore(t)  BY <2>11 DEF Restore, Exit
  <2>12. CASE Notify(t)  BY <2>12 DEF Notify, GateFree, Admitted
  <2>13. CASE NotifyWake(t)  BY <2>13 DEF NotifyWake
  <2>14. CASE MutexLock(t)  BY <2>14, Zenon DEF MutexLock
  <2>15. CASE MutexUnlock(t)  BY <2>15, Zenon DEF MutexUnlock
  <2>16. CASE SetCancelState(t)  BY <2>16, Zenon DEF SetCancelState
  <2>17. CASE CancelStore(t)  BY <2>17, Zenon DEF CancelStore
  <2>18. CASE CancelNotify(t)  BY <2>18 DEF CancelNotify
  <2>19. CASE wait(t)  BY <2>19 DEF wait, Exit
  <2>20. CASE signal(t)  BY <2>20 DEF signal
  <2>21. CASE TimedOut(t)  BY <2>21 DEF TimedOut, Leaves
  <2>22. CASE Interrupt(t)  BY <2>22 DEF Interrupt
  <2>23. CASE destroy(t)  BY <2>23, Zenon DEF destroy, GateFree
  <2>24. CASE CondInit(t)  BY <2>24, Zenon DEF CondInit
  <2> QED  BY <1>1, <2>1, <2>2, <2>3, <2>4, <2>5, <2>6, <2>7, <2>8, <2>9, <2>10, <2>11,
              <2>12, <2>13, <2>14, <2>15, <2>16, <2>17, <2>18, <2>19, <2>20, <2>21, <2>22,
              <2>23, <2>24, Zenon DEF Internal, External
<1>2. CASE UNCHANGED vars  BY <1>2, Zenon DEF vars
<1> QED  BY <1>1, <1>2, Zenon DEF Next

LEMMA NotedStep ==
    ASSUME Constants, Typed, Inside, Noted, [Next]_vars
    PROVE  Noted'
<1> USE DEF Constants, Typed, PCs, Waiting, Inside, Noted, Pending
<1>1. ASSUME NEW t \in Threads, Internal(t) \/ External(t) PROVE Noted'
  <2>1. CASE begin(t)  BY <2>1 DEF begin, GateFree
  <2>2. CASE WaitUnlock(t)  BY <2>2, Zenon DEF WaitUnlock
  <2>3. CASE Snapshot(t)  BY <2>3 DEF Snapshot
  <2>4. CASE CheckPending(t)  BY <2>4 DEF CheckPending
  <2>5. CASE CheckGeneration(t)  BY <2>5, Zenon DEF CheckGeneration
  <2>6. CASE Park(t)  BY <2>6 DEF Park
  <2>7. CASE Unpark(t)  BY <2>7, Zenon DEF Unpark
  <2>8. CASE Relock(t)  BY <2>8, Zenon DEF Relock
  <2>9. CASE Decide(t)  BY <2>9, Zenon DEF Decide, Pending
  <2>10. CASE end(t)  BY <2>10, Zenon DEF end, GateFree, Serves
  <2>11. CASE Restore(t)  BY <2>11 DEF Restore, Exit
  <2>12. CASE Notify(t)  BY <2>12 DEF Notify, GateFree, Admitted
  <2>13. CASE NotifyWake(t)  BY <2>13 DEF NotifyWake
  <2>14. CASE MutexLock(t)  BY <2>14, Zenon DEF MutexLock
  <2>15. CASE MutexUnlock(t)  BY <2>15, Zenon DEF MutexUnlock
  <2>16. CASE SetCancelState(t)  BY <2>16, Zenon DEF SetCancelState
  <2>17. CASE CancelStore(t)  BY <2>17, Zenon DEF CancelStore
  <2>18. CASE CancelNotify(t)  BY <2>18 DEF CancelNotify
  <2>19. CASE wait(t)  BY <2>19 DEF wait, Exit
  <2>20. CASE signal(t)  BY <2>20 DEF signal
  <2>21. CASE TimedOut(t)  BY <2>21, Zenon DEF TimedOut, Leaves
  <2>22. CASE Interrupt(t)  BY <2>22, Zenon DEF Interrupt
  <2>23. CASE destroy(t)  BY <2>23, Zenon DEF destroy, GateFree
  <2>24. CASE CondInit(t)  BY <2>24, Zenon DEF CondInit
  <2> QED  BY Zenon, <1>1, <2>1, <2>2, <2>3, <2>4, <2>5, <2>6, <2>7, <2>8, <2>9, <2>10, <2>11,
              <2>12, <2>13, <2>14, <2>15, <2>16, <2>17, <2>18, <2>19, <2>20, <2>21, <2>22,
              <2>23, <2>24 DEF Internal, External
<1>2. CASE UNCHANGED vars  BY <1>2, Zenon DEF vars
<1> QED  BY <1>1, <1>2, ZenonT(60) DEF Next

-----------------------------------------------------------------------------
LEMMA InitIInv == ASSUME Constants, Init PROVE IInv
<1>1. Typed  BY InitTyped, Zenon
<1>2. Registered = {}  BY Zenon DEF Init, Registered, Waiting
<1>3. Counted  BY <1>2, FS_EmptySet, Zenon DEF Init, Counted
<1>4. Structure  BY <1>2, Zenon DEF Init, Structure, Inside, Gated, Earlier, Wakers
<1>5. Owed /\ Noted  BY DEF Init, Owed, Broadcasting, Promised, Noted
<1> QED  BY <1>1, <1>3, <1>4, <1>5, Zenon DEF IInv

\* Every step of pthread_cond.rs keeps the whole of the invariant.
LEMMA StepIInv == ASSUME Constants, IInv, [Next]_vars PROVE IInv'
  BY TypedStep, CountedStep, StructureStep, OwedStep, NotedStep, Zenon DEF IInv, Structure

\* The invariant answers for the signals: at rest nobody is in a call any more, so
\* nobody can owe a wakeup to the thread of the audience that would still wait.
LEMMA ServedAtRest == ASSUME IInv PROVE SignalIsServed
<1> SUFFICES ASSUME Quiescent PROVE audience = {} /\ called = {}
  BY Zenon DEF SignalIsServed
<1>1. \A t \in Registered : t \in parked  BY Zenon DEF Quiescent, Registered, Waiting
<1>2. gate = NoThread
  BY Zenon DEF IInv, Typed, Structure, Gated, Inside, Wakers, Quiescent
<1> QED  BY <1>1, <1>2, Zenon DEF IInv, Structure, Inside, Owed, Broadcasting, Promised

\* The invariant answers for the cancels: a pending cancel has notified its thread,
\* and a notified thread is not parked at rest.
LEMMA CanceledAtRest == ASSUME IInv PROVE CancelEndsWait
  BY Zenon DEF IInv, Noted, CancelEndsWait, Quiescent

\* IInv is an inductive invariant of the condition variable.
THEOREM Invariance == ASSUME Constants PROVE Spec => []IInv
<1>1. Init => IInv  BY InitIInv, Zenon
<1>2. IInv /\ [Next]_vars => IInv'  BY StepIInv, Zenon
<1> QED  BY <1>1, <1>2, PTL DEF Spec

\* For any number of threads, signals, broadcasts, time-outs, cancels and
\* interrupts: once everything has settled, no thread that a signal or a broadcast
\* of pthread_cond.rs was for still waits unserved.
THEOREM SignalsReachTheirAudience == ASSUME Constants PROVE Spec => []SignalIsServed
<1>1. IInv => SignalIsServed  BY ServedAtRest, Zenon
<1> QED  BY <1>1, Invariance, PTL

\* For any number of threads: once everything has settled nobody sleeps in a
\* condition wait over a cancel request of its own.
THEOREM CancelsReachSleepers == ASSUME Constants PROVE Spec => []CancelEndsWait
<1>1. IInv => CancelEndsWait  BY CanceledAtRest, Zenon
<1> QED  BY <1>1, Invariance, PTL
==============================================================================
