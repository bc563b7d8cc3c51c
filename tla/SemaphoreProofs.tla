--------------------------- MODULE SemaphoreProofs ---------------------------
(***************************************************************************)
(* Proofs about Semaphore for every finite set of threads, every maximum   *)
(* of the count and any number of posts, signals and cancels.              *)
(***************************************************************************)
EXTENDS Semaphore, FiniteSetTheorems, TLAPS

\* What the theorems assume of the constants.
Constants == IsFiniteSet(Threads) /\ VALUE_MAX \in Nat

Committed == {t \in Threads : pc[t] = "commit"}

PCs == InWait \union {"idle", "exited"}

Typed ==
    /\ count \in Nat /\ start \in Nat /\ posted \in Nat /\ returned \in Nat /\ wakes \in Nat
    /\ initialized \in BOOLEAN
    /\ cancel_pending \in [Threads -> BOOLEAN]
    /\ canceling \subseteq Threads
    /\ multiplex_generation \in [Threads -> Nat]
    /\ signal_generation \in [Threads -> Nat]
    /\ pc \in [Threads -> PCs]
    /\ caught \in [Threads -> Nat]
    /\ notification \in [Threads -> Nat]
    /\ parked \subseteq Threads

\* A destroyed semaphore has no waiter.
UnusedWhenDestroyed == ~initialized => wakes = 0 /\ \A t \in Threads : pc[t] \notin InWait

\* The kernel holds only threads inside its wait, with the notification they read.
ParkedUnnotified ==
    \A t \in parked : pc[t] = "parked" /\ notification[t] = multiplex_generation[t]

\* Past its checks a wait has no reason to end that it will not be told of: what came
\* later has moved, or is about to move, the word it compares.
Watching(t) == pc[t] \in {"take", "park"} \/ t \in parked
ReasonsAreNotified ==
    \A t \in Threads :
        /\ notification[t] <= multiplex_generation[t]
        /\ Watching(t) /\ notification[t] = multiplex_generation[t] =>
              /\ cancel_pending[t] => t \in canceling
              /\ signal_generation[t] = caught[t]

\* A token beside a sleeper has its broadcast still to come.
TokensAreAnnounced == parked # {} => count = 0 \/ wakes > 0

Waiting ==
    UnusedWhenDestroyed /\ ParkedUnnotified /\ ReasonsAreNotified /\ TokensAreAnnounced

\* TokensAccounted, with the committed threads named.
Accounted == count + returned + Cardinality(Committed) = start + posted

\* The steps of a thread, in the order of Next.
ThreadStep(t) ==
    \/ Snapshot(t) \/ Check(t) \/ Take(t) \/ Park(t) \/ Unpark(t) \/ Commit(t) \/ Fail(t)
    \/ TryWait(t) \/ wait(t) \/ CancelStore(t) \/ CancelNotify(t) \/ Handler(t) \/ TimedOut(t)

USE DEF Goto, tokens, control, frame, Drop, InWait

-----------------------------------------------------------------------------
LEMMA NextSplit ==
    Next => \/ PostToken \/ PostWake \/ Destroy \/ SemInit
            \/ \E t \in Threads : ThreadStep(t)
  BY Zenon DEF Next, ThreadStep

LEMMA InitTyped == ASSUME Constants, Init PROVE Typed
  BY DEF Constants, Init, Typed, PCs

LEMMA TypedStep == ASSUME Constants, Typed, [Next]_vars PROVE Typed'
<1> USE DEF Constants, Typed, PCs
<1>1. CASE PostToken  BY <1>1 DEF PostToken
<1>2. CASE PostWake  BY <1>2 DEF PostWake
<1>3. CASE Destroy  BY <1>3, Zenon DEF Destroy
<1>4. CASE SemInit  BY <1>4 DEF SemInit
<1>5. ASSUME NEW t \in Threads PROVE ThreadStep(t) => Typed'
  <2>1. CASE Snapshot(t)  BY <2>1, Zenon DEF Snapshot
  <2>2. CASE Check(t)  BY <2>2, Zenon DEF Check
  <2>3. CASE Take(t)  BY <2>3 DEF Take
  <2>4. CASE Park(t)  BY <2>4, Zenon DEF Park
  <2>5. CASE Unpark(t)  BY <2>5, Zenon DEF Unpark
  <2>6. CASE Commit(t)  BY <2>6 DEF Commit
  <2>7. CASE Fail(t)  BY <2>7, Zenon DEF Fail
  <2>8. CASE TryWait(t)  BY <2>8 DEF TryWait
  <2>9. CASE wait(t)  BY <2>9, Zenon DEF wait
  <2>10. CASE CancelStore(t)  BY <2>10, Zenon DEF CancelStore
  <2>11. CASE CancelNotify(t)  BY <2>11 DEF CancelNotify
  <2>12. CASE Handler(t)  BY <2>12 DEF Handler
  <2>13. CASE TimedOut(t)  BY <2>13, Zenon DEF TimedOut
  <2> QED  BY <2>1, <2>2, <2>3, <2>4, <2>5, <2>6, <2>7, <2>8, <2>9, <2>10, <2>11, <2>12,
              <2>13, Zenon DEF ThreadStep
<1>6. CASE UNCHANGED vars  BY <1>6, Zenon DEF vars
<1> QED  BY <1>1, <1>2, <1>3, <1>4, <1>5, <1>6, NextSplit, Zenon

-----------------------------------------------------------------------------
LEMMA CommittedFinite ==
    ASSUME Constants
    PROVE  IsFiniteSet(Committed) /\ Cardinality(Committed) \in Nat
<1>1. Committed \subseteq Threads  BY Zenon DEF Committed
<1>2. IsFiniteSet(Committed)  BY <1>1, FS_Subset, Zenon DEF Constants
<1> QED  BY <1>2, FS_CardinalityType, Zenon

LEMMA AccountedStep ==
    ASSUME Constants, Typed, UnusedWhenDestroyed, Accounted, [Next]_vars
    PROVE  Accounted'
<1> USE CommittedFinite DEF Accounted, Typed
<1>0. pc' = pc => Committed' = Committed  BY Zenon DEF Committed
<1>1. CASE PostToken  BY <1>0, <1>1 DEF PostToken
<1>2. CASE PostWake  BY <1>0, <1>2, Zenon DEF PostWake
<1>3. CASE Destroy  BY <1>0, <1>3, Zenon DEF Destroy
<1>4. CASE SemInit
  <2>1. Committed = {}  BY <1>4, Zenon DEF SemInit, UnusedWhenDestroyed, Committed
  <2>2. Cardinality(Committed') = 0  BY <1>0, <1>4, <2>1, FS_EmptySet, Zenon DEF SemInit
  <2>3. count' \in Nat  BY <1>4 DEF SemInit, Constants
  <2> QED  BY <1>4, <2>2, <2>3 DEF SemInit
<1>5. ASSUME NEW t \in Threads PROVE ThreadStep(t) => Accounted'
  <2>1. CASE Snapshot(t)
    <3>1. Committed' = Committed  BY <2>1, Zenon DEF Snapshot, Committed
    <3> QED  BY <2>1, <3>1, Zenon DEF Snapshot
  <2>2. CASE Check(t)
    <3>1. Committed' = Committed  BY <2>2, Zenon DEF Check, Committed
    <3> QED  BY <2>2, <3>1, Zenon DEF Check
  <2>3. CASE Take(t) /\ count > 0
    <3>1. Committed' = Committed \union {t} /\ t \notin Committed
      BY <2>3, Zenon DEF Take, Committed
    <3>2. Cardinality(Committed') = Cardinality(Committed) + 1  BY <3>1, FS_AddElement, Zenon
    <3> QED  BY <2>3, <3>2 DEF Take
  <2>14. CASE Take(t) /\ ~(count > 0)
    <3>1. Committed' = Committed  BY <2>14, Zenon DEF Take, Committed
    <3> QED  BY <2>14, <3>1, Zenon DEF Take
  <2>4. CASE Park(t)
    <3>1. Committed' = Committed  BY <2>4, Zenon DEF Park, Committed
    <3> QED  BY <2>4, <3>1, Zenon DEF Park
  <2>5. CASE Unpark(t)
    <3>1. Committed' = Committed  BY <2>5, Zenon DEF Unpark, Committed
    <3> QED  BY <2>5, <3>1, Zenon DEF Unpark
  <2>6. CASE Commit(t)
    <3>1. Committed' = Committed \ {t} /\ t \in Committed  BY <2>6, Zenon DEF Commit, Committed
    <3>2. Cardinality(Committed') = Cardinality(Committed) - 1  BY <3>1, FS_RemoveElement, Zenon
    <3> QED  BY <2>6, <3>2 DEF Commit
  <2>7. CASE Fail(t)
    <3>1. Committed' = Committed  BY <2>7, Zenon DEF Fail, Committed
    <3> QED  BY <2>7, <3>1, Zenon DEF Fail
  <2>8. CASE TryWait(t)  BY <1>0, <2>8 DEF TryWait
  <2>9. CASE wait(t)
    <3>1. Committed' = Committed  BY <2>9, Zenon DEF wait, Committed
    <3> QED  BY <2>9, <3>1, Zenon DEF wait
  <2>10. CASE CancelStore(t)  BY <1>0, <2>10, Zenon DEF CancelStore
  <2>11. CASE CancelNotify(t)  BY <1>0, <2>11, Zenon DEF CancelNotify
  <2>12. CASE Handler(t)  BY <1>0, <2>12, Zenon DEF Handler
  <2>13. CASE TimedOut(t)
    <3>1. Committed' = Committed  BY <2>13, Zenon DEF TimedOut, Committed
    <3> QED  BY <2>13, <3>1, Zenon DEF TimedOut
  <2> QED  BY <2>1, <2>2, <2>3, <2>4, <2>5, <2>6, <2>7, <2>8, <2>9, <2>10, <2>11, <2>12,
              <2>13, <2>14, Zenon DEF ThreadStep
<1>6. CASE UNCHANGED vars  BY <1>0, <1>6, Zenon DEF vars
<1> QED  BY <1>1, <1>2, <1>3, <1>4, <1>5, <1>6, NextSplit, Zenon

-----------------------------------------------------------------------------
LEMMA WaitingStep == ASSUME Typed, Waiting, [Next]_vars PROVE Waiting'
<1> USE DEF Typed, Waiting, UnusedWhenDestroyed, ParkedUnnotified, ReasonsAreNotified,
        TokensAreAnnounced, Watching
<1>1. CASE PostToken  BY <1>1 DEF PostToken
<1>2. CASE PostWake  BY <1>2 DEF PostWake
<1>3. CASE Destroy  BY <1>3, Zenon DEF Destroy
<1>4. CASE SemInit  BY <1>4, Zenon DEF SemInit
<1>5. ASSUME NEW t \in Threads PROVE ThreadStep(t) => Waiting'
  <2>1. CASE Snapshot(t)  BY <2>1 DEF Snapshot
  <2>2. CASE Check(t)  BY <2>2, Zenon DEF Check
  <2>3. CASE Take(t)  BY <2>3 DEF Take
  <2>4. CASE Park(t)  BY <2>4 DEF Park
  <2>5. CASE Unpark(t)  BY <2>5, Zenon DEF Unpark
  <2>6. CASE Commit(t)  BY <2>6 DEF Commit
  <2>7. CASE Fail(t)  BY <2>7 DEF Fail
  <2>8. CASE TryWait(t)  BY <2>8 DEF TryWait
  <2>9. CASE wait(t)  BY <2>9 DEF wait
  <2>10. CASE CancelStore(t)  BY <2>10, Zenon DEF CancelStore
  <2>11. CASE CancelNotify(t)  BY <2>11 DEF CancelNotify
  <2>12. CASE Handler(t)  BY <2>12 DEF Handler
  <2>13. CASE TimedOut(t)  BY <2>13, Zenon DEF TimedOut
  <2> QED  BY <2>1, <2>2, <2>3, <2>4, <2>5, <2>6, <2>7, <2>8, <2>9, <2>10, <2>11, <2>12,
              <2>13, Zenon DEF ThreadStep
<1>6. CASE UNCHANGED vars  BY <1>6, Zenon DEF vars
<1> QED  BY <1>1, <1>2, <1>3, <1>4, <1>5, <1>6, NextSplit, Zenon

-----------------------------------------------------------------------------
IInv == Typed /\ Waiting /\ Accounted

LEMMA InitIInv == ASSUME Constants, Init PROVE IInv
<1>1. Typed  BY InitTyped, Zenon
<1>2. Waiting
  BY DEF Init, Waiting, UnusedWhenDestroyed, ParkedUnnotified, ReasonsAreNotified,
         TokensAreAnnounced, Watching
<1>3. Committed = {}  BY Zenon DEF Init, Committed
<1>4. Accounted  BY <1>1, <1>3, FS_EmptySet DEF Init, Accounted, Typed
<1> QED  BY <1>1, <1>2, <1>4, Zenon DEF IInv

\* Every step of semaphore.rs keeps the whole of the invariant.
LEMMA StepIInv == ASSUME Constants, IInv, [Next]_vars PROVE IInv'
  BY TypedStep, WaitingStep, AccountedStep, Zenon DEF IInv, Waiting

\* The invariant answers for the tokens ...
LEMMA TokensInOrder == ASSUME IInv PROVE TokensAccounted
  BY Zenon DEF IInv, Accounted, TokensAccounted, Committed

\* ... and for the sleepers: at rest a thread that is parked has nothing to wake for.
LEMMA AsleepAtRest == ASSUME IInv PROVE NoStrandedWaiter
  BY DEF IInv, Typed, Waiting, ParkedUnnotified, ReasonsAreNotified, TokensAreAnnounced,
         Watching, NoStrandedWaiter, Quiescent

\* IInv is an inductive invariant of the semaphore.
THEOREM Invariance == ASSUME Constants PROVE Spec => []IInv
<1>1. Init => IInv  BY InitIInv, Zenon
<1>2. IInv /\ [Next]_vars => IInv'  BY StepIInv, Zenon
<1> QED  BY <1>1, <1>2, PTL DEF Spec

\* No token is made or lost, whatever posts, waits, time-outs, cancels and handlers
\* interleave, for any number of threads.
THEOREM NoTokenIsLost == ASSUME Constants PROVE Spec => []TokensAccounted
<1>1. IInv => TokensAccounted  BY TokensInOrder, Zenon
<1> QED  BY <1>1, Invariance, PTL

\* At rest no thread sleeps beside a token, or over a cancel or a signal of its own.
THEOREM NobodyIsStranded == ASSUME Constants PROVE Spec => []NoStrandedWaiter
<1>1. IInv => NoStrandedWaiter  BY AsleepAtRest, Zenon
<1> QED  BY <1>1, Invariance, PTL
=============================================================================
