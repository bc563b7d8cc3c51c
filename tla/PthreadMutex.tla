---------------------------- MODULE PthreadMutex ----------------------------
(***************************************************************************)
(* The POSIX mutex of crates/posix-client/src/pthread_mutex.rs under the   *)
(* wait and wake loops of crates/newlib-runtime/src/pthread_mutex.rs.      *)
(*                                                                         *)
(* One step is one access to the shared words; a thread's program counter  *)
(* names the access it makes next.  `sleeping` is the kernel's queue of    *)
(* threads parked on the state word (WaitOnAddress), `selected` the ones a *)
(* WakeAddress has removed from it that have not returned yet.             *)
(***************************************************************************)
EXTENDS Integers, FiniteSets

CONSTANTS
    Threads,        \* native thread identifiers
    NoOwner,        \* the owner word when it holds 0
    Kinds,          \* the mutex kinds explored
    MaxDepth,       \* stands for u32::MAX, the largest recursion depth
    LostSelection   \* may a wait that consumed a wake still report a failure?

NORMAL == "NORMAL"
RECURSIVE_KIND == "RECURSIVE"
ERRORCHECK == "ERRORCHECK"
DEFAULT == "DEFAULT"

ASSUME ThreadsFinite == IsFiniteSet(Threads)
ASSUME NoOwnerFresh == NoOwner \notin Threads
ASSUME KindsKnown == Kinds \subseteq {NORMAL, RECURSIVE_KIND, ERRORCHECK, DEFAULT}
ASSUME MaxDepthPositive == MaxDepth \in Nat \ {0}
ASSUME LostSelectionBoolean == LostSelection \in BOOLEAN

VARIABLES
    state,        \* 0 free, 1 locked, 2 locked and perhaps awaited
    kind,
    owner,
    depth,
    initialized,
    waiters,      \* callers counted on the slow path
    pc,
    sleeping,
    selected

word == <<kind, owner, depth, initialized>>
kernel == <<sleeping, selected>>
vars == <<state, kind, owner, depth, initialized, waiters, pc, sleeping, selected>>

\* A thread on the slow path keeps its registration in `waiters`.
Registered == {"swap", "wait", "asleep", "failed", "handoff", "acquiredSlow", "unregister"}

PCs == {"idle", "cas", "trycas", "acquired", "register", "unlockSwap", "unlockWake",
        "destroyState", "destroyWaiters", "destroyStore"} \union Registered

Goto(t, label) == pc' = [pc EXCEPT ![t] = label]

\* The mutex as pthread_mutex_init leaves it.
Fresh(k) ==
    /\ kind' = k
    /\ state' = 0
    /\ owner' = NoOwner
    /\ depth' = 0
    /\ initialized' = TRUE
    /\ waiters' = 0

Init ==
    /\ kind \in Kinds
    /\ state = 0
    /\ owner = NoOwner
    /\ depth = 0
    /\ initialized = TRUE
    /\ waiters = 0
    /\ pc = [t \in Threads |-> "idle"]
    /\ sleeping = {}
    /\ selected = {}

(***************************************************************************)
(* pthread_mutex_init over a destroyed mutex.  The application calls it    *)
(* when the mutex is not held and no call on it is in progress.            *)
(***************************************************************************)
MutexInit(t) ==
    /\ ~initialized
    /\ owner = NoOwner
    /\ \A u \in Threads : pc[u] = "idle"
    /\ \E k \in Kinds : Fresh(k)
    /\ UNCHANGED <<pc, sleeping, selected>>

-----------------------------------------------------------------------------
\* The application does not start to lock a mutex that is being destroyed.
Destroying == \E u \in Threads : pc[u] \in {"destroyState", "destroyWaiters", "destroyStore"}

(***************************************************************************)
(* relock: the caller already owns the mutex.  A recursive mutex counts    *)
(* one level more (RecursionLimit at the largest depth); an error-checking *)
(* one answers Deadlock, and any other kind answers Busy to trylock.       *)
(***************************************************************************)
relock(t, label) ==
    /\ owner = t
    /\ IF kind = RECURSIVE_KIND
       THEN /\ depth' = IF depth < MaxDepth THEN depth + 1 ELSE depth
            /\ UNCHANGED pc
       ELSE /\ UNCHANGED depth
            /\ IF label = "trycas" \/ kind = ERRORCHECK
               THEN UNCHANGED pc
               ELSE Goto(t, label)

\* validate and relock; a caller that does not own the mutex goes on to the CAS.
Enter(t, label) ==
    /\ pc[t] = "idle"
    /\ initialized
    /\ ~Destroying
    /\ \/ relock(t, label)
       \/ /\ owner # t
          /\ Goto(t, label)
          /\ UNCHANGED depth
    /\ UNCHANGED <<state, kind, owner, initialized, waiters, kernel>>

lock(t) == Enter(t, "cas")
try_lock(t) == Enter(t, "trycas")

\* try_lock: compare_exchange(0, 1), Busy when it fails.
TryCas(t) ==
    /\ pc[t] = "trycas"
    /\ IF state = 0
       THEN state' = 1 /\ Goto(t, "acquired")
       ELSE UNCHANGED state /\ Goto(t, "idle")
    /\ UNCHANGED <<word, waiters, kernel>>

\* lock: the uncontended compare_exchange(0, 1).
LockCas(t) ==
    /\ pc[t] = "cas"
    /\ IF state = 0
       THEN state' = 1 /\ Goto(t, "acquired")
       ELSE UNCHANGED state /\ Goto(t, "register")
    /\ UNCHANGED <<word, waiters, kernel>>

\* waiters.fetch_add(1)
Register(t) ==
    /\ pc[t] = "register"
    /\ waiters' = waiters + 1
    /\ Goto(t, "swap")
    /\ UNCHANGED <<state, word, kernel>>

\* Mutant of Swap: a waiter takes the lock with 1, forgetting the other sleepers.
SwapWithOne(t) ==
    /\ pc[t] = "swap"
    /\ state' = IF state = 0 THEN 1 ELSE 2
    /\ Goto(t, IF state = 0 THEN "acquiredSlow" ELSE "wait")
    /\ UNCHANGED <<word, waiters, kernel>>

\* Mutant of Swap: any word but 2 is taken for a free lock.
SwapTakesOne(t) ==
    /\ pc[t] = "swap"
    /\ state' = 2
    /\ Goto(t, IF state # 2 THEN "acquiredSlow" ELSE "wait")
    /\ UNCHANGED <<word, waiters, kernel>>

\* state.swap(2): the lock when it was free, a mark that it is awaited otherwise.
Swap(t) ==
    /\ pc[t] = "swap"
    /\ state' = 2
    /\ Goto(t, IF state = 0 THEN "acquiredSlow" ELSE "wait")
    /\ UNCHANGED <<word, waiters, kernel>>

\* depth.store(1) and owner.store(thread).
Acquired(t) ==
    /\ pc[t] \in {"acquired", "acquiredSlow"}
    /\ depth' = 1
    /\ owner' = t
    /\ Goto(t, IF pc[t] = "acquired" THEN "idle" ELSE "unregister")
    /\ UNCHANGED <<state, kind, initialized, waiters, kernel>>

\* Dropping the Waiter guard: waiters.fetch_sub(1).
Unregister(t) ==
    /\ pc[t] = "unregister"
    /\ waiters' = waiters - 1
    /\ Goto(t, "idle")
    /\ UNCHANGED <<state, word, kernel>>

-----------------------------------------------------------------------------
\* WaitOnAddress(state, 2): the kernel compares and parks in one step.
WaitOnAddress(t) ==
    /\ pc[t] = "wait"
    /\ IF state = 2
       THEN Goto(t, "asleep") /\ sleeping' = sleeping \union {t}
       ELSE Goto(t, "swap") /\ UNCHANGED sleeping
    /\ UNCHANGED <<state, word, waiters, selected>>

\* WakeAddress(state, 1): at most one parked thread is removed from the queue.
WakeOne ==
    \/ /\ sleeping = {}
       /\ UNCHANGED <<sleeping, selected>>
    \/ \E u \in sleeping :
          /\ sleeping' = sleeping \ {u}
          /\ selected' = selected \union {u}

\* The wait reports Awoken and the lock loop swaps again.
Awoken(t) ==
    /\ pc[t] = "asleep"
    /\ t \in selected
    /\ selected' = selected \ {t}
    /\ Goto(t, "swap")
    /\ UNCHANGED <<state, word, waiters, sleeping>>

\* A wait that may end without reporting the wake.
MayReturnEarly(t) ==
    /\ pc[t] = "asleep"
    /\ t \in sleeping \/ (LostSelection /\ t \in selected)
    /\ sleeping' = sleeping \ {t}
    /\ selected' = selected \ {t}

\* EINTR, or DeadlineReached while the selected clock has time left: wait again.
RetryWait(t) ==
    /\ MayReturnEarly(t)
    /\ Goto(t, "wait")
    /\ UNCHANGED <<state, word, waiters>>

\* The wait fails: ETIMEDOUT, an unusable abstime, or a kernel error.
WaitFails(t) ==
    /\ \/ pc[t] = "wait" /\ UNCHANGED kernel
       \/ MayReturnEarly(t)
    /\ Goto(t, "failed")
    /\ UNCHANGED <<state, word, waiters>>

\* Mutant of FailedCheck: the error return skips the Waiter guard.
FailedLeak(t) ==
    /\ pc[t] = "failed"
    /\ Goto(t, IF state = 0 THEN "handoff" ELSE "idle")
    /\ UNCHANGED <<state, word, waiters, kernel>>

\* After a failed wait: state.load() == 0 hands the wake to another waiter.
FailedCheck(t) ==
    /\ pc[t] = "failed"
    /\ Goto(t, IF state = 0 THEN "handoff" ELSE "unregister")
    /\ UNCHANGED <<state, word, waiters, kernel>>

Handoff(t) ==
    /\ pc[t] = "handoff"
    /\ WakeOne
    /\ Goto(t, "unregister")
    /\ UNCHANGED <<state, word, waiters>>

-----------------------------------------------------------------------------
\* unlock: NotOwner for another thread; the last level clears depth and owner.
unlock(t) ==
    /\ pc[t] = "idle"
    /\ initialized
    /\ owner = t
    /\ IF depth > 1
       THEN depth' = depth - 1 /\ UNCHANGED <<owner, pc>>
       ELSE depth' = 0 /\ owner' = NoOwner /\ Goto(t, "unlockSwap")
    /\ UNCHANGED <<state, kind, initialized, waiters, kernel>>

\* Mutant of UnlockSwap: the wake is forgotten.
UnlockNoWake(t) ==
    /\ pc[t] = "unlockSwap"
    /\ state' = 0
    /\ Goto(t, "idle")
    /\ UNCHANGED <<word, waiters, kernel>>

\* state.swap(0) == 2 wakes one waiter.
UnlockSwap(t) ==
    /\ pc[t] = "unlockSwap"
    /\ state' = 0
    /\ Goto(t, IF state = 2 THEN "unlockWake" ELSE "idle")
    /\ UNCHANGED <<word, waiters, kernel>>

UnlockWake(t) ==
    /\ pc[t] = "unlockWake"
    /\ WakeOne
    /\ Goto(t, "idle")
    /\ UNCHANGED <<state, word, waiters>>

-----------------------------------------------------------------------------
(***************************************************************************)
(* destroy: Busy when the state word or the waiter count is not zero.  The *)
(* application calls it when no other call is about to register or to take *)
(* the lock, but callers already on the slow path may still be there.      *)
(***************************************************************************)
destroy(t) ==
    /\ pc[t] = "idle"
    /\ initialized
    /\ ~Destroying
    /\ \A u \in Threads : pc[u] \notin {"cas", "trycas", "register", "acquired"}
    /\ Goto(t, "destroyState")
    /\ UNCHANGED <<state, word, waiters, kernel>>

DestroyState(t) ==
    /\ pc[t] = "destroyState"
    /\ Goto(t, IF state = 0 THEN "destroyWaiters" ELSE "idle")
    /\ UNCHANGED <<state, word, waiters, kernel>>

DestroyWaiters(t) ==
    /\ pc[t] = "destroyWaiters"
    /\ Goto(t, IF waiters = 0 THEN "destroyStore" ELSE "idle")
    /\ UNCHANGED <<state, word, waiters, kernel>>

DestroyStore(t) ==
    /\ pc[t] = "destroyStore"
    /\ initialized' = FALSE
    /\ Goto(t, "idle")
    /\ UNCHANGED <<state, kind, owner, depth, waiters, kernel>>

-----------------------------------------------------------------------------
\* The steps the code takes by itself once a call has begun.
Internal(t) ==
    \/ TryCas(t) \/ LockCas(t) \/ Register(t) \/ Swap(t) \/ Acquired(t)
    \/ Unregister(t) \/ WaitOnAddress(t) \/ Awoken(t) \/ FailedCheck(t)
    \/ Handoff(t) \/ UnlockSwap(t) \/ UnlockWake(t)
    \/ DestroyState(t) \/ DestroyWaiters(t) \/ DestroyStore(t)

\* The calls of the application and the early returns of the kernel.
External(t) ==
    \/ MutexInit(t) \/ lock(t) \/ try_lock(t) \/ unlock(t) \/ destroy(t)
    \/ RetryWait(t) \/ WaitFails(t)

Next == \E t \in Threads : Internal(t) \/ External(t)

Spec == Init /\ [][Next]_vars

(***************************************************************************)
(* A running thread completes the call it is in, and an owner eventually   *)
(* unlocks.  Nothing is assumed about new calls, interruptions or timeouts.*)
(***************************************************************************)
Fairness == \A t \in Threads : WF_vars(Internal(t)) /\ WF_vars(unlock(t))

FairSpec == Spec /\ Fairness

-----------------------------------------------------------------------------
\* The variables keep the types of the struct's fields and of the kernel queue.
TypeOK ==
    /\ state \in 0..2
    /\ kind \in Kinds
    /\ owner \in Threads \union {NoOwner}
    /\ depth \in 0..MaxDepth
    /\ initialized \in BOOLEAN
    /\ waiters \in Nat
    /\ pc \in [Threads -> PCs]
    /\ sleeping \subseteq Threads
    /\ selected \subseteq Threads

(***************************************************************************)
(* A thread holds the lock from its successful exchange on the state word  *)
(* to the swap(0) of its last unlock.                                      *)
(***************************************************************************)
Holds(t) == owner = t \/ pc[t] \in {"acquired", "acquiredSlow", "unlockSwap"}

\* Mutual exclusion: two threads never hold the mutex, whichever of lock,
\* timedlock and trylock they used and however their waits ended.
MutualExclusion == \A t, u \in Threads : Holds(t) /\ Holds(u) => t = u

\* The state word is free exactly when nobody holds the mutex, so an unlock
\* never frees another thread's lock and no failed wait leaves it locked.
StateTellsHolder == (state = 0) <=> \A t \in Threads : ~Holds(t)

\* `waiters` counts exactly the callers on the slow path, on every way out of it.
WaitersCounted == waiters = Cardinality({t \in Threads : pc[t] \in Registered})

(***************************************************************************)
(* No lost wake-up: while a thread sleeps on the state word, either the    *)
(* word still says 2, so the unlock will wake, or some thread is on its    *)
(* way to wake a sleeper or to set the word to 2.                          *)
(***************************************************************************)
NoLostWakeup ==
    sleeping # {} =>
        \/ state = 2
        \/ selected # {}
        \/ \E t \in Threads : pc[t] \in {"swap", "unlockWake", "handoff"}

(***************************************************************************)
(* An admitted waiter gets its chance: when every call but the sleepers'   *)
(* own has returned, the state word still tells the next unlock to wake.   *)
(* This is what the comment of the failed-wait path promises even when an  *)
(* unlock selected the waiter just before its wait failed.                 *)
(***************************************************************************)
NoStrandedWaiter ==
    /\ sleeping # {}
    /\ selected = {}
    /\ \A t \in Threads : pc[t] \in {"idle", "asleep"}
    => state = 2

\* The abstract phase of a thread: it holds the mutex, its lock or trylock call
\* is under way, or neither.
Phase(t) ==
    IF Holds(t) THEN "in"
    ELSE IF pc[t] \in {"cas", "trycas", "register"} \union Registered THEN "asking"
    ELSE "out"

Lock == INSTANCE AbstractLock WITH phase <- [t \in Threads |-> Phase(t)]

\* The mutex implements the abstract lock: whatever the interleaving of
\* exchanges, waits, wakes and failures, a caller enters only an empty lock.
ImplementsLock == Lock!Spec

\* A free mutex with callers on its slow path is taken again: the wake of an
\* unlock, or the hand-off of a failed wait, reaches one of them.
FreeMutexIsTaken ==
    (state = 0 /\ sleeping # {}) ~> (state # 0 \/ sleeping = {})
=============================================================================
