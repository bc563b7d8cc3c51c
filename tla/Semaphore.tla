------------------------------ MODULE Semaphore ------------------------------
(***************************************************************************)
(* Counting semaphores: crates/posix-client/src/semaphore.rs under the     *)
(* cancelable, interruptible wait loop of                                  *)
(* crates/newlib-runtime/src/semaphore.rs.                                 *)
(*                                                                         *)
(* A compare-exchange loop is one atomic step: it has an effect only when  *)
(* the exchange succeeds.  sem_post may run in a signal handler of any     *)
(* thread, so a post is not tied to a thread: `wakes` counts the posts     *)
(* that have stored their token and not yet woken.                         *)
(***************************************************************************)
EXTENDS Integers, FiniteSets

CONSTANTS
    Threads,
    Cancelable,     \* threads with cancellation enabled that may be canceled
    VALUE_MAX,      \* i32::MAX in the code
    MaxPosts,       \* bound on successful posts
    MaxSignals      \* bound on non-restarting handlers run per thread

VARIABLES
    count, initialized,
    start, posted, returned,          \* history: tokens created and reported
    wakes,
    cancel_pending, canceling, multiplex_generation, signal_generation,
    pc, caught, notification, parked

tokens == <<count, start, posted, returned>>
control == <<cancel_pending, canceling, multiplex_generation, signal_generation>>
frame == <<caught, notification>>
vars == <<tokens, initialized, wakes, control, pc, frame, parked>>

\* Labels of a thread inside wait.
InWait == {"snapshot", "check", "take", "park", "parked", "commit", "fail"}

Goto(t, label) == pc' = [pc EXCEPT ![t] = label]

Init ==
    /\ count \in 0..VALUE_MAX
    /\ start = count
    /\ initialized = TRUE
    /\ posted = 0 /\ returned = 0
    /\ wakes = 0
    /\ cancel_pending = [t \in Threads |-> FALSE]
    /\ canceling = {}
    /\ multiplex_generation = [t \in Threads |-> 0]
    /\ signal_generation = [t \in Threads |-> 0]
    /\ pc = [t \in Threads |-> "idle"]
    /\ caught = [t \in Threads |-> 0]
    /\ notification = [t \in Threads |-> 0]
    /\ parked = {}

-----------------------------------------------------------------------------
\* post: one token more, or Overflow at the limit.
PostToken ==
    /\ initialized
    /\ posted < MaxPosts
    /\ count < VALUE_MAX
    /\ count' = count + 1
    /\ posted' = posted + 1
    /\ wakes' = wakes + 1
    /\ UNCHANGED <<initialized, start, returned, control, pc, frame, parked>>

\* Mutant of PostWake: a post wakes one waiter.
PostWakesOne ==
    /\ wakes > 0
    /\ wakes' = wakes - 1
    /\ IF parked = {} THEN UNCHANGED parked ELSE \E t \in parked : parked' = parked \ {t}
    /\ UNCHANGED <<tokens, initialized, control, pc, frame>>

\* sem_post broadcasts.
PostWake ==
    /\ wakes > 0
    /\ wakes' = wakes - 1
    /\ parked' = {}
    /\ UNCHANGED <<tokens, initialized, control, pc, frame>>

\* sem_trywait takes a token or answers EAGAIN.
TryWait(t) ==
    /\ pc[t] = "idle"
    /\ initialized
    /\ count > 0
    /\ count' = count - 1
    /\ returned' = returned + 1
    /\ UNCHANGED <<start, posted, initialized, wakes, control, pc, frame, parked>>

\* sem_destroy and sem_init: the caller guarantees that no operation is active.
Destroy ==
    /\ initialized
    /\ wakes = 0
    /\ \A t \in Threads : pc[t] \notin InWait
    /\ initialized' = FALSE
    /\ UNCHANGED <<tokens, wakes, control, pc, frame, parked>>

SemInit ==
    /\ ~initialized
    /\ initialized' = TRUE
    /\ count' \in 0..VALUE_MAX
    /\ start' = count'
    /\ posted' = 0 /\ returned' = 0
    /\ UNCHANGED <<wakes, control, pc, frame, parked>>

-----------------------------------------------------------------------------
\* pthread_cancel: the request, then notify_thread_waiter.
CancelStore(t) ==
    /\ t \in Cancelable
    /\ ~cancel_pending[t]
    /\ pc[t] # "exited"
    /\ cancel_pending' = [cancel_pending EXCEPT ![t] = TRUE]
    /\ canceling' = canceling \union {t}
    /\ UNCHANGED <<tokens, initialized, wakes, multiplex_generation, signal_generation, pc,
                   frame, parked>>

CancelNotify(t) ==
    /\ t \in canceling
    /\ canceling' = canceling \ {t}
    /\ multiplex_generation' = [multiplex_generation EXCEPT ![t] = @ + 1]
    /\ parked' = parked \ {t}
    /\ UNCHANGED <<tokens, initialized, wakes, cancel_pending, signal_generation, pc, frame>>

\* A handler without SA_RESTART runs on the thread, between any two of its steps.
Handler(t) ==
    /\ pc[t] \in InWait
    /\ signal_generation[t] < MaxSignals
    /\ signal_generation' = [signal_generation EXCEPT ![t] = @ + 1]
    /\ multiplex_generation' = [multiplex_generation EXCEPT ![t] = @ + 1]
    /\ parked' = parked \ {t}
    /\ UNCHANGED <<tokens, initialized, wakes, cancel_pending, canceling, pc, frame>>

\* wait: pthread_testcancel, then the signals handled so far are remembered.
wait(t) ==
    /\ pc[t] = "idle"
    /\ initialized
    /\ IF cancel_pending[t]
       THEN Goto(t, "exited") /\ UNCHANGED caught
       ELSE Goto(t, "snapshot") /\ caught' = [caught EXCEPT ![t] = signal_generation[t]]
    /\ UNCHANGED <<tokens, initialized, wakes, control, notification, parked>>

Snapshot(t) ==
    /\ pc[t] = "snapshot"
    /\ notification' = [notification EXCEPT ![t] = multiplex_generation[t]]
    /\ Goto(t, "check")
    /\ UNCHANGED <<tokens, initialized, wakes, control, caught, parked>>

\* A pending cancel or a handled signal ends the wait before a token is tried.
Check(t) ==
    /\ pc[t] = "check"
    /\ Goto(t, IF cancel_pending[t] \/ signal_generation[t] # caught[t] THEN "fail" ELSE "take")
    /\ UNCHANGED <<tokens, initialized, wakes, control, frame, parked>>

\* try_take: the exchange commits the token to the caller.
Take(t) ==
    /\ pc[t] = "take"
    /\ IF count > 0
       THEN /\ count' = count - 1
                    /\ Goto(t, "commit")
       ELSE Goto(t, "park") /\ UNCHANGED count
    /\ UNCHANGED <<start, posted, returned, initialized, wakes, control, frame, parked>>

\* WaitOnAddressGuarded parks while the count is 0 and nothing was notified.
Park(t) ==
    /\ pc[t] = "park"
    /\ IF count = 0 /\ multiplex_generation[t] = notification[t]
       THEN Goto(t, "parked") /\ parked' = parked \union {t}
       ELSE Goto(t, "snapshot") /\ UNCHANGED parked
    /\ UNCHANGED <<tokens, initialized, wakes, control, frame>>

\* Awoken, ValueChanged and EINTR go round the loop.
Unpark(t) ==
    /\ pc[t] = "parked"
    /\ t \notin parked
    /\ Goto(t, "snapshot")
    /\ UNCHANGED <<tokens, initialized, wakes, control, frame, parked>>

\* ETIMEDOUT, before parking or from the kernel: also when a wake had come.
TimedOut(t) ==
    /\ pc[t] \in {"park", "parked"}
    /\ parked' = parked \ {t}
    /\ Goto(t, "fail")
    /\ UNCHANGED <<tokens, initialized, wakes, control, frame>>

\* The frame of a wait ends with its return.
Drop(t) ==
    /\ caught' = [caught EXCEPT ![t] = 0]
    /\ notification' = [notification EXCEPT ![t] = 0]

\* Mutant of Commit: cancellation is tested after success as well.
CommitCanceled(t) ==
    /\ pc[t] = "commit"
    /\ IF cancel_pending[t]
       THEN Goto(t, "exited") /\ UNCHANGED returned
       ELSE Goto(t, "idle") /\ returned' = returned + 1
    /\ Drop(t)
    /\ UNCHANGED <<count, start, posted, initialized, wakes, control, parked>>

\* Success returns to the caller whatever was requested meanwhile.
Commit(t) ==
    /\ pc[t] = "commit"
    /\ returned' = returned + 1
    /\ Goto(t, "idle")
    /\ Drop(t)
    /\ UNCHANGED <<count, start, posted, initialized, wakes, control, parked>>

\* A failed wait has no token: it returns EINTR or ETIMEDOUT, or the thread ends.
Fail(t) ==
    /\ pc[t] = "fail"
    /\ Goto(t, IF cancel_pending[t] THEN "exited" ELSE "idle")
    /\ Drop(t)
    /\ UNCHANGED <<tokens, initialized, wakes, control, parked>>

-----------------------------------------------------------------------------
Next ==
    \/ PostToken \/ PostWake \/ Destroy \/ SemInit
    \/ \E t \in Threads :
        \/ Snapshot(t) \/ Check(t) \/ Take(t) \/ Park(t) \/ Unpark(t) \/ Commit(t) \/ Fail(t)
        \/ TryWait(t) \/ wait(t) \/ CancelStore(t) \/ CancelNotify(t) \/ Handler(t) \/ TimedOut(t)

Spec == Init /\ [][Next]_vars

-----------------------------------------------------------------------------
\* Nothing is under way but waits the kernel holds.
Quiescent ==
    /\ wakes = 0 /\ canceling = {}
    /\ \A t \in Threads : pc[t] \in {"idle", "exited"} \/ t \in parked

\* Once everything has settled, whoever still sleeps has no reason to be awake: no
\* token is left beside it, even if the thread the kernel chose for a post was
\* canceled, interrupted or timed out, and no cancel or handled signal of its own
\* slipped in between the checks and the parking.
NoStrandedWaiter ==
    Quiescent =>
        \A t \in parked : count = 0 /\ ~cancel_pending[t] /\ signal_generation[t] = caught[t]

\* Tokens are neither made nor lost: each is in the count, reported to a caller, or
\* committed to one that nothing can stop from being told.
TokensAccounted ==
    count + returned + Cardinality({t \in Threads : pc[t] = "commit"}) = start + posted
=============================================================================
