----------------------------- MODULE PthreadCond -----------------------------
(***************************************************************************)
(* Condition variables: crates/posix-client/src/pthread_cond.rs (the inline*)
(* state) under crates/newlib-runtime/src/pthread_cond.rs (the wait loop), *)
(* with pthread_cancel of crates/newlib-runtime/src/lib.rs.                *)
(*                                                                         *)
(* The application mutex is the abstract lock that PthreadMutex implements:*)
(* `holder` is the thread in it.  `parked` is the kernel's queue for       *)
(* WaitOnAddressGuarded on the generation word and on the waiter's own     *)
(* notification word.                                                      *)
(***************************************************************************)
EXTENDS Integers, FiniteSets

CONSTANTS
    Threads,
    NoThread,
    MaxGeneration,   \* bound on notifications that find a waiter
    MaxCalls,        \* bound on the mutex locks and waits a thread makes
    Cancelable,      \* the threads somebody may cancel
    Notifiers        \* the threads that signal, broadcast and destroy

VARIABLES
    generation, gate, waiters, initialized,                 \* struct Condition
    holder,                                                 \* the mutex
    cancel_pending, cancel_state, multiplex_generation,     \* ThreadControl
    canceling,      \* threads whose cancel is stored but not yet notified
    pc, before, notification, previous, expired, canceled, calls,  \* the frame of wait
    parked,
    audience,       \* history: who was waiting when the last unserved signal came
    called          \* history: who was waiting at a broadcast and has not left

condition == <<generation, gate, waiters, initialized>>
control == <<cancel_pending, cancel_state, multiplex_generation, canceling>>
frame == <<before, notification, previous, expired, canceled, calls>>
history == <<audience, called>>
vars == <<condition, holder, control, pc, frame, parked, history>>

ENABLE == "enable"
DISABLE == "disable"

\* Labels between begin and end: the thread is counted in `waiters`.
Waiting == {"unlock", "snapshot", "pending", "generation", "park",
            "parked", "relock", "decide", "end"}
PCs == {"idle", "begin", "signal", "broadcast", "wakeOne", "wakeAll",
        "restore", "exited"} \union Waiting

Goto(t, label) == pc' = [pc EXCEPT ![t] = label]
GateFree == gate = NoThread

Init ==
    /\ generation = 0
    /\ gate = NoThread
    /\ waiters = 0
    /\ initialized = TRUE
    /\ holder = NoThread
    /\ cancel_pending = [t \in Threads |-> FALSE]
    /\ cancel_state = [t \in Threads |-> ENABLE]
    /\ multiplex_generation = [t \in Threads |-> 0]
    /\ canceling = {}
    /\ pc = [t \in Threads |-> "idle"]
    /\ before = [t \in Threads |-> 0]
    /\ notification = [t \in Threads |-> 0]
    /\ previous = [t \in Threads |-> ENABLE]
    /\ expired = [t \in Threads |-> FALSE]
    /\ canceled = [t \in Threads |-> FALSE]
    /\ calls = [t \in Threads |-> 0]
    /\ parked = {}
    /\ audience = {}
    /\ called = {}

-----------------------------------------------------------------------------
\* The application takes and releases the mutex around its predicate.
MutexLock(t) ==
    /\ pc[t] = "idle"
    /\ holder = NoThread
    /\ calls[t] < MaxCalls
    /\ calls' = [calls EXCEPT ![t] = @ + 1]
    /\ holder' = t
    /\ UNCHANGED <<condition, control, pc, before, notification, previous, expired, canceled, parked,
                   history>>

MutexUnlock(t) ==
    /\ pc[t] = "idle"
    /\ holder = t
    /\ holder' = NoThread
    /\ UNCHANGED <<condition, control, pc, frame, parked, history>>

\* pthread_setcancelstate by the running thread.
SetCancelState(t) ==
    /\ pc[t] = "idle"
    /\ t \in Cancelable
    /\ \E s \in {ENABLE, DISABLE} : cancel_state' = [cancel_state EXCEPT ![t] = s]
    /\ UNCHANGED <<condition, holder, cancel_pending, multiplex_generation, canceling,
                   pc, frame, parked, history>>

\* pthread_cancel stores the request, then notifies the target.
CancelStore(u) ==
    /\ u \in Cancelable
    /\ pc[u] # "exited"
    /\ ~cancel_pending[u]
    /\ cancel_pending' = [cancel_pending EXCEPT ![u] = TRUE]
    /\ canceling' = canceling \union {u}
    /\ UNCHANGED <<condition, holder, cancel_state, multiplex_generation, pc, frame,
                   parked, history>>

\* notify_thread_waiter: multiplex_generation + 1, and wake its guarded waiter.
CancelNotify(u) ==
    /\ u \in canceling
    /\ canceling' = canceling \ {u}
    /\ multiplex_generation' = [multiplex_generation EXCEPT ![u] = @ + 1]
    /\ parked' = parked \ {u}
    /\ UNCHANGED <<condition, holder, cancel_pending, cancel_state, pc, frame, history>>

-----------------------------------------------------------------------------
\* finish_thread: no cancellation any more; the application's cleanup handlers
\* release the mutex the thread owns.
Exit(t) ==
    /\ Goto(t, "exited")
    /\ cancel_state' = [cancel_state EXCEPT ![t] = DISABLE]
    /\ holder' = NoThread

\* wait: only the owner of the mutex of a live condition may wait, and
\* pthread_testcancel runs while it still owns it and is not registered.
wait(t) ==
    /\ pc[t] = "idle"
    /\ initialized
    /\ holder = t
    /\ calls[t] < MaxCalls
    /\ calls' = [calls EXCEPT ![t] = @ + 1]
    /\ IF cancel_state[t] = ENABLE /\ cancel_pending[t]
       THEN Exit(t)
       ELSE Goto(t, "begin") /\ UNCHANGED <<holder, cancel_state>>
    /\ UNCHANGED <<condition, cancel_pending, multiplex_generation, canceling, before,
                   notification, previous, expired, canceled, parked, history>>

\* begin, under the gate: one waiter more, of the current generation.  Then the
\* caller's cancel_state is swapped for DISABLE, a word only this thread writes.
begin(t) ==
    /\ pc[t] = "begin"
    /\ GateFree
    /\ IF initialized
       THEN /\ waiters' = waiters + 1
            /\ before' = [before EXCEPT ![t] = generation]
            /\ previous' = [previous EXCEPT ![t] = cancel_state[t]]
            /\ cancel_state' = [cancel_state EXCEPT ![t] = DISABLE]
            /\ Goto(t, "unlock")
       ELSE Goto(t, "idle") /\ UNCHANGED <<waiters, before, previous, cancel_state>>
    /\ UNCHANGED <<generation, gate, initialized, holder, cancel_pending,
                   multiplex_generation, canceling, notification, expired, canceled, calls,
                   parked, history>>

WaitUnlock(t) ==
    /\ pc[t] = "unlock"
    /\ holder' = NoThread
    /\ Goto(t, "snapshot")
    /\ UNCHANGED <<condition, control, frame, parked, history>>

\* The notification word is read before cancellation is looked at.
Snapshot(t) ==
    /\ pc[t] = "snapshot"
    /\ notification' = [notification EXCEPT ![t] = multiplex_generation[t]]
    /\ Goto(t, "pending")
    /\ UNCHANGED <<condition, holder, control, before, previous, expired, canceled, calls, parked,
                   history>>

Pending(t) == previous[t] = ENABLE /\ cancel_pending[t]

CheckPending(t) ==
    /\ pc[t] = "pending"
    /\ Goto(t, IF Pending(t) THEN "relock" ELSE "generation")
    /\ UNCHANGED <<condition, holder, control, frame, parked, history>>

CheckGeneration(t) ==
    /\ pc[t] = "generation"
    /\ Goto(t, IF generation # before[t] THEN "relock" ELSE "park")
    /\ UNCHANGED <<condition, holder, control, frame, parked, history>>

\* History: a thread that stops waiting is owed no signal.
Leaves(t) ==
    /\ audience' = audience \ {t}
    /\ called' = called \ {t}

\* A timed wait whose deadline has passed ends with ETIMEDOUT.
TimedOut(t) ==
    /\ pc[t] = "park"
    /\ Goto(t, "relock")
    /\ expired' = [expired EXCEPT ![t] = TRUE]
    /\ Leaves(t)
    /\ UNCHANGED <<condition, holder, control, before, notification, previous, canceled,
                   calls, parked>>

\* Mutant of Park: a plain address wait on the generation word alone.
ParkUnguarded(t) ==
    /\ pc[t] = "park"
    /\ IF generation = before[t]
       THEN Goto(t, "parked") /\ parked' = parked \union {t}
       ELSE Goto(t, "snapshot") /\ UNCHANGED parked
    /\ UNCHANGED <<condition, holder, control, frame, history>>

\* WaitOnAddressGuarded compares both words and parks in one step.
Park(t) ==
    /\ pc[t] = "park"
    /\ IF generation = before[t] /\ multiplex_generation[t] = notification[t]
       THEN Goto(t, "parked") /\ parked' = parked \union {t}
       ELSE Goto(t, "snapshot") /\ UNCHANGED parked
    /\ UNCHANGED <<condition, holder, control, frame, history>>

\* Awoken, ValueChanged, DeadlineReached and EINTR all go round the loop.
Unpark(t) ==
    /\ pc[t] = "parked"
    /\ t \notin parked
    /\ Goto(t, "snapshot")
    /\ UNCHANGED <<condition, holder, control, frame, parked, history>>

Interrupt(t) ==
    /\ t \in parked
    /\ parked' = parked \ {t}
    /\ UNCHANGED <<condition, holder, control, pc, frame, history>>

Relock(t) ==
    /\ pc[t] = "relock"
    /\ holder = NoThread
    /\ holder' = t
    /\ Goto(t, "decide")
    /\ UNCHANGED <<condition, control, frame, parked, history>>

\* One decision serves both the replacement wake and the cancellation.
Decide(t) ==
    /\ pc[t] = "decide"
    /\ canceled' = [canceled EXCEPT ![t] = Pending(t)]
    /\ Goto(t, "end")
    /\ UNCHANGED <<condition, holder, control, before, notification, previous, expired, calls,
                   parked, history>>

\* History: a return that was not canceled serves the pending signal.
Serves(t) ==
    /\ audience' = IF canceled[t] THEN audience \ {t} ELSE
                   IF t \in audience THEN {} ELSE audience
    /\ called' = called \ {t}

\* Mutant of end: a canceled waiter keeps the signal it consumed.
endKeepsSignal(t) ==
    /\ pc[t] = "end"
    /\ GateFree
    /\ waiters' = waiters - 1
    /\ Serves(t)
    /\ Goto(t, "restore")
    /\ UNCHANGED <<generation, gate, initialized, holder, control, frame, parked>>

\* end, under the gate: a canceled waiter passes a concurrent signal on to all.
end(t) ==
    /\ pc[t] = "end"
    /\ GateFree
    /\ waiters' = waiters - 1
    /\ parked' = IF canceled[t] /\ waiters > 1 /\ generation # before[t] THEN {} ELSE parked
    /\ Serves(t)
    /\ Goto(t, "restore")
    /\ UNCHANGED <<generation, gate, initialized, holder, control, frame>>

\* A canceled thread exits, any other gets its cancel_state back; the frame is gone.
Restore(t) ==
    /\ pc[t] = "restore"
    /\ IF canceled[t]
       THEN Exit(t)
       ELSE /\ cancel_state' = [cancel_state EXCEPT ![t] = previous[t]]
            /\ Goto(t, "idle")
            /\ UNCHANGED holder
    /\ before' = [before EXCEPT ![t] = 0]
    /\ notification' = [notification EXCEPT ![t] = 0]
    /\ previous' = [previous EXCEPT ![t] = ENABLE]
    /\ expired' = [expired EXCEPT ![t] = FALSE]
    /\ canceled' = [canceled EXCEPT ![t] = FALSE]
    /\ UNCHANGED <<condition, cancel_pending, multiplex_generation, canceling, calls,
                   parked, history>>

-----------------------------------------------------------------------------
\* pthread_cond_signal and pthread_cond_broadcast need no mutex.
signal(t) ==
    /\ t \in Notifiers
    /\ pc[t] = "idle"
    /\ generation + Cardinality({u \in Threads : pc[u] \in {"signal", "broadcast"}}) < MaxGeneration
    /\ \E label \in {"signal", "broadcast"} : Goto(t, label)
    /\ UNCHANGED <<condition, holder, control, frame, parked, history>>

Registered == {t \in Threads : pc[t] \in Waiting}

\* The registered threads that have not yet decided to return.
Admitted == {t \in Registered : pc[t] \notin {"relock", "decide", "end"}}

\* notify, up to the wake: admission is closed while the gate is held.
Notify(t) ==
    /\ pc[t] \in {"signal", "broadcast"}
    /\ GateFree
    /\ IF initialized /\ waiters # 0
       THEN /\ generation' = generation + 1
            /\ gate' = t
            /\ Goto(t, IF pc[t] = "signal" THEN "wakeOne" ELSE "wakeAll")
            /\ audience' = IF audience = {} THEN Admitted ELSE audience
            /\ called' = IF pc[t] = "broadcast" THEN called \union Admitted ELSE called
       ELSE Goto(t, "idle") /\ UNCHANGED <<generation, gate, history>>
    /\ UNCHANGED <<waiters, initialized, holder, control, frame, parked>>

\* The wake of notify; the gate opens when it is done.
NotifyWake(t) ==
    /\ pc[t] \in {"wakeOne", "wakeAll"}
    /\ IF pc[t] = "wakeAll" \/ parked = {}
       THEN parked' = {}
       ELSE \E u \in parked : parked' = parked \ {u}
    /\ gate' = NoThread
    /\ Goto(t, "idle")
    /\ UNCHANGED <<generation, waiters, initialized, holder, control, frame, history>>

\* destroy, under the gate: Busy while a waiter is counted.
destroy(t) ==
    /\ t \in Notifiers
    /\ pc[t] = "idle"
    /\ GateFree
    /\ initialized
    /\ waiters = 0
    /\ initialized' = FALSE
    /\ UNCHANGED <<generation, gate, waiters, holder, control, pc, frame, parked, history>>

\* pthread_cond_init of a destroyed condition writes a fresh object.
CondInit(t) ==
    /\ t \in Notifiers
    /\ pc[t] = "idle"
    /\ ~initialized
    /\ \A u \in Threads : pc[u] \in {"idle", "exited"}
    /\ initialized' = TRUE
    /\ generation' = 0
    /\ UNCHANGED <<gate, waiters, holder, control, pc, frame, parked, history>>

-----------------------------------------------------------------------------
\* Steps the runtime takes by itself once a call is under way.
Internal(t) ==
    \/ begin(t) \/ WaitUnlock(t) \/ Snapshot(t) \/ CheckPending(t) \/ CheckGeneration(t)
    \/ Park(t) \/ Unpark(t) \/ Relock(t) \/ Decide(t) \/ end(t) \/ Restore(t)
    \/ Notify(t) \/ NotifyWake(t)

\* Steps the application, a canceling thread, the clock or a handler chooses.
External(t) ==
    \/ MutexLock(t) \/ MutexUnlock(t) \/ SetCancelState(t) \/ CancelStore(t)
    \/ CancelNotify(t) \/ wait(t) \/ signal(t) \/ TimedOut(t) \/ Interrupt(t)
    \/ destroy(t) \/ CondInit(t)

Next == \E t \in Threads : Internal(t) \/ External(t)

Spec == Init /\ [][Next]_vars

-----------------------------------------------------------------------------
\* Nothing is under way but waits the kernel holds: no step of the runtime is
\* enabled, and no cancel is half done.
Quiescent ==
    /\ \A t \in Threads : pc[t] \in {"idle", "exited"} \/ t \in parked
    /\ canceling = {}

\* A signal is never lost to a canceled waiter, nor stolen by a thread that came
\* after it: once everything has settled, one of the threads that waited when it
\* came has returned uncanceled, or all of them have left.  A broadcast releases
\* every thread that waited when it came, whatever interrupts, cancels or
\* time-outs do to the others.
SignalIsServed == Quiescent => audience = {} /\ called = {}

\* A cancel request ends the wait of a thread that had cancellation enabled: once
\* everything has settled nobody sleeps on with a request of its own pending, even
\* if the request came between the last check and the parking.
CancelEndsWait == Quiescent => \A t \in parked : ~Pending(t)
=============================================================================
