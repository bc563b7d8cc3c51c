----------------------------- MODULE PthreadOnce -----------------------------
(***************************************************************************)
(* One-time initialisation: crates/posix-client/src/pthread_once.rs under  *)
(* pthread_once of crates/newlib-runtime/src/pthread_once.rs, whose cleanup*)
(* handler takes the claim back when the initializer is canceled or exits. *)
(***************************************************************************)
EXTENDS Integers, FiniteSets

CONSTANTS
    Threads,
    MaxAborts       \* bound on initializers that do not finish

VARIABLES
    state,          \* the `executed` word: 0, RUNNING or COMPLETE
    completions,    \* history: initializers that ran to their end
    aborts,
    pc, parked

vars == <<state, completions, aborts, pc, parked>>

COMPLETE == 1
RUNNING == 2

Goto(t, label) == pc' = [pc EXCEPT ![t] = label]

Init ==
    /\ state = 0
    /\ completions = 0
    /\ aborts = 0
    /\ pc = [t \in Threads |-> "idle"]
    /\ parked = {}

-----------------------------------------------------------------------------
pthread_once(t) ==
    /\ pc[t] = "idle"
    /\ Goto(t, "claim")
    /\ UNCHANGED <<state, completions, aborts, parked>>

\* Mutant of claim: the claim is a load and a store.
claimByStore(t) ==
    /\ pc[t] = "claim"
    /\ \/ state = COMPLETE /\ Goto(t, "returned") /\ UNCHANGED state
       \/ state = RUNNING /\ Goto(t, "wait") /\ UNCHANGED state
       \/ state # COMPLETE /\ state' = RUNNING /\ Goto(t, "routine")
    /\ UNCHANGED <<completions, aborts, parked>>

\* claim: the exchange of 0 for RUNNING makes one caller the initializer.
claim(t) ==
    /\ pc[t] = "claim"
    /\ \/ state = COMPLETE /\ Goto(t, "returned") /\ UNCHANGED state
       \/ state = RUNNING /\ Goto(t, "wait") /\ UNCHANGED state
       \/ state = 0 /\ state' = RUNNING /\ Goto(t, "routine")
    /\ UNCHANGED <<completions, aborts, parked>>

\* The kernel parks a waiter only while the word is RUNNING.
Wait(t) ==
    /\ pc[t] = "wait"
    /\ IF state = RUNNING
       THEN Goto(t, "waiting") /\ parked' = parked \union {t}
       ELSE Goto(t, "claim") /\ UNCHANGED parked
    /\ UNCHANGED <<state, completions, aborts>>

\* Awoken or EINTR: the claim is tried again.
Awoken(t) ==
    /\ pc[t] = "waiting"
    /\ t \notin parked
    /\ Goto(t, "claim")
    /\ UNCHANGED <<state, completions, aborts, parked>>

Interrupt(t) ==
    /\ t \in parked
    /\ parked' = parked \ {t}
    /\ UNCHANGED <<state, completions, aborts, pc>>

\* The routine returns: complete publishes its writes.
complete(t) ==
    /\ pc[t] = "routine"
    /\ state' = COMPLETE
    /\ completions' = completions + 1
    /\ Goto(t, "wake")
    /\ UNCHANGED <<aborts, parked>>

\* Cancellation or exit inside the routine runs the cleanup handler: abort.
reset(t) ==
    /\ pc[t] = "routine"
    /\ aborts < MaxAborts
    /\ aborts' = aborts + 1
    /\ state' = IF state = RUNNING THEN 0 ELSE state
    /\ Goto(t, "abortWake")
    /\ UNCHANGED <<completions, parked>>

\* Mutant of Wake: an aborted initializer wakes nobody.
WakeCompletedOnly(t) ==
    /\ pc[t] \in {"wake", "abortWake"}
    /\ parked' = IF pc[t] = "wake" THEN {} ELSE parked
    /\ Goto(t, IF pc[t] = "wake" THEN "returned" ELSE "exited")
    /\ UNCHANGED <<state, completions, aborts>>

\* Both ways out of the routine broadcast.
Wake(t) ==
    /\ pc[t] \in {"wake", "abortWake"}
    /\ parked' = {}
    /\ Goto(t, IF pc[t] = "wake" THEN "returned" ELSE "exited")
    /\ UNCHANGED <<state, completions, aborts>>

\* The thread goes on, and may call again.
Again(t) ==
    /\ pc[t] = "returned"
    /\ Goto(t, "idle")
    /\ UNCHANGED <<state, completions, aborts, parked>>

Internal(t) == claim(t) \/ Wait(t) \/ Awoken(t) \/ complete(t) \/ Wake(t)

Next ==
    \E t \in Threads : Internal(t) \/ pthread_once(t) \/ Interrupt(t) \/ reset(t) \/ Again(t)

Spec == Init /\ [][Next]_vars

\* Callers keep running, and the application's routine ends, one way or the other.
FairSpec ==
    /\ Spec
    /\ \A t \in Threads : WF_vars(Internal(t))

-----------------------------------------------------------------------------
\* The routine runs in one thread at a time, never again once it completed, and a
\* call returns only after that, whatever aborts and interrupts come between.
InitializedOnce ==
    /\ \A t, u \in Threads : pc[t] = "routine" /\ pc[u] = "routine" => t = u /\ completions = 0
    /\ \A t \in Threads : pc[t] = "returned" => completions = 1

\* A call ends unless its thread was canceled: a waiter is not left asleep by an
\* initializer that gave up.
CallReturns ==
    \A t \in Threads : (pc[t] = "claim") ~> (pc[t] \in {"returned", "exited"})
=============================================================================
