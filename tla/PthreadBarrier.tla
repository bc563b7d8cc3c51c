--------------------------- MODULE PthreadBarrier ----------------------------
(***************************************************************************)
(* Reusable barriers: crates/posix-client/src/pthread_barrier.rs (tickets, *)
(* completion and the counter reset) under pthread_barrier_wait of         *)
(* crates/newlib-runtime/src/pthread_barrier.rs.                           *)
(*                                                                         *)
(* More threads than one round takes may share the barrier.  RESET_BOUND   *)
(* is the code's own parameter, u64::MAX / 2 in production.                *)
(***************************************************************************)
EXTENDS Integers, FiniteSets

CONSTANTS
    Threads,
    Count,          \* participants of a round
    RESET_BOUND

VARIABLES
    entered, completed, departed, initialized,   \* struct Barrier
    pc, ticket, expected,                        \* the frame of a wait
    entryParked, completionParked                \* the kernel's two queues

barrier == <<entered, completed, departed, initialized>>
frame == <<ticket, expected>>
queues == <<entryParked, completionParked>>
vars == <<barrier, pc, frame, queues>>

limit == RESET_BOUND - (RESET_BOUND % Count)

Goto(t, label) == pc' = [pc EXCEPT ![t] = label]

\* From admission to departure a thread owns its ticket.
Admitted == {"publish", "notify", "load", "passed", "wait", "waiting", "leave"}
PCs == Admitted \union {"idle", "arrive", "entryWait", "entryWaiting",
                        "reset", "reopen", "entryWake"}

Init ==
    /\ entered = 0 /\ completed = 0 /\ departed = 0
    /\ initialized = TRUE
    /\ pc = [t \in Threads |-> "idle"]
    /\ ticket = [t \in Threads |-> 0]
    /\ expected = [t \in Threads |-> 0]
    /\ entryParked = {} /\ completionParked = {}

-----------------------------------------------------------------------------
pthread_barrier_wait(t) ==
    /\ pc[t] = "idle"
    /\ initialized
    /\ Goto(t, "arrive")
    /\ UNCHANGED <<barrier, frame, queues>>

\* arrive: a ticket of the current round, or ResetPending at the limit.
arrive(t) ==
    /\ pc[t] = "arrive"
    /\ IF entered >= limit
       THEN /\ expected' = [expected EXCEPT ![t] = entered]
            /\ Goto(t, "entryWait")
            /\ UNCHANGED <<entered, ticket>>
       ELSE /\ entered' = entered + 1
            /\ ticket' = [ticket EXCEPT ![t] = entered + 1]
            /\ Goto(t, IF (entered + 1) % Count = 0 THEN "publish" ELSE "load")
            /\ UNCHANGED expected
    /\ UNCHANGED <<completed, departed, initialized, queues>>

\* Waiting for the reset on the entry word; any return arrives again.
EntryWait(t) ==
    /\ pc[t] = "entryWait"
    /\ IF entered = expected[t]
       THEN Goto(t, "entryWaiting") /\ entryParked' = entryParked \union {t}
       ELSE Goto(t, "arrive") /\ UNCHANGED entryParked
    /\ UNCHANGED <<barrier, frame, completionParked>>

EntryAwoken(t) ==
    /\ pc[t] = "entryWaiting"
    /\ t \notin entryParked
    /\ Goto(t, "arrive")
    /\ UNCHANGED <<barrier, frame, queues>>

\* The last arrival of a round raises the completion word; a later round may
\* have raised it already.
Publish(t) ==
    /\ pc[t] = "publish"
    /\ IF completed < ticket[t]
       THEN completed' = ticket[t] /\ Goto(t, "notify")
       ELSE Goto(t, "load") /\ UNCHANGED completed
    /\ UNCHANGED <<entered, departed, initialized, frame, queues>>

Notify(t) ==
    /\ pc[t] = "notify"
    /\ completionParked' = {}
    /\ Goto(t, "load")
    /\ UNCHANGED <<barrier, frame, entryParked>>

Load(t) ==
    /\ pc[t] = "load"
    /\ expected' = [expected EXCEPT ![t] = completed]
    /\ Goto(t, "passed")
    /\ UNCHANGED <<barrier, ticket, queues>>

\* Mutant of passed: a thread goes on when its own ticket is the newest.
passedEarly(t) ==
    /\ pc[t] = "passed"
    /\ Goto(t, IF completed + 1 >= ticket[t] THEN "leave" ELSE "wait")
    /\ UNCHANGED <<barrier, frame, queues>>

passed(t) ==
    /\ pc[t] = "passed"
    /\ Goto(t, IF completed >= ticket[t] THEN "leave" ELSE "wait")
    /\ UNCHANGED <<barrier, frame, queues>>

\* Mutant of Wait: the kernel's comparison is left out.
WaitUncompared(t) ==
    /\ pc[t] = "wait"
    /\ Goto(t, "waiting")
    /\ completionParked' = completionParked \union {t}
    /\ UNCHANGED <<barrier, frame, entryParked>>

Wait(t) ==
    /\ pc[t] = "wait"
    /\ IF completed = expected[t]
       THEN Goto(t, "waiting") /\ completionParked' = completionParked \union {t}
       ELSE Goto(t, "load") /\ UNCHANGED completionParked
    /\ UNCHANGED <<barrier, frame, entryParked>>

\* Awoken, a full native queue and a failed wait all look at the round again: an
\* admitted ticket is never abandoned.
Awoken(t) ==
    /\ pc[t] = "waiting"
    /\ t \notin completionParked
    /\ Goto(t, "load")
    /\ UNCHANGED <<barrier, frame, queues>>

WaitFails(t) ==
    /\ pc[t] = "waiting"
    /\ completionParked' = completionParked \ {t}
    /\ Goto(t, "load")
    /\ UNCHANGED <<barrier, frame, entryParked>>

\* The frame of a wait ends with its departure.
Drop(t) ==
    /\ ticket' = [ticket EXCEPT ![t] = 0]
    /\ expected' = [expected EXCEPT ![t] = 0]

\* leave: the last departure of the whole range resets the counters.
leave(t) ==
    /\ pc[t] = "leave"
    /\ departed' = departed + 1
    /\ Goto(t, IF departed + 1 = limit THEN "reset" ELSE "idle")
    /\ Drop(t)
    /\ UNCHANGED <<entered, completed, initialized, queues>>

\* The relaxed stores of the reset, then the release that reopens entry.
Reset(t) ==
    /\ pc[t] = "reset"
    /\ completed' = 0
    /\ departed' = 0
    /\ Goto(t, "reopen")
    /\ UNCHANGED <<entered, initialized, frame, queues>>

Reopen(t) ==
    /\ pc[t] = "reopen"
    /\ entered' = 0
    /\ Goto(t, "entryWake")
    /\ UNCHANGED <<completed, departed, initialized, frame, queues>>

EntryWake(t) ==
    /\ pc[t] = "entryWake"
    /\ entryParked' = {}
    /\ Goto(t, "idle")
    /\ UNCHANGED <<barrier, frame, completionParked>>

\* destroy and init are exclusive by contract; destroy is Busy with a ticket out.
destroy ==
    /\ initialized
    /\ \A t \in Threads : pc[t] = "idle"
    /\ entered = departed
    /\ initialized' = FALSE
    /\ UNCHANGED <<entered, completed, departed, pc, frame, queues>>

pthread_barrier_init ==
    /\ ~initialized
    /\ initialized' = TRUE
    /\ entered' = 0 /\ completed' = 0 /\ departed' = 0
    /\ UNCHANGED <<pc, frame, queues>>

-----------------------------------------------------------------------------
Internal(t) ==
    \/ arrive(t) \/ EntryWait(t) \/ EntryAwoken(t) \/ Publish(t) \/ Notify(t) \/ Load(t)
    \/ passed(t) \/ Wait(t) \/ Awoken(t) \/ leave(t) \/ Reset(t) \/ Reopen(t) \/ EntryWake(t)

Next ==
    \/ \E t \in Threads : Internal(t) \/ pthread_barrier_wait(t) \/ WaitFails(t)
    \/ destroy
    \/ pthread_barrier_init

Spec == Init /\ [][Next]_vars

\* Threads inside a wait keep running; callers come and go as they like.
FairSpec == Spec /\ \A t \in Threads : WF_vars(Internal(t))

-----------------------------------------------------------------------------
\* The last ticket of the round a ticket belongs to.
RoundEnd(k) == ((k + Count - 1) \div Count) * Count

\* The barrier itself: nobody departs from a round before all of its tickets are
\* out, however many threads share the barrier.
NoEarlyRelease ==
    \A t \in Threads : pc[t] = "leave" => RoundEnd(ticket[t]) <= entered

\* A thread whose round is full returns, through any number of spurious or failing
\* waits, and a thread that found the range exhausted is admitted after the reset.
RoundsProceed ==
    \A t \in Threads :
        /\ (pc[t] \in Admitted /\ RoundEnd(ticket[t]) <= entered) ~> (pc[t] \notin Admitted)
        /\ (pc[t] = "entryWaiting") ~> (pc[t] # "entryWaiting")
=============================================================================
