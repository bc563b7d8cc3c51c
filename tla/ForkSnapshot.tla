---------------------------- MODULE ForkSnapshot ----------------------------
(***************************************************************************)
(* fork in a multithreaded process (crates/newlib-runtime): the gates and  *)
(* locks clone_registered_process_owned takes before the address space is  *)
(* captured, against siblings that run the runtime's operations.  A lock a *)
(* sibling holds in the captured image has no owner in the child.          *)
(*                                                                         *)
(* The operations are the sequences of steps ForkOperations gives them;    *)
(* this module says what each step does.                                   *)
(***************************************************************************)
EXTENDS ForkOperations, FiniteSets

CONSTANTS Threads,   \* slots of THREADS
          Initial,   \* the thread running at first
          Menu,      \* [Threads -> the operations a thread calls]
          None

VARIABLES slot,       \* [Threads -> THREAD_* state], "RESERVED" for STARTING
                      \* before the native thread exists
          op, pc,     \* what each thread runs, and where it is
          holder,     \* [Mutexes -> Threads \cup {None}]
          libc,       \* [LibcLocks -> [owner, depth]]
          frozen_by,  \* libc_lock::Registry::frozen_by
          parked,     \* how a thread waits for a newlib lock
          activity,   \* lifecycle activities of each thread
          freeze,     \* who holds the lifecycle gate frozen
          preparing,  \* mutations under way of each thread's resource chain
          blockers,   \* scopes of each thread that refuse a fork
          captured    \* who holds each resource chain frozen

vars == <<slot, op, pc, holder, libc, frozen_by, parked, activity, freeze,
          preparing, blockers, captured>>

-----------------------------------------------------------------------------
Init ==
  /\ slot = [t \in Threads |-> IF t = Initial THEN "RUNNING" ELSE "FREE"]
  /\ op = [t \in Threads |-> None]
  /\ pc = [t \in Threads |-> 0]
  /\ holder = [m \in Mutexes |-> None]
  /\ libc = [l \in LibcLocks |-> [owner |-> None, depth |-> 0]]
  /\ frozen_by = None
  /\ parked = [t \in Threads |-> "no"]
  /\ activity = [t \in Threads |-> 0]
  /\ freeze = None
  /\ preparing = [t \in Threads |-> 0]
  /\ blockers = [t \in Threads |-> 0]
  /\ captured = [t \in Threads |-> None]

Now(t) == Operations[op[t]][pc[t]]

At(t, do) == op[t] # None /\ Now(t).do = do

GoTo(t, i) ==
  IF i > Len(Operations[op[t]])
  THEN op' = [op EXCEPT ![t] = None] /\ pc' = [pc EXCEPT ![t] = 0]
  ELSE pc' = [pc EXCEPT ![t] = i] /\ UNCHANGED op

Advance(t) == GoTo(t, pc[t] + 1)

\* An acquisition of fork fails: what was acquired before it is dropped.
Fail(t) == GoTo(t, Undo(pc[t] - Open) + 1)

sync == <<holder, libc, frozen_by, parked>>
gate == <<activity, freeze>>
chain == <<preparing, blockers, captured>>

Begin(t, o) ==
  /\ op[t] = None
  /\ slot[t] = IF o = "trampoline" THEN "STARTING" ELSE "RUNNING"
  /\ o = "finish_thread" => t # Initial /\ libc["stdio"].owner # t
  /\ (o = "flockfile") => libc["stdio"].owner # t
  /\ (o = "funlockfile") => libc["stdio"].owner = t
  /\ op' = [op EXCEPT ![t] = o]
  /\ pc' = [pc EXCEPT ![t] = 1]
  /\ UNCHANGED <<slot, sync, gate, chain>>

(* Runtime mutexes. *)

lock(t) ==
  LET m == Now(t).on IN
  /\ At(t, "lock")
  /\ holder[m] = None
  /\ holder' = [holder EXCEPT ![m] = t]
  /\ Advance(t)
  /\ UNCHANGED <<slot, libc, frozen_by, parked, gate, chain>>

unlock(t) ==
  /\ At(t, "unlock")
  /\ holder' = [holder EXCEPT ![Now(t).on] = None]
  /\ Advance(t)
  /\ UNCHANGED <<slot, libc, frozen_by, parked, gate, chain>>

(* Newlib locks.  An attempt looks at the registry under LOCKS. *)

AcquireAgain(t) ==
  LET l == Now(t).on IN
  /\ At(t, "acquire")
  /\ libc[l].owner = t
  /\ libc' = [libc EXCEPT ![l].depth = @ + 1]
  /\ Advance(t)
  /\ UNCHANGED <<slot, holder, frozen_by, parked, gate, chain>>

BeginAttempt(t) ==
  LET l == Now(t).on IN
  /\ At(t, "acquire")
  /\ libc[l].owner # t
  /\ parked[t] = "frozen" => frozen_by = None
  /\ parked[t] = "busy" => libc[l].owner = None
  /\ holder["LOCKS"] = None
  /\ holder' = [holder EXCEPT !["LOCKS"] = t]
  /\ UNCHANGED <<slot, op, pc, libc, frozen_by, parked, gate, chain>>

attempt(t) ==
  LET l == Now(t).on
      outcome == IF frozen_by \notin {None, t} THEN "frozen"
                 ELSE IF libc[l].owner # None THEN "busy" ELSE "no"
  IN
  /\ At(t, "acquire")
  /\ libc[l].owner # t
  /\ holder["LOCKS"] = t
  /\ holder' = [holder EXCEPT !["LOCKS"] = None]
  /\ parked' = [parked EXCEPT ![t] = outcome]
  /\ IF outcome = "no"
     THEN libc' = [libc EXCEPT ![l] = [owner |-> t, depth |-> 1]] /\ Advance(t)
     ELSE UNCHANGED <<libc, op, pc>>
  /\ UNCHANGED <<slot, frozen_by, gate, chain>>

release(t) ==
  LET l == Now(t).on IN
  /\ At(t, "release")
  /\ libc[l].depth = 1 => holder["LOCKS"] = None
  /\ libc' = [libc EXCEPT ![l] = IF @.depth = 1 THEN [owner |-> None, depth |-> 0]
                                 ELSE [@ EXCEPT !.depth = @ - 1]]
  /\ Advance(t)
  /\ UNCHANGED <<slot, holder, frozen_by, parked, gate, chain>>

\* capture refuses while a lock belongs to another thread.
capture(t) ==
  /\ At(t, "capture")
  /\ holder["LOCKS"] = None
  /\ IF frozen_by = None /\ \A l \in LibcLocks : libc[l].owner \in {None, t}
     THEN frozen_by' = t /\ Advance(t)
     ELSE UNCHANGED frozen_by /\ Fail(t)
  /\ UNCHANGED <<slot, holder, libc, parked, gate, chain>>

thaw_libc(t) ==
  /\ At(t, "thaw_libc")
  /\ holder["LOCKS"] = None
  /\ frozen_by' = None
  /\ Advance(t)
  /\ UNCHANGED <<slot, holder, libc, parked, gate, chain>>

(* The lifecycle gate. *)

try_enter(t) ==
  /\ At(t, "enter")
  /\ freeze = None
  /\ activity' = [activity EXCEPT ![t] = @ + 1]
  /\ Advance(t)
  /\ UNCHANGED <<slot, sync, freeze, chain>>

leave(t) ==
  /\ At(t, "leave")
  /\ activity' = [activity EXCEPT ![t] = @ - 1]
  /\ Advance(t)
  /\ UNCHANGED <<slot, sync, freeze, chain>>

\* Mutant of try_freeze: an activity does not refuse the snapshot.
try_freezeBusy(t) ==
  /\ At(t, "freeze")
  /\ IF freeze = None
     THEN freeze' = t /\ Advance(t)
     ELSE UNCHANGED freeze /\ Fail(t)
  /\ UNCHANGED <<slot, sync, activity, chain>>

try_freeze(t) ==
  /\ At(t, "freeze")
  /\ IF freeze = None /\ \A u \in Threads : activity[u] = 0
     THEN freeze' = t /\ Advance(t)
     ELSE UNCHANGED freeze /\ Fail(t)
  /\ UNCHANGED <<slot, sync, activity, chain>>

thaw(t) ==
  /\ At(t, "thaw")
  /\ freeze' = None
  /\ Advance(t)
  /\ UNCHANGED <<slot, sync, activity, chain>>

(* Resource chains. *)

prepare(t) ==
  /\ At(t, "prepare")
  /\ captured[t] = None
  /\ preparing' = [preparing EXCEPT ![t] = @ + 1]
  /\ Advance(t)
  /\ UNCHANGED <<slot, sync, gate, blockers, captured>>

prepared(t) ==
  /\ At(t, "prepared")
  /\ preparing' = [preparing EXCEPT ![t] = @ - 1]
  /\ Advance(t)
  /\ UNCHANGED <<slot, sync, gate, blockers, captured>>

activate(t) ==
  /\ At(t, "activate")
  /\ blockers' = [blockers EXCEPT ![t] = @ + 1]
  /\ preparing' = [preparing EXCEPT ![t] = @ - 1]
  /\ Advance(t)
  /\ UNCHANGED <<slot, sync, gate, captured>>

\* retire, or allow_fork_opaque.
Unblock(t) ==
  /\ At(t, "retire") \/ At(t, "opaque")
  /\ blockers' = [blockers EXCEPT ![t] = @ - 1]
  /\ Advance(t)
  /\ UNCHANGED <<slot, sync, gate, preparing, captured>>

\* The chains of all other threads are frozen one after the other; one that
\* is being changed or holds an ordinary scope refuses.
capture_for_fork(t) ==
  LET left == {u \in Threads \ {t} : captured[u] # t} IN
  /\ At(t, "capture_for_fork")
  /\ IF left = {} THEN UNCHANGED captured /\ Advance(t)
     ELSE \E u \in left :
            IF captured[u] = None /\ preparing[u] = 0 /\ blockers[u] = 0
            THEN captured' = [captured EXCEPT ![u] = t] /\ UNCHANGED <<op, pc>>
            ELSE UNCHANGED captured /\ GoTo(t, Undo(pc[t] - Open))
  /\ UNCHANGED <<slot, sync, gate, preparing, blockers>>

release_chains(t) ==
  /\ At(t, "release_chains")
  /\ captured' = [u \in Threads |-> IF captured[u] = t THEN None ELSE captured[u]]
  /\ Advance(t)
  /\ UNCHANGED <<slot, sync, gate, preparing, blockers>>

(* Thread slots. *)

Becomes(t, u, state) ==
  /\ slot' = [slot EXCEPT ![u] = state]
  /\ Advance(t)
  /\ UNCHANGED <<sync, gate, chain>>

\* reserve_thread_control finds no free slot: the mutation is dropped.
reserve(t) ==
  /\ At(t, "reserve")
  /\ IF \E u \in Threads : slot[u] = "FREE"
     THEN \E u \in Threads : slot[u] = "FREE" /\ Becomes(t, u, "RESERVED")
     ELSE /\ GoTo(t, Len(Operations[op[t]]))
          /\ UNCHANGED <<slot, sync, gate, chain>>

\* ThreadCreate starts the thread of the reserved slot.
publish(t) ==
  /\ At(t, "publish")
  /\ \E u \in Threads : slot[u] = "RESERVED" /\ Becomes(t, u, "STARTING")

running(t) == At(t, "running") /\ Becomes(t, t, "RUNNING")

exited(t) == At(t, "exited") /\ Becomes(t, t, "EXITED")

\* A joiner, or the reaper of detached threads, claims an exited thread whose
\* native thread has retired.
reap(t) ==
  LET retired == {u \in Threads : slot[u] = "EXITED" /\ op[u] = None} IN
  /\ At(t, "reap")
  /\ \/ \E u \in retired : Becomes(t, u, "REAPING")
     \/ /\ retired = {}
        /\ GoTo(t, Len(Operations[op[t]]) + 1)
        /\ UNCHANGED <<slot, sync, gate, chain>>

Reaped(t) == At(t, "free") /\ \E u \in Threads : slot[u] = "REAPING" /\ Becomes(t, u, "FREE")

(* The rest of fork: the snapshot, and steps that may fail before it. *)

check_starting(t) ==
  /\ At(t, "check_starting")
  /\ IF \E u \in Threads \ {t} : slot[u] \in {"RESERVED", "STARTING"} THEN Fail(t) ELSE Advance(t)
  /\ UNCHANGED <<slot, sync, gate, chain>>

Fallible(t) ==
  /\ At(t, "prepare_fork") \/ At(t, "prepare_grants")
  /\ Advance(t) \/ Fail(t)
  /\ UNCHANGED <<slot, sync, gate, chain>>

capture_native(t) ==
  /\ At(t, "capture_native") \/ At(t, "skip")
  /\ Advance(t)
  /\ UNCHANGED <<slot, sync, gate, chain>>

Next ==
  \E t \in Threads :
    \/ op[t] = None /\ \E o \in Menu[t] : Begin(t, o)
    \/ lock(t) \/ unlock(t)
    \/ AcquireAgain(t) \/ BeginAttempt(t) \/ attempt(t) \/ release(t) \/ capture(t) \/ thaw_libc(t)
    \/ try_enter(t) \/ leave(t) \/ try_freeze(t) \/ thaw(t)
    \/ prepare(t) \/ prepared(t) \/ activate(t) \/ Unblock(t)
    \/ capture_for_fork(t) \/ release_chains(t)
    \/ reserve(t) \/ publish(t) \/ running(t) \/ exited(t) \/ reap(t) \/ Reaped(t)
    \/ check_starting(t) \/ Fallible(t) \/ capture_native(t)

Spec == Init /\ [][Next]_vars

-----------------------------------------------------------------------------
Snapshotting(t) == At(t, "capture_native")

OwnedBy(t, ms) == \A m \in ms : holder[m] \in {None, t}

\* The captured image has no critical section of a thread that will not exist
\* in the child: every runtime mutex the forking path accounts for and every
\* newlib lock is free or its own, no thread slot is being made, started or
\* reclaimed, and no other thread is changing its resource chain or holds a
\* scope whose native references the child would inherit without an owner.
SnapshotIsQuiescent ==
  \A t \in Threads : Snapshotting(t) =>
    /\ OwnedBy(t, Mutexes \ {"NAME"})
    /\ \A l \in LibcLocks : libc[l].owner \in {None, t}
    /\ \A u \in Threads \ {t} :
         /\ slot[u] \in {"FREE", "RUNNING", "EXITED", "REAPING"}
         /\ activity[u] = 0 /\ preparing[u] = 0 /\ blockers[u] = 0

\* "A simultaneous fork must not inherit a locked mutex owned by a vanished
\* thread" (dlfcn.rs), for every runtime mutex.
NoVanishedOwner == \A t \in Threads : Snapshotting(t) => OwnedBy(t, Mutexes)

\* The thread t waits for, or None.
WaitsFor(t) ==
  LET l == libc[Now(t).on] IN
  CASE At(t, "lock") -> holder[Now(t).on]
    [] At(t, "enter") -> freeze
    [] At(t, "prepare") -> captured[t]
    [] At(t, "capture") \/ At(t, "thaw_libc") -> holder["LOCKS"]
    [] At(t, "release") -> IF l.depth = 1 THEN holder["LOCKS"] ELSE None
    [] At(t, "acquire") ->
         IF l.owner = t \/ holder["LOCKS"] = t THEN None
         ELSE IF parked[t] = "frozen" /\ frozen_by # None THEN frozen_by
         ELSE IF parked[t] = "busy" /\ l.owner # None THEN l.owner
         ELSE holder["LOCKS"]
    [] OTHER -> None

\* No set of threads waits on itself: the order in which fork freezes and locks
\* agrees with the order of every other operation, a fork that cannot have a
\* gate refuses instead of waiting, and no thread waits for itself.
NoDeadlock ==
  \A S \in (SUBSET Threads) \ {{}} : \E t \in S : WaitsFor(t) \notin S
=============================================================================
