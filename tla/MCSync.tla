-------------------------------- MODULE MCSync --------------------------------
(* Threads share one object: a read-write lock, a condition variable, a        *)
(* semaphore, or the descriptor table, with two descriptors and three labels;  *)
(* or one thread takes signals.  `object` is chosen at first and stays.        *)
EXTENDS PthreadRwlock, TLC

CONSTANTS NoThread, MaxGeneration, MaxCalls, Cancelable,
          SemaphoreThreads, SemaphoreCancelable, VALUE_MAX, MaxPosts, MaxSignals,
          N, TableThreads, Fds, MaxReservations, MaxForks, ForkInCheck, StartupHandlers,
          Deliveries,
          MaxOperations,  \* operations on the table that a behaviour starts
          Objects         \* the objects that behaviours are about

VARIABLES object,
          generation, gate, waiters, c_initialized, holder, c_cancel_pending, cancel_state,
          c_multiplex_generation, c_canceling, c_pc, before, c_notification, previous, expired,
          canceled, calls, c_parked, audience, called,
          count, s_initialized, start, posted, returned, wakes, s_cancel_pending, s_canceling,
          s_multiplex_generation, signal_generation, s_pc, caught, s_notification, s_parked,
          entries, reservations, next_reservation, book, native, frames, d_gate, epoch, spawn,
          begun,
          stack, defer, scopes, g_frames, nextScope, nextFrame, delivery,
          process, upcall, mapped, registered, mask, buffer, jump, exited

condition == <<generation, gate, waiters, c_initialized, holder, c_cancel_pending, cancel_state,
               c_multiplex_generation, c_canceling, c_pc, before, c_notification, previous,
               expired, canceled, calls, c_parked, audience, called>>
semaphore == <<count, s_initialized, start, posted, returned, wakes, s_cancel_pending, s_canceling,
               s_multiplex_generation, signal_generation, s_pc, caught, s_notification, s_parked>>
table == <<entries, reservations, next_reservation, book, native, frames, d_gate, epoch, spawn,
           begun>>
signals == <<stack, defer, scopes, g_frames, nextScope, nextFrame, delivery,
             process, upcall, mapped, registered, mask, buffer, jump, exited>>
allvars == <<object, vars, condition, semaphore, table, signals>>

Conditions == INSTANCE PthreadCond WITH
  Notifiers <- Threads, initialized <- c_initialized, cancel_pending <- c_cancel_pending,
  multiplex_generation <- c_multiplex_generation, canceling <- c_canceling, pc <- c_pc,
  notification <- c_notification, parked <- c_parked

Semaphores == INSTANCE Semaphore WITH
  Threads <- SemaphoreThreads, Cancelable <- SemaphoreCancelable,
  initialized <- s_initialized, cancel_pending <- s_cancel_pending,
  multiplex_generation <- s_multiplex_generation, canceling <- s_canceling, pc <- s_pc,
  notification <- s_notification, parked <- s_parked

-----------------------------------------------------------------------------
(* The hash sends pairs of both threads to the same and to neighbouring        *)
(* buckets, so that groups are displaced, wrap around and are moved back.      *)
MCHome == [p \in (1..N) \X TableThreads |-> IF p[2] = 1 THEN N - 1 ELSE p[1] % N]

\* A handler may interrupt an operation of either thread.
MCDepth == [t \in TableThreads |-> 2]

\* Two owners of one label, standard I/O next to an owned label, and an
\* empty table.
MCLaunches ==
  LET entry(label, cloexec) == [label |-> label, cloexec |-> cloexec]
  IN  {(0 :> entry(1, FALSE) @@ 1 :> entry(1, FALSE)),
       (0 :> entry(0, FALSE) @@ 1 :> entry(1, TRUE)),
       (0 :> entry(-1, FALSE) @@ 1 :> entry(-1, FALSE))}

Table == INSTANCE Descriptors WITH
  Threads <- TableThreads, Home <- MCHome, Launches <- MCLaunches, MaxDepth <- MCDepth,
  CreateFlags <- BOOLEAN, gate <- d_gate

TableNext ==
  \E t \in TableThreads :
    \/ begun < MaxOperations /\ Table!Begins(t) /\ begun' = begun + 1
    \/ Table!Continues(t) /\ UNCHANGED begun

\* The first and the last delivery are of one signal.
MCSignalOf == [d \in Deliveries |-> IF d = 2 THEN 2 ELSE 1]

Delivery == INSTANCE Signals WITH SignalOf <- MCSignalOf, frames <- g_frames

-----------------------------------------------------------------------------
(* The variables of the objects that are not in use are 0; the read-write      *)
(* lock, whose definitions this module extends, stays in its initial state.    *)
ConditionOff ==
  /\ generation = 0 /\ gate = 0 /\ waiters = 0 /\ c_initialized = 0
  /\ holder = 0 /\ c_cancel_pending = 0 /\ cancel_state = 0
  /\ c_multiplex_generation = 0 /\ c_canceling = 0 /\ c_pc = 0 /\ before = 0
  /\ c_notification = 0 /\ previous = 0 /\ expired = 0 /\ canceled = 0
  /\ calls = 0 /\ c_parked = 0 /\ audience = 0 /\ called = 0

SemaphoreOff ==
  /\ count = 0 /\ s_initialized = 0 /\ start = 0 /\ posted = 0
  /\ returned = 0 /\ wakes = 0 /\ s_cancel_pending = 0 /\ s_canceling = 0
  /\ s_multiplex_generation = 0 /\ signal_generation = 0 /\ s_pc = 0
  /\ caught = 0 /\ s_notification = 0 /\ s_parked = 0

TableOff ==
  /\ entries = 0 /\ reservations = 0 /\ next_reservation = 0 /\ book = 0
  /\ native = 0 /\ frames = 0 /\ d_gate = 0 /\ epoch = 0 /\ spawn = 0
  /\ begun = 0

SignalsOff ==
  /\ stack = 0 /\ defer = 0 /\ scopes = 0 /\ g_frames = 0 /\ nextScope = 0
  /\ nextFrame = 0 /\ delivery = 0 /\ process = 0 /\ upcall = 0 /\ mapped = 0
  /\ registered = 0 /\ mask = 0 /\ buffer = 0 /\ jump = 0 /\ exited = 0

InitAll ==
  /\ object \in Objects
  /\ Init /\ (object # "rwlock" => word = 0)
  /\ IF object = "condition" THEN Conditions!Init ELSE ConditionOff
  /\ IF object = "semaphore" THEN Semaphores!Init ELSE SemaphoreOff
  /\ IF object = "table" THEN Table!Init /\ begun = 0 ELSE TableOff
  /\ IF object = "signals" THEN Delivery!Init ELSE SignalsOff

NextAll ==
  \/ /\ object = "rwlock" /\ Next
     /\ UNCHANGED <<object, condition, semaphore, table, signals>>
  \/ /\ object = "condition" /\ Conditions!Next
     /\ UNCHANGED <<object, vars, semaphore, table, signals>>
  \/ /\ object = "semaphore" /\ Semaphores!Next
     /\ UNCHANGED <<object, vars, condition, table, signals>>
  \/ /\ object = "table" /\ TableNext
     /\ UNCHANGED <<object, vars, condition, semaphore, signals>>
  \/ /\ object = "signals" /\ Delivery!Next
     /\ UNCHANGED <<object, vars, condition, semaphore, table>>

\* The threads nobody cancels are alike.
Symmetry == Permutations(Threads \ Cancelable)

SpecAll == InitAll /\ [][NextAll]_allvars

\* See PthreadCond: a signal is neither lost nor stolen, a broadcast reaches all.
SignalIsServed == object = "condition" => Conditions!SignalIsServed

\* See PthreadCond: nobody sleeps on after a cancel request.
CancelEndsWait == object = "condition" => Conditions!CancelEndsWait

\* See Semaphore: tokens are neither made nor lost.
TokensAccounted == object = "semaphore" => Semaphores!TokensAccounted

\* See Semaphore: nobody sleeps beside a token, a cancel or a handled signal.
NoStrandedWaiter == object = "semaphore" => Semaphores!NoStrandedWaiter

\* See Descriptors: no step uses a native handle that was closed.
NoUseAfterClose == object = "table" => Table!NoUseAfterClose

\* See Descriptors: a native handle without an owner is closed in the end.
NoHandleLeak == object = "table" => Table!NoHandleLeak

\* See Descriptors: every borrow is counted by the book.
PinsCounted == object = "table" => Table!PinsCounted

\* See Descriptors: a reserved descriptor belongs to one operation.
ReservationsOwned == object = "table" => Table!ReservationsOwned

\* See Signals: every delivery is completed once, in the process it belongs to.
DeliveriesSettled == object = "signals" => Delivery!DeliveriesSettled
=============================================================================
