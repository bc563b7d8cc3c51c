# TLA+ verification of the mochiOS user-space system libraries

The repository holds the user-space side of mochiOS: the C library runtime
(`crates/newlib-runtime`, on top of the platform-independent
`crates/posix-client`), the network stack, the certificate database, clients of
system services and the wire formats they speak. This directory models its
stateful parts in TLA+, checks them with TLC on small instances, and proves the
central results with TLAPS for every instance. All paths below are relative to
the repository.

`PROJECT.json` is the index: components, runs, the map from definitions to the
lines they model, findings, hazards and theorems. In the map, a constant, a set
of values or a codec that only serves one message format is covered by the lines
of the exchange or of the group of operations that uses it.

## 1. The system

| Part | State | Operations | What makes it hard |
|---|---|---|---|
| pthread mutex, condition, rwlock, barrier, once, semaphore | a few words in the object, the kernel's queue of threads parked on an address | lock/wait/signal/post ..., in slow and fast paths | interleaving at every atomic access; waits that fail, time out, are interrupted or canceled after a wake chose them |
| thread cancellation | pending flag, state, multiplex generation | cancel, testcancel, setcancelstate | a request between the test and the park |
| file descriptors | FD table with reserved slots, borrow book of native labels, operations in progress | open/pipe/recvmsg, leases, close, dup2, exec | close under a running read, fork in a handler, labels that are reused |
| fork, spawn, exec | a dozen locks and gates, copied address space | `clone_registered_process_owned`, file actions, exec | the copy catches siblings inside critical sections; lock order |
| child creation | child process, registration at the POSIX service, status streams | create, commit, resume, wait, cleanup | replies lost, handlers that abandon the call |
| signals | masks, action table, nested contexts, alternate stacks | upcall, dispatch, return, `siglongjmp` | nesting, abandonment, races with waits |
| timers, clocks | expirations, callback dispatcher | settime, delete, expiry | late expirations, dispatcher generations |
| dynamic loader | images, dependency order, symbol scopes, TLS | load, relocate, initialize, finalize | order, failure half way |
| POSIX service client | endpoint, requests, attached handles | one RPC per call | replies that carry handles |
| TCP | two ends, a table of connections and listeners | handshake, data, close, retransmission, accept, prune | loss, duplication, reordering, wrap-around of sequence numbers |
| ARP, DHCP, DNS, UDP | caches, leases, transactions | request, answer, time-out | late and repeated answers |
| certificate database | two slot files per kind, a state file, memory | load, persist, mark checked | a stop between any two file operations |
| protocols, parsers, crypto | none | encode, decode, verify | boundaries |

The runtime is the centre: nearly every function a C or Rust program calls goes
through the synchronisation objects, the descriptor table and the fork gates.
The kernel and the services are outside the
repository; what the code relies on of them is modelled from its use and marked
external in the map (address waits, native handles, file operations).

## 2. Modules and the code they model

An action is one atomic step of the code: one access to a shared word, one
critical section under a lock that is never held across a wait, or one kernel
call. A thread has a program counter (`pc`) with one value per place where it
can be preempted with an effect on others. Data is reduced to what decides
control. Paths are below `crates/`.

| Module | Code | State and steps |
|---|---|---|
| `PthreadMutex` | `posix-client/src/pthread_mutex.rs`, `newlib-runtime/src/pthread_mutex.rs` | the word 0/1/2, owner, depth, waiter count, parked and woken threads; every kind, timed and untimed, destroy |
| `AbstractLock` | — | what a lock promises: free, held by one thread, given to one that asked |
| `PthreadCond` | `posix-client/src/pthread_cond.rs`, `newlib-runtime/src/pthread_cond.rs`, `lib.rs` (`pthread_cancel`) | generation and gate words, the mutex as an owner, deferred cancellation; wait, timed wait, signal, broadcast, destroy |
| `Semaphore` | `posix-client/src/semaphore.rs`, `newlib-runtime/src/semaphore.rs` | the count word, signals and cancels that end a wait |
| `PthreadRwlock` | `posix-client/src/pthread_rwlock.rs`, `newlib-runtime/src/pthread_rwlock.rs` | the word with its writer bit, waits on a snapshot of it |
| `PthreadBarrier` | `posix-client/src/pthread_barrier.rs`, `newlib-runtime/src/pthread_barrier.rs` | the three counters, tickets, the reset at the end of the range |
| `PthreadOnce` | `posix-client/src/pthread_once.rs`, `newlib-runtime/src/pthread_once.rs` | the control word and the cleanup of a canceled initializer |
| `Threads` | `newlib-runtime/src/lib.rs`, `thread_join.rs`, `thread_reference.rs`, `thread_lifecycle.rs` | the slots of THREADS with their generations, native threads, join claims, the lifecycle gate, REFERENCES; create, start, exit, join, detach, reap, cancel, kill, fork |
| `Signals` | `newlib-runtime/src/signal_*.rs`, `lib.rs` | one thread's deliveries from preparation to release, nested handlers, the exchange of upcall stacks, `siglongjmp` over handlers, a fork inside one, requests that fail |
| `Timers` | `newlib-runtime/src/process_timer.rs`, `timer_callbacks.rs`, `thread_clock.rs`, `lib.rs` | the service's timers, the callback registry, the dispatcher thread and its jobs, the book of failed clean-ups; create, delete, arm, expire, exit, fork |
| `ForkOperations`, `ForkSnapshot` | `newlib-runtime/src/lib.rs` (`clone_registered_process_owned`), `callback_resources.rs`, `libc_lock.rs`, `thread_lifecycle.rs`, `atfork.rs` | mutexes, libc lock registry, lifecycle gate, resource chains; twenty operations of siblings as sequences of synchronisation steps |
| `Descriptors` | `posix-client/src/handle_borrow.rs`, `fd.rs`, `newlib-runtime/src/fd_lease.rs`, `fd_creation.rs`, `record_lock.rs`, `lib.rs`, `file_mutation.rs`, `socket_message.rs` | FD table, the borrow book with its open-addressing table and back-shift deletion, open native labels, a stack of operations per thread (signal handlers nest), fork epoch, spawn child |
| `ChildLaunch` | `newlib-runtime/src/lib.rs` (`clone_registered_process_owned`, `CloneStartup`, `spawn_with_resources`), `spawn_resources.rs`, `spawn_output.rs`, `fork_policy.rs`, `child_cleanup.rs`, `child_startup.rs`, `startup_stream.rs`, `posix-client/src/fork.rs`, `spawn.rs` | the parent's owner of streams, token, child and handle; the service's queue, tokens and registrations; the child from stopped to its new image |
| `ResourcePolicy` | `posix-protocol/src/resource_policy.rs`, `newlib-runtime/src/resource_policy.rs` | the page as a history of stores per word, publishers, the reader's view of the weak memory, the mapping and its loss at fork |
| `PosixClient` | `posix-client/src/*.rs` | every request as a transaction: rights of attached handles, replies that are well formed, refused, malformed or lost, returned handles, clean-up; two threads |
| `CertificateStore` | `certificate-database/src/storage.rs` | slot files, state file, process memory; load with repair, read-only load, persist, mark checked, stops |
| `Tcp` | `network-stack/src/tcp.rs`, `tcp/dispatch.rs` | both ends of a connection and a network that loses, repeats and reorders |
| `TcpListener` | `network-stack/src/tcp/passive.rs` | rows shared by listeners and connections, backlog, ready queue, pruning |
| `Dns` | `network-stack/src/dns.rs`, `dns/` | answers decoded into records, alias paths, negative answers, the cache with capacity and ages, retries |
| `Wire` | — | symbolic bytes: a byte is a field value and its position in it; layouts, encoders and decoders |
| `PosixProtocol`, `WorkspaceProtocol`, `AccountProtocols`, `CapabilityProtocol`, `FilesystemProtocol`, `NetDeviceProtocol`, `GpuProtocols`, `ServiceMessages`, `Signatures`, `Packets` | the protocol crates, `certificate`, `elf-signature`, `network-stack` (packet formats) | one definition per encoder and per decoder, with the offsets, widths and checks of its own code |
| `*Proofs` | — | the theorems of section 5 |

The modules that start with `MC` instantiate these for TLC. Each composes
several components: a variable (`object` or `part`) chosen in the initial state
among the constant `Objects` or `Parts` says which of them steps, so each
behaviour is a behaviour of one component and the variables of the others stand
still.

How they interact: `PthreadCond` uses the abstract lock for its mutex, which
`PthreadMutex` is shown to implement. `Descriptors` takes from `ForkSnapshot`
that a fork meets other threads only outside mutations and with the record gate
free (`Capturable`); `ForkSnapshot` in turn treats what the operations do to
their data as opaque, and `Threads` refines the one part of it that concerns
the thread table. `ChildLaunch` starts where they end, with the captured image,
and leaves to them what the image holds. `PosixClient` carries the messages
whose formats `PosixProtocol` gives. `Tcp` and `TcpListener` meet at the state
of a connection: the table sees only that one completes, dies or is closed.

## 3. Runs

| Run | Instance | Shows |
|---|---|---|
| `sync_live` | three threads on a mutex (three kinds, depth 2), a barrier (two per round, reset at 5) or a once control (two aborts) | `WaitersCounted`, `NoLostWakeup`, `ImplementsLock`; `NoEarlyRelease`; `InitializedOnce`; progress: `FreeMutexIsTaken`, `RoundsProceed`, `CallReturns` |
| `sync` | three threads on a rwlock (writer bit 3) or a condition (two generations, two calls, one cancelable thread), two on a semaphore (maximum 2, two posts, one signal); two threads at two descriptors with three labels, three operations, two reservations, one fork; three deliveries of two signals to a thread, one fork | `WordTellsHolders`, `NoLostWakeup`; `SignalIsServed`, `CancelEndsWait`; `TokensAccounted`, `NoStrandedWaiter`; `NoUseAfterClose`, `NoHandleLeak`, `PinsCounted`, `ReservationsOwned`; `DeliveriesSettled` |
| `data` | every message format over samples that include every optional part, limit and refused value, and one altered byte or length; a certificate store of two kinds, versions 1 to 3, two generations | `RoundTrip`, `OnlyCanonical`; `CommittedSurvives`, `EtagOfActiveSnapshot` |
| `services` | two names, lives 1 and 2, cache capacities 1 and 2; sequence space 16 with initial numbers that wrap, segments and buffers of two bytes; four handles, backlogs 1 and 2; two client threads, handle numbers 1 to 7, no handles kept | `AnswersHold`; `StreamIntegrity`, `OrderlyClose`; `BacklogAccountsForAll`; `HandlesSettled`, `AttachedWithinSource` |
| `runtime` | three slots and three native threads with three menus (two creations and a cancel, a kill, a fork); timers of two threads with one callback thread, capacity 2, four menus | `NoEarlyReclamation`, `JoinerIsWoken`; `TimersAccounted`, `NotificationsCurrent`, `LastThreadEndsProcess` |
| `process` | two calls of fork or posix_spawn, two requests waiting at the service; three thread slots with two forking threads and a menu of operations; one reader, two publishers, one resource, generation up to 5 | `OutcomeIsTrue`, `RunsRegistered`; `SnapshotIsQuiescent`, `NoDeadlock`; `NoTornLimits`; progress: `CallEnds` |
| `mutex_lost_selection`, `fork_name_lock`, `descriptors_fork_leak`, `descriptors_spawn_overwrite`, `child_launch_esrch`, `join_lost_cancel` | one component of these instances with one assumption or menu changed | violations, section 6 |

Bounds. Three threads are a holder, a sleeper and a third that barges in or is
woken wrongly; the arguments of section 5 do not depend on the number. Counters
that the code keeps in 32 or 64 bits are bounded by a constant with the code's
own behaviour at the limit (`WRITER`, `RESET_BOUND`, `VALUE_MAX`,
`MaxGeneration` of the store, `SeqSpace`), so the boundary is reached.
`MaxPosts`, `MaxSignals`, `MaxCalls`, `MaxAborts`, `MaxInFlight`, `TotalBytes`,
`MaxReservations`, `MaxForks`, `MaxOperations`, `MaxAttempts`, `MaxStores`,
`MaxQueue` and the menus only stop the environment. Three descriptor operations
are a creation or a lease, a close, a replacement or a handler under it, and a
fork or a spawn; three labels make the pin table of the instance collide,
wrap around and fill up. The kernel is assumed to give out the lowest free label
and native thread, which makes stale ones meet their reuse soonest. With two
launches a request of the first that is still at the service can meet the
second. Three thread slots are a target, its joiner or reaper, and the thread
that is given the slot next. The two threads of the timers differ in nothing, so
a timer on the clock of the first stands for one on either's. The deliveries of
one signal are numbered in the order of their generation.

What the bounds leave out: no DNS record of the run has a life of zero or one
with the top bit set (`normalize_ttl` makes the second the first). Two ends of
this TCP never get to the branch of `on_segment` for text that exceeds the
buffer: a sender uses a window only while everything it sent is acknowledged,
and at that point of the stream the peer's room has only grown since. The
clients of the POSIX service keep no handle a reply gave them (`MaxKept` is 0):
the handles they attach are the three they start with and a mutation's ticket.

Fairness is assumed in two runs. In `sync_live` a thread that can take a step
inside an operation takes it (the kernel schedules runnable threads), and a
thread that holds a mutex unlocks it. Threads need not start operations, and a
parked thread moves only when something wakes it. In `process`, for child
creation, the caller and the service run, a terminated or exiting process dies,
a child in startup or setup runs, and the transport does not fail forever;
without the last the cleanup loops of `fork_policy.rs` and `lib.rs`, which by
design never give up, need not end. Everywhere else progress is stated as an
invariant of quiescent states (nobody can move, so nobody who should have been
woken may be parked), which needs no fairness.

Deadlock checking is off where a system may rest: all threads parked on an
object nobody will signal again, all streams closed, all operations done.

## 4. Properties worth reading first

* `NoLostWakeup` (mutex): while a thread sleeps, the word is 2 or a thread is on
  its way to set it or to wake. A single dropped mark breaks it several steps
  later.
* `SignalIsServed`, `NoStrandedWaiter`: a signal or a token given to a waiter
  that is canceled or interrupted at that moment is not lost.
* `NoEarlyReclamation`: stack, TLS and control block of a thread outlive the
  thread and everybody who works on them, although a slot is given back by
  whichever of joiner, reaper, failed creator or forked child comes last.
* `JoinerIsWoken`: a joiner sleeps only beside a thread that will still tell it.
* `CommittedSurvives`: whatever write was cut off, the next load finds a
  snapshot at least as new as the last one handed out.
* `StreamIntegrity`: bytes are delivered once and in order although segments of
  this and an earlier connection are replayed.
* `SnapshotIsQuiescent`, `NoDeadlock`: the fork takes its locks without ever
  waiting in a circle, and copies no locked lock of another thread.
* `NoUseAfterClose`, `NoHandleLeak`: each native label is open as long as
  somebody may use it and has an owner as long as it is open, in the process
  and in every child.
* `OutcomeIsTrue`, `RunsRegistered`: a commit whose reply is lost, a child that
  dies at any moment and a handler that jumps out of the call never leave a
  registered, running or owned child behind a failure, and a returned PID is a
  child's.
* `NoTornLimits`: a reader never combines the soft limit of one publication with
  the hard limit of another, whatever order the loads take effect in.
* `HandlesSettled`: every handle a reply brings is owned or closed exactly once,
  also when the reply is malformed or its clean-up is refused. The clean-ups that
  look for repeated numbers and for attached ones get them; the plain loops
  (`close_syscall_attachments`, `named_semaphore.rs`) rely on the kernel giving
  each handle a number of its own.
* `NotificationsCurrent`: what a function or handler is called with was resolved
  while its timer existed, in this process, and is that timer's own value. The
  call comes after the lock is released, so a deletion may come between:
  "If snapshot won, its copied value remains deliverable" (`signal_info.rs:31`).
* `RoundTrip`, `OnlyCanonical`: decoding inverts encoding, and what a decoder
  accepts an encoder would have written, over the samples of every message.
* `PinsCounted`: the hash table of pins agrees with the leases that exist, so
  the assertions in `Book::release` hold.

Every property has a mutant of a mapped definition, written next to the
definition, that violates it.

## 5. What is proved

TLAPS checks these theorems for every instance: any finite set of threads, any
position of the limits, any number of calls. What a proof asks of the constants
is an `ASSUME` of the component's module, or the hypothesis `Constants` of the
theorem: a finite set of threads that does not hold the value for "nobody",
limits that are natural numbers, positive where the code divides by them or
recurses on them, snapshots with positive versions, files distinct from
snapshots. Each proof is an inductive invariant (`IInv`, which TLC checked on
the instances of section 3 first), one lemma per group of its conjuncts with a
case for every action, and a last step of temporal logic.

*Mutex* (`SyncLiveProofs`). `Exclusion` is inductive with `Typed`: at most
one thread is past its acquisition, the word is 0 exactly when none is, and a
thread that released the owner field still has the swap of the word before it
(`SwapAfterOwner`) — without that conjunct a second thread could enter between
the two. From it: `MutexExclusion`, `StateWord`, and, with the cardinality of
the registered threads carried through each step, `WaiterCount` and
`TypeCorrectness`. `WakeupsReachSleepers` proves `NoLostWakeup` together with
`Parked`, which says that the kernel's two sets split the threads inside a
wait; its assumption `~LostSelection` is the kernel behaviour discussed in
section 6. `Refinement` maps each thread to asking, holding or idle and shows
that every step is a step of `AbstractLock` or changes nothing it sees.

*Condition variable* (`PthreadCondProofs`, `SyncProofs`). `SignalIsServed` and
`CancelEndsWait` speak of a system at rest and say nothing of the steps before.
The invariant says who still owes what: while somebody a signal was for sleeps,
another thread it was for is on its way out of the wait and will take the signal
or pass it on, or the wake is still to come and can only hit such threads
(`Promised`); a broadcast that a sleeper is owed has still to wake
(`Broadcasting`); a cancel that came after the last check is still to be
notified or has moved the word that parking compares (`Noted`). `Promised`
rests on the generation: nobody registers while the gate is held, so every
sleeper of that moment is of an earlier generation (`Gated`, `Earlier`), and on
the exact count of waiters (`Counted`), by which the last one out knows that
nobody is left to serve. Results: `SignalsReachTheirAudience`,
`CancelsReachSleepers`. `SyncProofs` carries them, and those of the semaphore,
over to the specification that the run `sync` checks, in which `object`
chooses the component that moves: the steps of that specification are steps of
the component, or leave it alone.

*Read-write lock* (`PthreadRwlockProofs`). That the word tells the holders is
inductive with exclusion and with the fact that a holder is outside every call;
`SleepersHaveAReason` adds that a caller about to wait has seen a lock it could
not have (`SnapshotsAreBusy`). Results: `HoldersAreTold`, `WriterIsAlone`,
`SleepersHaveAReason`.

*Semaphore* (`SemaphoreProofs`, `SyncProofs`). `NoTokenIsLost` carries the number of threads
past the exchange through every step. For `NobodyIsStranded` a thread past its
checks either still sees the word it compares or has no reason to end that it
will not be told of (`ReasonsAreNotified`), and a token beside a sleeper has its
broadcast still to come (`TokensAreAnnounced`).

*Barrier* (`SyncLiveProofs`). `NobodyLeavesEarly` needs the counters through
their reset: every ticket is held or handed back, and whoever resets does so
while nobody holds a ticket or can get one (`TicketsCounted`).

*Once* (`SyncLiveProofs`). `RoutineRunsOnce` proves `InitializedOnce` for any set
of threads and any number of aborted runs. The invariant says what the word
tells (`OnceTells`): it is RUNNING while a thread runs the routine, and there is
one such thread; it is COMPLETE once the routine has ended, which it does once,
and before anybody returns.

*Resource policy* (`ResourcePolicyProofs`). `LimitsAreNeverTorn` is the sequence
lock under weakly ordered loads, for any number of publications. An even
generation carries the positions of the limits it decided (`Covers`), whatever
was stored after them carries a later generation (`Later`), one publisher at a
time is between the two generations (`OnePublisher`); so a reader that sees the
same even generation behind its second fence has read, for both limits, stores
of that generation (`Reading`).

*Certificate store* (`CertificateStoreProofs`). `CommittedSurvives` alone is not
inductive: the load's choice depends on the state file and on both slots. `IInv`
adds that a state file which matches the slot it names is not older than what
was handed out (`FileIsCurrent`), that memory describes the files
(`MemoryIsCurrent`), that a requested snapshot is newer (`RequestIsNewer`) and
that the state about to be written describes the files (`NextIsCurrent`).
`LoadFindsNewest` and `LoadedStateDescribes` say what the load returns. Results:
`NeverRolledBack` and `EtagMatches`.

*Child creation* (`ChildLaunchProofs`). `LaunchedChildIsRegistered` proves
`RunsRegistered` for every number of calls and every length of the service's
queue, with a transport that may fail with `ESRCH` or not. Stale requests make
it non-inductive: one left in the queue by an abandoned call could undo a later
registration. `IInv` adds that the parent waits only for the youngest request in
the queue (`WaitsForLast`), that a reply of success to a commit means a
registration (`Registers`), and that every abort in the queue is about a child
whose exit was confirmed (`AbortsTheDead`), so nothing in the queue can take the
registration of a child that runs.

`ReportedOutcomeIsTrue` proves `OutcomeIsTrue`, that a failed `fork` or
`posix_spawn` left nothing behind and a PID is a child as promised. Its invariant
(`OInv`) follows a call from its first token to its report: which of the token,
the child and the streams the parent holds at each point of the call
(`TokensHeld`, `ChildHeld`, `StreamsHeld`), that an answer it has read is the
answer to its own request, with no older one behind it (`AnswersAreCurrent`),
when a call has its outcome (`Decided`), what a published child has done
(`Published`), and that only a failing call asks for an abort
(`OnlyFailingAborted`), so that a registration once reported stays
(`StaysRegistered`). Its assumption `~TransportEsrch` excludes the transport
error that section 6 discusses, with which TLC refutes the property.

Only model-checked: all progress (`FreeMutexIsTaken`, `RoundsProceed`,
`CallReturns`, `CallEnds`; fairness and `ENABLED` are beyond the prover); what
recursive definitions compute, since induction over data is beyond it too: the
codecs (`RoundTrip`, `OnlyCanonical`) and the back-shift deletion behind
`PinsCounted`; and the invariants of the components without a proof module
(threads, signals, timers, fork snapshot, descriptors, TCP, DNS, POSIX client).

## 6. Findings

* **A lost selection strands a mutex waiter** (`mutex_lost_selection`,
  `pthread_mutex.rs:148`). If a wait that consumed a wake ends with an error
  after another thread took the fast path, the word stays 1 beside a sleeper.
* **`getexecname` and fork** (`fork_name_lock`, `executable_name.rs:26`). The
  name's mutex is taken outside every gate that fork freezes, so the child can
  inherit it locked by a thread it does not have.
* **An unscoped lease and fork** (`descriptors_fork_leak`, `fd_lease.rs:128`).
  `dup`, `dup2` and `F_DUPFD` look at their source through a lease that is in no
  callback scope. A fork between the release of its pin and the native close
  gives the child a reference without owner.
* **A spawn child forgets its handlers' work** (`descriptors_spawn_overwrite`,
  `lib.rs:9590`). The child replaces its table by the snapshot after signal
  delivery is open.
* **A transport error taken for an answer** (`child_launch_esrch`,
  `child_cleanup.rs:47`). `ESRCH` of the transport and `ESRCH` of the service
  become one number before `Cleanup::retry` looks at it; the first leaves the
  child registered. `fork_policy.rs` keeps the two apart.
* **A joiner sleeps through its cancellation** (`join_lost_cancel`,
  `thread_join.rs:70`). `pthread_join` tests for cancellation before it reads the
  wake word; a cancel between the two is in the word already, so the wait parks.
  `clock_nanosleep` takes the two in the other order.

The passing runs exclude the first five behaviours by constants
(`LostSelection`, `ForkInCheck`, `StartupHandlers`, `TransportEsrch`) or by the
menu of operations, and one more by `LateFailure`; nothing else.
`CancelEndsJoin`, the property of the sixth, is only checked in its own run.

`LateFailure` is a race that the search for an inductive invariant of `Threads`
brought up. A reaper that saw the slot of an exited thread may claim it
(`lib.rs:1468`) after the slot has been given back and reserved for a thread
created detached. The comment there says that the reaper revalidates "this
generation" once it has claimed it. If the creation then fails
(`lib.rs:8665`-`8683`) the creator reclaims the slot whatever is claimed in it,
and the reaper's second look is at whoever has the slot next: it may reap, or
turn into a detached thread, a thread that is meant to be joined. With
`LateFailure = TRUE`, three slots, four native threads and five creations, all by
the initial thread, TLC reaches a state that violates `NoEarlyReclamation` after
63 steps. The instance of the `runtime` run is too small for it and that one too
large to search in minutes, so no run of the project shows this race.

Observations that no statement in the repository contradicts: a segment that is
retransmitted carries the acknowledgment it was first sent with, which the peer
refuses once it is older than what it has (`tcp.rs:489`), and no zero-window
probe exists (`tcp.rs:473`), so TCP progress under loss is not claimed; readers
of the certificate database in other processes are not serialised with the
updater (`storage.rs:193`); a preparation whose reply is lost stays at the
service, because only the reply carries its token (`fork_policy.rs:13`); a timer
whose `timer_create` reply is lost is left to the service's clean-up at process
exit; destruction of a mutex reads state and waiter count separately
(`pthread_mutex.rs:176`); several encoders leave checks to their decoders
(section 7).

## 7. What the models leave out

* *Mutex, rwlock, barrier, semaphore, condition, once.* Sequentially consistent
  words; attribute objects; the failure of mutex calls inside a condition wait.
* *Threads.* Sequential consistency; the wrap of the 26-bit generation; the
  search for a free slot is one step; the initial thread does not exit; a program
  joins or detaches a thread once, and neither one created detached nor one
  that a fork left behind; creation of a detached thread does not fail after its
  detach state is set (`LateFailure`, section 6). Asynchronous cancellation, the interrupt of a
  record lock wait, thread-specific data and the cached token of the running
  thread are left out.
* *Signals.* Requests that change the mask succeed; a delivery whose reply is lost stays at the service, because
  only the reply has its token; synchronous faults, the choice
  of an alternate stack, register contexts, job control, `sa_mask`, `SA_NODEFER`
  and jumps that do not restore the mask are left out; one `sigjmp_buf` is set
  once; `SIGCONT` cancels only before the origin is looked up.
* *Timers.* Timer ids are not reused; the thread clock of
  `pthread_getcpuclockid` is the caller's own clock; callback threads make no
  timer calls; `pthread_create` of a callback is one step. Lost replies of
  `timer_wait_callback`, the receiver's pause after one, time values and overrun
  counts are left out.
* *Resource policy.* Loads are weakly ordered, stores are `SeqCst` as in the code;
  every attempt of a reader starts from the weakest view, which only adds
  behaviours; one fork is followed.
* *POSIX client.* The kernel gives the handles of a reply fresh and distinct
  numbers ("real kernel replies allocate distinct local slots",
  `socket_transfer.rs`), or zero. Numbers that repeat, or that were attached, reach
  only the clean-ups that defend against them, as in the tests with other
  transports; the transport's own loop and that of `named_semaphore.rs` would
  close such a number twice. Error kinds, `retry` and conversions of the client value are
  left out; a request that cannot be encoded changes nothing.
* *DNS.* Names are symbols (their text and compression are in the code only);
  the alias depth limit is not reached; a positive alias path does not remove
  the negative entries of other names, as in the code.
* *TCP.* Header encoding is in `Packets`; SYN text, which this code never sends,
  ownership checks and the searches for ports and handles are left out.
* *Formats.* Error codes and the capacity of output buffers; hashes and signatures
  are ideal and external; the limit of the ELF note scan is TLC's largest
  integer; the other end of DHCP is external. Outside the samples, because encoder
  and decoder disagree or the code relies on its caller: a lone quotation mark
  in `validate_etag`, a source path longer than its 16-bit length in
  `PrepareBundleRequest`, texts of `VerifiedResponse`, a zero resource of
  `ResourceFlush`, batches of the compositor, certificate names of the form
  `x.x.x`, a datagram sent to 0.0.0.0:0 (decoded as none), provenance 0 (read as
  a verified package), statuses, regions and observations whose encoders leave
  the check to the decoder. `MCData` lists them (`Unread`, `Open`, `Lax`).

Not modelled: the dynamic loader (some fifteen thousand lines of computation
over ELF images; a model that keeps their control is as long as the code),
program launch, heap and address space, HTTP and TLS clients, the user database,
package manifests, register-level system call wrappers, C structure layouts,
build scripts, and the generated curve table of the GPU protocol.
`PROJECT.json` gives the reason for each.

Still worth doing: composing `ChildLaunch` with `Descriptors`, for handlers that
fork above a running spawn, and thread-specific data with its destructors.
