--------------------------- MODULE ForkOperations ---------------------------
(***************************************************************************)
(* The runtime's operations as sequences of their synchronisation steps    *)
(* (crates/newlib-runtime); everything an operation does between two of    *)
(* them is left out.  The steps are those of the lifecycle gate            *)
(* (posix-client thread_lifecycle.rs), the resource chain of each thread   *)
(* (callback_resources.rs), the newlib locks and their registry            *)
(* (libc_lock.rs) and the runtime mutexes, whose own algorithm is taken as *)
(* a blocking lock.                                                        *)
(***************************************************************************)
EXTENDS Integers, Sequences, SequencesExt

Mutexes == {"GATE", "LOCKS", "POLICY", "REGISTRY", "ENDPOINT", "UPDATE", "ACTIONS",
            "STATE", "BORROWS", "REFERENCES", "TABLE", "NAME"}

LibcLocks == {"malloc", "stdio"}

-----------------------------------------------------------------------------
(* Steps.  A step acts on a lock, or on "" where it needs none. *)

Step(do, on) == <<[do |-> do, on |-> on]>>

Lock(m) == Step("lock", m)
Unlock(m) == Step("unlock", m)
Held(m, body) == Lock(m) \o body \o Unlock(m)
Touch(m) == Held(m, <<>>)

\* thread_lifecycle::mutate and the drop of its Mutation.
mutate(body) == Step("enter", "") \o body \o Step("leave", "")

\* A newlib lock of __retarget_lock_acquire_recursive.
Libc(l, body) == Step("acquire", l) \o body \o Step("release", l)

\* io_resources::with: Scope::new and activate, the operation, and retire,
\* which destroys the resource while it holds the preparation.
Scoped(body, destroy) ==
  Step("prepare", "") \o Step("activate", "") \o body
    \o Step("prepare", "") \o Step("retire", "") \o destroy \o Step("prepared", "")

\* with_fork_opaque: the scope stops refusing a fork once it is initialised.
ScopedOpaque(prepare, body, destroy) ==
  Step("prepare", "") \o Step("activate", "") \o prepare
    \o Step("prepare", "") \o Step("opaque", "") \o Step("prepared", "")
    \o body \o Step("prepare", "") \o destroy \o Step("prepared", "")

\* Lease::new under STATE, and the drop of a Lease.
with_fd_entry == Held("STATE", Touch("BORROWS"))
Lease_drop == Touch("BORROWS")

\* resource_policy::read, with the discovery that trims the heap.
policy_read == Held("POLICY", Touch("STATE"))

(* The operations. *)

\* malloc that grows the heap through _sbrk.
malloc == Libc("malloc", policy_read \o Touch("STATE"))

free == Libc("malloc", <<>>)

_close == Held("GATE", Touch("STATE") \o Touch("POLICY") \o with_fd_entry \o Touch("POLICY")
                         \o Lease_drop \o Held("STATE", Touch("BORROWS")))

dup2 == with_fd_entry \o Lease_drop \o policy_read
          \o Held("GATE", with_fd_entry \o Touch("POLICY") \o Held("STATE", Touch("BORROWS"))
                            \o Touch("STATE") \o Lease_drop)

\* A blocking record lock: the descriptor is pinned, then the scope is opaque.
F_SETLKW == ScopedOpaque(Held("GATE", with_fd_entry), <<>>, Lease_drop)

\* exec that fails: the snapshot's scope is nested in that of the call.
execve == Scoped(Held("GATE", with_fd_entry \o Scoped(Touch("POLICY"), Lease_drop)), <<>>)

\* A stream write under its FILE lock.
fwrite == Libc("stdio", Scoped(with_fd_entry, Lease_drop))

\* An application that keeps a stream locked between calls.
flockfile == Step("acquire", "stdio")
funlockfile == Step("release", "stdio")

socket_endpoint == Scoped(with_fd_entry \o Touch("ENDPOINT"), Lease_drop)

sigaction == Held("UPDATE", Touch("ACTIONS") \o Touch("ACTIONS"))

\* Mutant of pthread_atfork: the table grows while REGISTRY is held.
pthread_atforkNested == Held("REGISTRY", malloc) \o free

pthread_atfork == malloc \o Touch("REGISTRY") \o free

dlopen == Scoped(Touch("TABLE") \o malloc \o Touch("TABLE"), free \o Touch("TABLE"))

getexecname == Touch("NAME")

pthread_key_create == mutate(<<>>)

thread_reference == mutate(Touch("REFERENCES"))

pthread_create == policy_read \o mutate(Step("reserve", "") \o policy_read \o Touch("STATE")
                                          \o Step("publish", ""))

pthread_start_trampoline == mutate(policy_read \o thread_reference \o Step("running", ""))

finish_thread == Step("prepare", "") \o Step("prepared", "") \o Held("STATE", Step("exited", ""))

\* The reaper of an exited thread, which may flush that thread's streams.
reclaim_thread_control ==
  Step("reap", "") \o mutate(thread_reference \o fwrite \o Step("free", ""))

\* What clone_registered_process_owned acquires, in order.  Dropping a guard
\* undoes its acquisition, on return and on every error, in reverse order.
Acquisitions ==
  <<[do |-> "freeze", undo |-> "thaw", on |-> ""],
    [do |-> "capture_for_fork", undo |-> "release_chains", on |-> ""],
    [do |-> "lock", undo |-> "unlock", on |-> "GATE"],
    [do |-> "capture", undo |-> "thaw_libc", on |-> ""],
    [do |-> "acquire", undo |-> "release", on |-> "malloc"],
    [do |-> "lock", undo |-> "unlock", on |-> "POLICY"],
    [do |-> "check_starting", undo |-> "skip", on |-> ""],
    [do |-> "lock", undo |-> "unlock", on |-> "REGISTRY"],
    [do |-> "lock", undo |-> "unlock", on |-> "ENDPOINT"],
    [do |-> "lock", undo |-> "unlock", on |-> "UPDATE"],
    [do |-> "lock", undo |-> "unlock", on |-> "ACTIONS"],
    [do |-> "prepare_fork", undo |-> "skip", on |-> ""],
    [do |-> "lock", undo |-> "unlock", on |-> "STATE"],
    [do |-> "lock", undo |-> "unlock", on |-> "BORROWS"],
    [do |-> "prepare_grants", undo |-> "skip", on |-> ""],
    [do |-> "lock", undo |-> "unlock", on |-> "LOCKS"]>>

N == Len(Acquisitions)

\* Entry of fork's steps at which acquisition i is made, and undone.
Open == Len(Step("prepare", "") \o Step("activate", ""))
Undo(i) == Open + 2 * N + 2 - i

clone_registered_process_owned ==
  Scoped([i \in 1..N |-> [do |-> Acquisitions[i].do, on |-> Acquisitions[i].on]]
           \o Step("capture_native", "")
           \o [i \in 1..N |-> [do |-> Acquisitions[N + 1 - i].undo,
                               on |-> Acquisitions[N + 1 - i].on]], <<>>)

Operations ==
  [malloc |-> malloc, _close |-> _close, dup2 |-> dup2, F_SETLKW |-> F_SETLKW,
   execve |-> execve, fwrite |-> fwrite,
   flockfile |-> flockfile, funlockfile |-> funlockfile, socket_endpoint |-> socket_endpoint,
   sigaction |-> sigaction, pthread_atfork |-> pthread_atfork, dlopen |-> dlopen,
   getexecname |-> getexecname, pthread_key_create |-> pthread_key_create,
   thread_reference |-> thread_reference, pthread_create |-> pthread_create,
   finish_thread |-> finish_thread, reclaim |-> reclaim_thread_control,
   fork |-> clone_registered_process_owned,
   trampoline |-> pthread_start_trampoline]
=============================================================================
