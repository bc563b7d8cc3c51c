---------------------------- MODULE PthreadRwlock ----------------------------
(***************************************************************************)
(* Read-write locks in one 32-bit word:                                    *)
(* crates/posix-client/src/pthread_rwlock.rs under the acquire loop of     *)
(* crates/newlib-runtime/src/pthread_rwlock.rs.                            *)
(*                                                                         *)
(* WRITER is 2^31 in the code and a parameter here; the two marks above it *)
(* keep their order.  A compare-exchange loop is one atomic step.          *)
(***************************************************************************)
EXTENDS Integers, FiniteSets

CONSTANTS
    Threads,
    WRITER

ASSUME ThreadsFinite == IsFiniteSet(Threads)
ASSUME WriterMark == WRITER \in Nat \ {0}

MAX_READERS == WRITER - 1
DESTROYED == WRITER + 1
INITIALIZER == WRITER + 2

VARIABLES
    word,
    mode,       \* what the application holds: "none", "read" or "write"
    pc,
    expected,   \* the Busy snapshot a caller is about to wait on
    parked

vars == <<word, mode, pc, expected, parked>>

Goto(t, label) == pc' = [pc EXCEPT ![t] = label]

Acquiring == {"rdlock", "wrlock", "rdwait", "wrwait", "rdparked", "wrparked"}
PCs == Acquiring \union {"idle", "wake"}

\* Statically initialised, or by pthread_rwlock_init.
Init ==
    /\ word \in {0, INITIALIZER}
    /\ mode = [t \in Threads |-> "none"]
    /\ pc = [t \in Threads |-> "idle"]
    /\ expected = [t \in Threads |-> 0]
    /\ parked = {}

-----------------------------------------------------------------------------
\* rdlock and wrlock, timed or not; a thread holds the lock once at most.
acquire(t) ==
    /\ pc[t] = "idle"
    /\ mode[t] = "none"
    /\ \E label \in {"rdlock", "wrlock"} : Goto(t, label)
    /\ UNCHANGED <<word, mode, expected, parked>>

\* current: the static initializer becomes 0 on first use, by whoever comes first.
current(t) ==
    /\ pc[t] \in {"rdlock", "wrlock"}
    /\ word = INITIALIZER
    /\ word' = 0
    /\ UNCHANGED <<mode, pc, expected, parked>>

Granted(t, m) ==
    /\ mode' = [mode EXCEPT ![t] = m]
    /\ Goto(t, "idle")
    /\ UNCHANGED <<expected, parked>>

\* Busy carries the exact snapshot the caller waits on.
Busy(t, label) ==
    /\ expected' = [expected EXCEPT ![t] = word]
    /\ Goto(t, label)
    /\ UNCHANGED <<word, mode, parked>>

\* Invalid and ReaderLimit return to the caller.
Refused(t) == Goto(t, "idle") /\ UNCHANGED <<word, mode, expected, parked>>

\* Mutant of try_read: the reader limit is off by one.
try_read_over(t) ==
    /\ pc[t] = "rdlock"
    /\ word # INITIALIZER
    /\ \/ word < WRITER /\ word' = word + 1 /\ Granted(t, "read")
       \/ word = WRITER /\ Busy(t, "rdwait")
       \/ word = DESTROYED /\ Refused(t)

try_read(t) ==
    /\ pc[t] = "rdlock"
    /\ word # INITIALIZER
    /\ \/ word < MAX_READERS /\ word' = word + 1 /\ Granted(t, "read")
       \/ word = WRITER /\ Busy(t, "rdwait")
       \/ word \in {MAX_READERS, DESTROYED} /\ Refused(t)

\* Mutant of try_write: a writer enters beside a single reader.
try_write_upgrades(t) ==
    /\ pc[t] = "wrlock"
    /\ word # INITIALIZER
    /\ \/ word \in {0, 1} /\ word' = WRITER /\ Granted(t, "write")
       \/ word \in 2..WRITER /\ Busy(t, "wrwait")
       \/ word = DESTROYED /\ Refused(t)

try_write(t) ==
    /\ pc[t] = "wrlock"
    /\ word # INITIALIZER
    /\ \/ word = 0 /\ word' = WRITER /\ Granted(t, "write")
       \/ word \in 1..WRITER /\ Busy(t, "wrwait")
       \/ word = DESTROYED /\ Refused(t)

\* Mutant of Wait: the word is reloaded before the wait is entered.
WaitReloads(t) ==
    /\ \/ pc[t] = "rdwait" /\ Goto(t, "rdparked")
       \/ pc[t] = "wrwait" /\ Goto(t, "wrparked")
    /\ parked' = parked \union {t}
    /\ UNCHANGED <<word, mode, expected>>

\* WaitOnAddress parks only while the word still equals the snapshot.
Wait(t) ==
    /\ \/ pc[t] = "rdwait" /\ Goto(t, IF word = expected[t] THEN "rdparked" ELSE "rdlock")
       \/ pc[t] = "wrwait" /\ Goto(t, IF word = expected[t] THEN "wrparked" ELSE "wrlock")
    /\ parked' = IF word = expected[t] THEN parked \union {t} ELSE parked
    /\ UNCHANGED <<word, mode, expected>>

\* Awoken: another attempt.
Retry(t) ==
    /\ t \notin parked
    /\ \/ pc[t] = "rdparked" /\ Goto(t, "rdlock")
       \/ pc[t] = "wrparked" /\ Goto(t, "wrlock")
    /\ UNCHANGED <<word, mode, expected, parked>>

\* A signal handler interrupts the wait, which then retries.
Interrupt(t) ==
    /\ t \in parked
    /\ parked' = parked \ {t}
    /\ UNCHANGED <<word, mode, pc, expected>>

\* DeadlineReached, before the wait or in it: ETIMEDOUT without the lock.
TimedOut(t) ==
    /\ pc[t] \in {"rdwait", "wrwait", "rdparked", "wrparked"}
    /\ parked' = parked \ {t}
    /\ Goto(t, "idle")
    /\ UNCHANGED <<word, mode, expected>>

\* tryrdlock and trywrlock: one attempt; Busy is returned.
TryLock(t) ==
    /\ pc[t] = "idle"
    /\ mode[t] = "none"
    /\ LET value == IF word = INITIALIZER THEN 0 ELSE word IN
       \/ value < MAX_READERS /\ word' = value + 1 /\ Granted(t, "read")
       \/ value = 0 /\ word' = WRITER /\ Granted(t, "write")

\* unlock by a holder: the release that leaves 0 has to wake the waiters.
unlock(t) ==
    /\ pc[t] = "idle"
    /\ mode[t] # "none"
    /\ word \in 1..WRITER
    /\ word' = IF word = WRITER THEN 0 ELSE word - 1
    /\ mode' = [mode EXCEPT ![t] = "none"]
    /\ Goto(t, IF word' = 0 THEN "wake" ELSE "idle")
    /\ UNCHANGED <<expected, parked>>

\* The broadcast of pthread_rwlock_unlock.
Wake(t) ==
    /\ pc[t] = "wake"
    /\ parked' = {}
    /\ Goto(t, "idle")
    /\ UNCHANGED <<word, mode, expected>>

\* destroy, with no operation pending as POSIX demands: Busy while it is held.
destroy(t) ==
    /\ \A u \in Threads : pc[u] = "idle"
    /\ word \in {0, INITIALIZER}
    /\ word' = DESTROYED
    /\ UNCHANGED <<mode, pc, expected, parked>>

\* pthread_rwlock_init of a destroyed lock.
initialize(t) ==
    /\ \A u \in Threads : pc[u] = "idle"
    /\ word = DESTROYED
    /\ word' = 0
    /\ UNCHANGED <<mode, pc, expected, parked>>

Internal(t) ==
    current(t) \/ try_read(t) \/ try_write(t) \/ Wait(t) \/ Retry(t) \/ Wake(t)

External(t) ==
    \/ acquire(t) \/ TryLock(t) \/ Interrupt(t) \/ TimedOut(t) \/ unlock(t)
    \/ destroy(t) \/ initialize(t)

Next == \E t \in Threads : Internal(t) \/ External(t)

Spec == Init /\ [][Next]_vars

-----------------------------------------------------------------------------
Readers == {t \in Threads : mode[t] = "read"}
Writers == {t \in Threads : mode[t] = "write"}

TypeOK ==
    /\ word \in 0..INITIALIZER
    /\ mode \in [Threads -> {"none", "read", "write"}]
    /\ pc \in [Threads -> PCs]
    /\ expected \in [Threads -> 0..WRITER]
    /\ parked \subseteq Threads

\* A writer is alone, for every interleaving of exchanges and at the reader limit.
Exclusion ==
    \A t, u \in Threads : mode[t] = "write" /\ mode[u] # "none" => t = u

\* The word counts the readers, or is the writer's mark, or is not in use.  A
\* reader count never reaches the mark, and a held lock is never destroyed.
WordTellsHolders ==
    IF Writers # {} THEN word = WRITER
    ELSE IF Readers # {} THEN word = Cardinality(Readers) /\ word <= MAX_READERS
    ELSE word \in {0, DESTROYED, INITIALIZER}

\* A parked reader waits for a writer, and a parked writer for some holder, unless
\* the broadcast of the release is still to come: no sleeper of a lock it could have.
NoLostWakeup ==
    \/ \E u \in Threads : pc[u] = "wake"
    \/ \A t \in parked :
        /\ pc[t] = "rdparked" => word = WRITER
        /\ pc[t] = "wrparked" => word \in 1..WRITER
=============================================================================
