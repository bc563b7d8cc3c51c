----------------------------- MODULE Descriptors -----------------------------
(***************************************************************************)
(* The file descriptors of a newlib-runtime process: the FD table (fd.rs), *)
(* the borrow book of native Handles (handle_borrow.rs, fd_lease.rs), the  *)
(* operations of its threads, and fork, posix_spawn and exec.              *)
(*                                                                         *)
(* STATE serializes the table and the book, so what happens under it is    *)
(* one step.  A thread's operations form a stack: a signal handler starts  *)
(* one above an operation it interrupted.  After a fork the behaviour      *)
(* goes on in the child, for the parent is not changed by it.              *)
(***************************************************************************)
EXTENDS Integers, FiniteSets, Sequences, SequencesExt

-----------------------------------------------------------------------------
(* handle_borrow.rs: the lifetime pins of native Handle labels.  A book has    *)
(* one slot per label and an open-addressing table of N groups that counts     *)
(* the pins of each (label, owner) pair.  Labels are one-based, and owner 0    *)
(* stands for nobody.  Every operator maps a book to a book.                   *)

CONSTANTS N,     \* labels, and buckets of the table
          Home   \* Home[label, owner], the bucket the hash gives a pair

Labels == 1..N

Buckets == 0..(N - 1)

EmptyGroup == [label |-> 0, owner |-> 0, readers |-> 0]

FreshSlot == [readers |-> 0, additional_owners |-> 0, retired |-> FALSE, private |-> FALSE]

new == [slots |-> [l \in Labels |-> FreshSlot], groups |-> [b \in Buckets |-> EmptyGroup]]

-----------------------------------------------------------------------------
\* The bucket of the pair, or the first empty one; none in a full table.
bucket(groups, label, owner) ==
  LET at(i) == (Home[label, owner] + i) % N
      fits == {i \in Buckets : \/ groups[at(i)].label = 0
                               \/ groups[at(i)].label = label /\ groups[at(i)].owner = owner}
  IN  IF fits = {} THEN {} ELSE {at(Min(fits))}

distance(from, to) == (to - from) % N

\* Mutant of remove_group: the bucket is emptied and nothing moves back.
remove_groupInPlace(groups, index) == [groups EXCEPT ![index] = EmptyGroup]

\* Back-shift deletion: a later group of the same run moves into the hole
\* when that brings it nearer to its home.
remove_group(groups, index) ==
  LET shift[i \in Buckets] ==
        IF i = 0
        THEN [groups |-> [groups EXCEPT ![index] = EmptyGroup], hole |-> index, done |-> FALSE]
        ELSE LET s == shift[i - 1]
                 next == (index + i) % N
                 group == s.groups[next]
                 home == Home[group.label, group.owner]
             IN  CASE s.done \/ group.label = 0 -> [s EXCEPT !.done = TRUE]
                   [] distance(home, s.hole) < distance(home, next) ->
                        [s EXCEPT !.groups[s.hole] = group, !.groups[next] = EmptyGroup,
                                  !.hole = next]
                   [] OTHER -> s
  IN  shift[N - 1].groups

\* pin_owned succeeds on a label that is not retired, with room for its pair.
MayPin(book, label, owner) ==
  ~book.slots[label].retired /\ bucket(book.groups, label, owner) # {}

pin_owned(book, label, owner) ==
  LET b == CHOOSE b \in bucket(book.groups, label, owner) : TRUE
  IN  [book EXCEPT !.slots[label].readers = @ + 1,
                   !.groups[b] = [label |-> label, owner |-> owner, readers |-> @.readers + 1]]

MayPinPrivate(book, label, owner) ==
  /\ MayPin(book, label, owner)
  /\ book.slots[label].readers = 0 /\ book.slots[label].additional_owners = 0

pin_private(book, label, owner) ==
  [pin_owned(book, label, owner) EXCEPT !.slots[label].retired = TRUE,
                                        !.slots[label].private = TRUE]

\* release answers whether the caller now closes the native reference.
release(book, label, owner) ==
  LET b == CHOOSE b \in bucket(book.groups, label, owner) : TRUE
      left == [book.groups EXCEPT ![b].readers = @ - 1]
      groups == IF left[b].readers = 0 THEN remove_group(left, b) ELSE left
      slot == [book.slots[label] EXCEPT !.readers = @ - 1]
      close == slot.readers = 0 /\ slot.retired
  IN  [close |-> close,
       book |-> [slots |-> [book.slots EXCEPT ![label] =
                   IF close THEN [slot EXCEPT !.retired = FALSE, !.private = FALSE] ELSE slot],
                 groups |-> groups]]

\* Mutant of retire: operations that still use the label are not waited for.
retireNow(book, label) ==
  LET slot == book.slots[label] IN
  IF slot.additional_owners # 0
  THEN [close |-> FALSE, book |-> [book EXCEPT !.slots[label].additional_owners = @ - 1]]
  ELSE [close |-> TRUE, book |-> book]

\* A descriptor gives its reference up: the last one closes the label, now or
\* when the last pin is released.
retire(book, label) ==
  LET slot == book.slots[label] IN
  CASE slot.additional_owners # 0 ->
         [close |-> FALSE, book |-> [book EXCEPT !.slots[label].additional_owners = @ - 1]]
    [] slot.additional_owners = 0 /\ slot.readers = 0 -> [close |-> TRUE, book |-> book]
    [] OTHER -> [close |-> FALSE, book |-> [book EXCEPT !.slots[label].retired = TRUE]]

\* A label that no descriptor and no operation of the survivor owns.
discarded_by_fork(book, label, owner) ==
  /\ book.slots[label].retired
  /\ \/ book.slots[label].private
     \/ \A b \in Buckets : book.groups[b].label = label => book.groups[b].owner # owner

\* The book of a forked child: the pins of the other threads and every private
\* pin are gone, one group after the other.
discard_for_fork(book, owner) ==
  LET foreign(k) == {b \in Buckets : /\ k.groups[b].label # 0
                                     /\ \/ k.groups[b].owner # owner
                                        \/ k.slots[k.groups[b].label].private}
      after[i \in 0..N] ==
        IF i = 0 THEN book
        ELSE LET k == after[i - 1]
                 b == Min(foreign(k))
             IN  IF foreign(k) = {} THEN k
                 ELSE [slots |-> [k.slots EXCEPT ![k.groups[b].label].readers =
                                                   @ - k.groups[b].readers],
                       groups |-> remove_group(k.groups, b)]
      kept == after[N]
      closed == {l \in Labels : kept.slots[l].retired /\ kept.slots[l].readers = 0}
  IN  [closed |-> closed,
       book |-> [kept EXCEPT !.slots = [l \in Labels |->
                   IF l \in closed THEN [@[l] EXCEPT !.retired = FALSE, !.private = FALSE]
                   ELSE @[l]]]]

-----------------------------------------------------------------------------
(* The table, its threads and their operations. *)
CONSTANTS Threads,          \* the identities of runtime threads, not 0
          Fds,              \* 0..limit-1
          Launches,         \* tables a process may be launched with
          MaxReservations,  \* generations a table may issue
          MaxForks,
          MaxDepth,         \* [Threads -> operations at a time]
          CreateFlags,      \* the FD_CLOEXEC new descriptors may be given
          ForkInCheck,      \* may a fork meet an unscoped lease being dropped?
          StartupHandlers   \* may a handler run before a spawn child adopts its table?

VARIABLES entries,       \* [Fds -> entries of the table]
          reservations,  \* [Fds -> generation, 0 for none]
          next_reservation,
          book,          \* BORROWS
          native,        \* the labels that are open natively
          frames,        \* [Threads -> operations, the innermost first]
          gate,          \* holder of the record-lock gate, 0 for none
          epoch,         \* FORK_EPOCH
          spawn          \* what the process is to posix_spawn

vars == <<entries, reservations, next_reservation, book, native, frames, gate, epoch, spawn>>

table == <<entries, reservations, next_reservation>>

None == [label |-> -1, cloexec |-> FALSE]

\* Label 0 is a descriptor without a native reference (standard I/O).
Entry(label, cloexec) == [label |-> label, cloexec |-> cloexec]

Open(fd) == entries[fd] # None

is_free(fd) == entries[fd] = None /\ reservations[fd] = 0

FreeFrom(minimum) == {fd \in Fds : fd >= minimum /\ is_free(fd)}

Frame(op, kind, slots, handles, label, ep) ==
  [op |-> op, kind |-> kind, slots |-> slots, handles |-> handles, label |-> label, epoch |-> ep]

Idle(t) == frames[t] = <<>>

Top(t) == frames[t][1]

\* A spawn child never returns to what the thread was doing before.
At(t, op) ==
  /\ ~Idle(t) /\ Top(t).op = op
  /\ spawn.phase # "none" => Top(t).epoch = epoch

Begin(t, frame) == frames' = [frames EXCEPT ![t] = <<frame>> \o @]

Become(t, frame) == frames' = [frames EXCEPT ![t] = <<frame>> \o Tail(@)]

End(t) == frames' = [frames EXCEPT ![t] = Tail(@)]

\* A spawn child runs on the thread that called posix_spawn: it adopts the
\* table it was cloned with, applies the file actions and calls exec.
NoSpawn == [owner |-> 0, phase |-> "none", entries |-> <<>>, next |-> 0]

\* A handler may interrupt an operation that waits; an operation that holds the
\* gate or drops a scoped reference defers delivery.
MayBegin(t) ==
  /\ ~Idle(t) => Top(t).op \in {"create", "lease", "private", "check", "closecheck", "dup"}
  /\ Len(frames[t]) < MaxDepth[t]
  /\ spawn.phase # "none" => spawn.owner = t
  /\ spawn.phase = "cloned" => StartupHandlers

\* The book an application of native labels leads to, and what it closes.
Settled(r, label) == [book |-> r.book, closed |-> IF r.close THEN {label} ELSE {}]

Released(b, label, t) ==
  IF label = 0 THEN [book |-> b, closed |-> {}] ELSE Settled(release(b, label, t), label)

Retired(b, label) ==
  IF label = 0 THEN [book |-> b, closed |-> {}] ELSE Settled(retire(b, label), label)

\* with_fd_entry: the entry is read and its label pinned under STATE.
MayLease(t, fd) ==
  Open(fd) /\ (entries[fd].label # 0 => MayPin(book, entries[fd].label, t))

Leased(b, label, t) == IF label = 0 THEN b ELSE pin_owned(b, label, t)

\* The kernel gives the lowest free label out, which soonest reuses one.
Free == Labels \ native

Lowest(n, S) == SubSeq(SetToSortSeq(S, LAMBDA a, b : a < b), 1,
                       IF n < Cardinality(S) THEN n ELSE Cardinality(S))

SetOf(s) == {s[i] : i \in DOMAIN s}

-----------------------------------------------------------------------------
\* A launch context may give several descriptors the same label: the first
\* registers it and the others retain it.
Sharers(es, label) == Cardinality({fd \in Fds : es[fd].label = label})

Restored(es) ==
  [new EXCEPT !.slots = [l \in Labels |->
     [@[l] EXCEPT !.additional_owners = IF Sharers(es, l) > 1 THEN Sharers(es, l) - 1 ELSE 0]]]

LabelsOf(es) == {es[fd].label : fd \in Fds} \cap Labels

Init ==
  /\ entries \in Launches
  /\ reservations = [fd \in Fds |-> 0]
  /\ next_reservation = 0
  /\ book = Restored(entries)
  /\ native = LabelsOf(entries)
  /\ frames = [t \in Threads |-> <<>>]
  /\ gate = 0
  /\ epoch = 0
  /\ spawn = NoSpawn

-----------------------------------------------------------------------------
(* Operations that create descriptors: open, socket, accept and the PTY    *)
(* master reserve one slot, pipe, socketpair and openpty a pair with two   *)
(* generations, recvmsg a group of the lowest free slots with one.         *)

Wanted == [one |-> 1, pair |-> 2, group |-> 2]

\* Operations that wait on a descriptor (accept, recvmsg, openat) lease it too.
reserve(t, kind, source) ==
  LET indices == Lowest(Wanted[kind], FreeFrom(0))
      count == Len(indices)
      generation(i) == next_reservation + (IF kind = "pair" THEN i ELSE 1)
      slots == [i \in 1..count |-> <<indices[i], generation(i)>>]
      issued == CASE count = 0 -> 0 [] kind = "pair" -> 2 [] OTHER -> 1
  IN
  /\ MayBegin(t)
  /\ source # -1 => MayLease(t, source)
  /\ kind # "group" => count = Wanted[kind]
  /\ next_reservation + issued <= MaxReservations
  /\ next_reservation' = next_reservation + issued
  /\ reservations' = [fd \in Fds |->
       IF \E i \in 1..count : indices[i] = fd
       THEN generation(CHOOSE i \in 1..count : indices[i] = fd) ELSE reservations[fd]]
  /\ book' = IF source = -1 THEN book ELSE Leased(book, entries[source].label, t)
  /\ Begin(t, Frame("create", kind, slots, <<>>,
                    IF source = -1 THEN 0 ELSE entries[source].label, epoch))
  /\ UNCHANGED <<entries, native, gate, epoch, spawn>>

\* The creation is over; its lease, if any, is dropped last.
Leave(t) ==
  IF Top(t).label = 0 THEN End(t)
  ELSE Become(t, Frame("leave", "", <<>>, <<>>, Top(t).label, Top(t).epoch))

\* The kernel or the service hands the new references over.
obtain(t) ==
  LET f == Top(t) IN
  /\ At(t, "create") /\ f.handles = <<>> /\ f.slots # <<>>
  /\ \E n \in 1..Len(f.slots) :
       LET handles == Lowest(n, Free) IN
       /\ f.kind # "group" => n = Len(f.slots)
       /\ Len(handles) = n
       /\ native' = native \cup SetOf(handles)
       /\ Become(t, [f EXCEPT !.handles = handles])
  /\ UNCHANGED <<table, book, gate, epoch, spawn>>

\* Mutant of Holds: only the slot is looked at, not the generation.
HoldsAny(slot) == reservations[slot[1]] # 0 /\ entries[slot[1]] = None

\* The slot still belongs to the reservation.
Holds(slot) == reservations[slot[1]] = slot[2] /\ entries[slot[1]] = None

\* commit_reservation, commit_pair and commit_group.
commit(t) ==
  LET f == Top(t)
      mine(fd) == {i \in DOMAIN f.slots : f.slots[i][1] = fd}
      at(fd) == CHOOSE i \in mine(fd) : TRUE
  IN
  /\ At(t, "create")
  /\ f.kind # "group" => f.handles # <<>>
  /\ \A i \in DOMAIN f.slots : Holds(f.slots[i])
  /\ \E cloexec \in CreateFlags :
       entries' = [fd \in Fds |->
         IF mine(fd) # {} /\ at(fd) <= Len(f.handles)
         THEN Entry(f.handles[at(fd)], cloexec) ELSE entries[fd]]
  /\ reservations' = [fd \in Fds |-> IF mine(fd) # {} THEN 0 ELSE reservations[fd]]
  /\ Leave(t)
  /\ UNCHANGED <<next_reservation, book, native, gate, epoch, spawn>>

\* Mutant of Abandoned: what was received is forgotten.
AbandonedOpen(f) == {}

\* The references an abandoned creation closes.
Abandoned(f) == SetOf(f.handles)

\* An error, a refused commit or a handler that jumps out: the slots that are
\* still this operation's are cancelled and its references closed.
rollback(t) ==
  LET f == Top(t) IN
  /\ At(t, "create")
  /\ reservations' = [fd \in Fds |->
       IF \E i \in DOMAIN f.slots : f.slots[i][1] = fd /\ Holds(f.slots[i])
       THEN 0 ELSE reservations[fd]]
  /\ native' = native \ Abandoned(f)
  /\ Leave(t)
  /\ UNCHANGED <<entries, next_reservation, book, gate, epoch, spawn>>

-----------------------------------------------------------------------------
(* Leases. *)

\* read, write, ioctl, fsync, ...: an I/O scope that owns a lease.
lease(t, fd) ==
  /\ MayBegin(t) /\ MayLease(t, fd)
  /\ book' = Leased(book, entries[fd].label, t)
  /\ Begin(t, Frame("lease", "", <<>>, <<>>, entries[fd].label, epoch))
  /\ UNCHANGED <<table, native, gate, epoch, spawn>>

\* adopt_private: a reference that no descriptor names (a CPU sleep, a wait on
\* a FIFO).  Where the book refuses it, it is closed again.
adopt_private(t, label) ==
  /\ MayBegin(t)
  /\ label \in SetOf(Lowest(1, Free))
  /\ MayPinPrivate(book, label, t)
  /\ native' = native \cup {label}
  /\ book' = pin_private(book, label, t)
  /\ Begin(t, Frame("private", "", <<>>, <<>>, label, epoch))
  /\ UNCHANGED <<table, gate, epoch, spawn>>

is_current(f) == f.op # "private" \/ f.epoch = epoch

\* Drop for Lease: the pin goes back to the book, and then, outside its lock,
\* the label is closed where the book says so.
drop_lease(t) ==
  LET f == Top(t)
      r == Released(book, f.label, t)
  IN
  /\ \E op \in {"lease", "private", "check", "leave"} : At(t, op)
  /\ IF ~is_current(f) THEN End(t) /\ UNCHANGED book
     ELSE /\ book' = r.book
          /\ IF r.closed # {}
             THEN Become(t, [f EXCEPT !.op = IF @ = "check" THEN "closecheck" ELSE "close"])
             ELSE IF f.op = "check" THEN Become(t, [f EXCEPT !.op = "dup", !.label = 0])
             ELSE End(t)
  /\ UNCHANGED <<table, native, gate, epoch, spawn>>

close_dropped(t) ==
  /\ At(t, "close") \/ At(t, "closecheck")
  /\ native' = native \ {Top(t).label}
  /\ IF Top(t).op = "closecheck" THEN Become(t, [Top(t) EXCEPT !.op = "dup", !.label = 0])
     ELSE End(t)
  /\ UNCHANGED <<table, book, gate, epoch, spawn>>

-----------------------------------------------------------------------------
(* close, dup, dup2 and the descriptor flags. *)

close(t, fd) ==
  LET r == Retired(book, entries[fd].label) IN
  /\ MayBegin(t) /\ gate = 0
  /\ Open(fd) /\ reservations[fd] = 0
  /\ entries' = [entries EXCEPT ![fd] = None]
  /\ book' = r.book
  /\ native' = native \ r.closed
  /\ UNCHANGED <<reservations, next_reservation, frames, gate, epoch, spawn>>

\* F_SETFD.
set_descriptor_flags(t, fd) ==
  /\ MayBegin(t) /\ gate = 0
  /\ Open(fd)
  /\ entries' = [entries EXCEPT ![fd].cloexec = ~@]
  /\ UNCHANGED <<reservations, next_reservation, book, native, frames, gate, epoch, spawn>>

\* dup, F_DUPFD and dup2 look at the source before they take the gate, through
\* a lease that no scope owns.
check(t, fd, to) ==
  /\ MayBegin(t) /\ MayLease(t, fd)
  /\ book' = Leased(book, entries[fd].label, t)
  /\ Begin(t, Frame("check", "", <<<<fd, to>>>>, <<>>, entries[fd].label, epoch))
  /\ UNCHANGED <<table, native, gate, epoch, spawn>>

\* clone_handle: a new label, or none for a descriptor without one.
Clones(label) == IF label = 0 THEN {0} ELSE SetOf(Lowest(1, Free))

\* duplicate_from, under the gate and STATE: the lowest free slot.  It fails
\* where the source has been closed, no slot is free or no label is.
duplicate_from(t) ==
  LET fd == Top(t).slots[1][1]
      free == FreeFrom(0)
  IN
  /\ At(t, "dup") /\ Top(t).slots[1][2] = -1
  /\ gate = 0
  /\ IF ~Open(fd) \/ free = {} \/ Clones(entries[fd].label) = {}
     THEN UNCHANGED <<entries, native>>
     ELSE \E label \in Clones(entries[fd].label), cloexec \in CreateFlags :
            /\ entries' = [entries EXCEPT ![Min(free)] = Entry(label, cloexec)]
            /\ native' = native \cup ({label} \cap Labels)
  /\ End(t)
  /\ UNCHANGED <<reservations, next_reservation, book, gate, epoch, spawn>>

\* record_lock::duplicate: the destination is pinned and reserved and the
\* source cloned under STATE, which is then released for the record-lock RPC.
DupFails(t, fd, to) ==
  \/ ~Open(fd) \/ fd = to \/ reservations[to] # 0
  \/ Open(to) /\ ~MayLease(t, to)
  \/ Clones(entries[fd].label) = {}

duplicate(t) ==
  LET fd == Top(t).slots[1][1]
      to == Top(t).slots[1][2]
      generation == next_reservation + 1
  IN
  /\ At(t, "dup") /\ to # -1
  /\ gate = 0
  /\ IF DupFails(t, fd, to)
     THEN End(t) /\ UNCHANGED <<table, book, native, gate>>
     ELSE \E label \in Clones(entries[fd].label) :
            /\ generation <= MaxReservations
            /\ next_reservation' = generation
            /\ reservations' = [reservations EXCEPT ![to] = generation]
            /\ book' = IF Open(to) THEN Leased(book, entries[to].label, t) ELSE book
            /\ native' = native \cup ({label} \cap Labels)
            /\ gate' = t
            /\ Become(t, Frame("dup2", "", <<<<to, generation>>>>, <<label>>,
                               IF Open(to) THEN entries[to].label ELSE 0, epoch))
            /\ UNCHANGED entries
  /\ UNCHANGED <<epoch, spawn>>

\* The replacement is committed and the displaced entry retired, which the
\* pin turns into a retirement that cannot fail; then the pin is dropped.
commit_replacement(t) ==
  LET f == Top(t)
      to == f.slots[1][1]
      displaced == entries[to]
      r == IF displaced = None THEN [book |-> book, closed |-> {}]
           ELSE Retired(book, displaced.label)
      d == Released(r.book, f.label, t)
  IN
  /\ At(t, "dup2")
  /\ reservations[to] = f.slots[1][2]
  /\ reservations' = [reservations EXCEPT ![to] = 0]
  /\ entries' = [entries EXCEPT ![to] = Entry(f.handles[1], FALSE)]
  /\ book' = d.book
  /\ native' = (native \ r.closed) \ d.closed
  /\ gate' = 0
  /\ End(t)
  /\ UNCHANGED <<next_reservation, epoch, spawn>>

\* The record-lock RPC failed: Drop for Duplicate.
cancel_replacement(t) ==
  LET f == Top(t)
      to == f.slots[1][1]
      d == Released(book, f.label, t)
  IN
  /\ At(t, "dup2")
  /\ reservations' = [reservations EXCEPT ![to] = IF @ = f.slots[1][2] THEN 0 ELSE @]
  /\ book' = d.book
  /\ native' = (native \ SetOf(f.handles)) \ d.closed
  /\ gate' = 0
  /\ End(t)
  /\ UNCHANGED <<entries, next_reservation, epoch, spawn>>

-----------------------------------------------------------------------------
(* fork, posix_spawn and exec. *)

\* capture_for_fork admits another thread that is in no scope, or in scopes
\* that own nothing but pins.  A lease being dropped in a scope counts as a
\* mutation; the one of a check is in no scope and is not noticed.
Capturable(u) ==
  \A i \in DOMAIN frames[u] :
    \/ frames[u][i].op \in {"lease", "private", "check", "dup"}
    \/ frames[u][i].op = "closecheck" /\ ForkInCheck

\* What the child of thread t starts with.
Child(t) ==
  LET excluded == {l \in native : discarded_by_fork(book, l, t)}
      d == discard_for_fork(book, t)
  IN
  /\ MayBegin(t) /\ gate = 0
  /\ epoch < MaxForks
  /\ \A u \in Threads \ {t} : Capturable(u)
  /\ native' = (native \ excluded) \ (d.closed \ excluded)
  /\ book' = d.book
  /\ reservations' = [fd \in Fds |-> 0]
  /\ frames' = [u \in Threads |-> IF u = t THEN frames[u] ELSE <<>>]
  /\ epoch' = epoch + 1
  /\ UNCHANGED <<entries, next_reservation, gate>>

fork(t) == Child(t) /\ spawn.phase = "none" /\ UNCHANGED spawn

posix_spawn(t) ==
  /\ Child(t) /\ spawn.phase = "none"
  /\ spawn' = [owner |-> t, phase |-> "cloned", entries |-> entries, next |-> next_reservation]

\* The child's own step, not a handler's.
SpawnChild(t, phase) ==
  /\ spawn.owner = t /\ spawn.phase = phase
  /\ \A i \in DOMAIN frames[t] : frames[t][i].epoch < epoch

\* state().fds = desired_fds.
adopt(t) ==
  /\ SpawnChild(t, "cloned")
  /\ entries' = spawn.entries
  /\ reservations' = [fd \in Fds |-> 0]
  /\ next_reservation' = spawn.next
  /\ spawn' = [NoSpawn EXCEPT !.owner = t, !.phase = "acting"]
  /\ UNCHANGED <<book, native, frames, gate, epoch>>

close_for_spawn(t, fd) ==
  LET r == Retired(book, entries[fd].label) IN
  /\ SpawnChild(t, "acting")
  /\ Open(fd)
  /\ entries' = [entries EXCEPT ![fd] = None]
  /\ book' = r.book
  /\ native' = native \ r.closed
  /\ UNCHANGED <<reservations, next_reservation, frames, gate, epoch, spawn>>

\* A descriptor duplicated onto itself only loses FD_CLOEXEC.
duplicate_for_spawn(t, fd, to) ==
  LET r == IF Open(to) THEN Retired(book, entries[to].label) ELSE [book |-> book, closed |-> {}]
  IN
  /\ SpawnChild(t, "acting")
  /\ Open(fd)
  /\ IF fd = to
     THEN /\ entries' = [entries EXCEPT ![fd].cloexec = FALSE]
          /\ UNCHANGED <<next_reservation, book, native>>
     ELSE \E label \in Clones(entries[fd].label) :
            /\ next_reservation < MaxReservations
            /\ next_reservation' = next_reservation + 1
            /\ entries' = [entries EXCEPT ![to] = Entry(label, FALSE)]
            /\ book' = r.book
            /\ native' = (native \cup ({label} \cap Labels)) \ r.closed
  /\ UNCHANGED <<reservations, frames, gate, epoch, spawn>>

\* The target is closed first, even where the open then fails, and its slot
\* reserved.
open_for_spawn(t, fd) ==
  LET r == IF Open(fd) THEN Retired(book, entries[fd].label) ELSE [book |-> book, closed |-> {}]
      generation == next_reservation + 1
  IN
  /\ SpawnChild(t, "acting")
  /\ Len(frames[t]) < MaxDepth[t]
  /\ generation <= MaxReservations
  /\ entries' = [entries EXCEPT ![fd] = None]
  /\ book' = r.book
  /\ native' = native \ r.closed
  /\ next_reservation' = generation
  /\ reservations' = [reservations EXCEPT ![fd] = generation]
  /\ Begin(t, Frame("create", "one", <<<<fd, generation>>>>, <<>>, 0, epoch))
  /\ UNCHANGED <<gate, epoch, spawn>>

\* execve succeeds: the descriptors without FD_CLOEXEC go through the launch
\* context, and the new image restores them.  Nothing else survives.
exec(t) ==
  /\ MayBegin(t) /\ gate = 0
  /\ \A fd \in Fds : Open(fd) => MayLease(t, fd)
  /\ entries' = [fd \in Fds |-> IF entries[fd].cloexec THEN None ELSE entries[fd]]
  /\ native' = LabelsOf(entries')
  /\ book' = Restored(entries')
  /\ reservations' = [fd \in Fds |-> 0]
  /\ next_reservation' = 0
  /\ frames' = [u \in Threads |-> <<>>]
  /\ epoch' = 0
  /\ spawn' = NoSpawn
  /\ UNCHANGED gate

\* An operation starts.
Begins(t) ==
  \/ \E kind \in {"one", "pair"} : reserve(t, kind, -1)
  \/ \E kind \in {"one", "group"}, fd \in Fds : reserve(t, kind, fd)
  \/ \E fd \in Fds : lease(t, fd) \/ close(t, fd) \/ set_descriptor_flags(t, fd)
  \/ \E fd \in Fds, to \in Fds \cup {-1} : check(t, fd, to)
  \/ \E label \in Labels : adopt_private(t, label)
  \/ fork(t) \/ posix_spawn(t) \/ exec(t)
  \/ \E fd \in Fds : close_for_spawn(t, fd) \/ open_for_spawn(t, fd)
  \/ \E fd, to \in Fds : duplicate_for_spawn(t, fd, to)

\* An operation that has started goes on.
Continues(t) ==
  \/ obtain(t) \/ commit(t) \/ rollback(t)
  \/ drop_lease(t) \/ close_dropped(t)
  \/ duplicate_from(t) \/ duplicate(t) \/ commit_replacement(t) \/ cancel_replacement(t)
  \/ adopt(t)

Next == \E t \in Threads : Begins(t) \/ Continues(t)

Spec == Init /\ [][Next]_vars

-----------------------------------------------------------------------------
\* The pins of thread t on a label, one per frame that owns a lease.
Pins(t, label) ==
  Cardinality({i \in DOMAIN frames[t] :
                 /\ frames[t][i].op \notin {"close", "closecheck"}
                 /\ frames[t][i].label = label
                 /\ is_current(frames[t][i])})

FramesOf(t) == SetOf(frames[t])

\* Whatever other threads close, replace or fork, a label that a descriptor
\* names, that an operation pinned, or that a creation was given, is open.
NoUseAfterClose ==
  /\ LabelsOf(entries) \subseteq native
  /\ \A t \in Threads : \A f \in FramesOf(t) :
       /\ is_current(f) => {f.label} \cap Labels \subseteq native
       /\ SetOf(f.handles) \cap Labels \subseteq native

\* Every open label has an owner that will close it: a descriptor, the pin of
\* an operation, a creation, or a drop under way.  A forked child owns in this
\* sense all it inherited.
NoHandleLeak ==
  native \subseteq
    LabelsOf(entries) \cup
    UNION {SetOf(f.handles) \cup (IF is_current(f) THEN {f.label} ELSE {}) :
           f \in UNION {FramesOf(t) : t \in Threads}}

\* The book agrees with the operations and the table: a slot counts the pins
\* and the descriptors of its label and is retired when only pins are left,
\* and each pair of a label and a thread is found where its hash looks for it,
\* so that the assertion in release holds.
PinsCounted ==
  LET pairs == {p \in Labels \X Threads : Pins(p[2], p[1]) > 0} IN
  /\ \A label \in Labels :
       LET slot == book.slots[label]
           sharers == Sharers(entries, label)
       IN  /\ slot.readers = MapThenSumSet(LAMBDA t : Pins(t, label), Threads)
           /\ slot.additional_owners = IF sharers > 1 THEN sharers - 1 ELSE 0
           /\ slot.retired <=> sharers = 0 /\ slot.readers > 0
  /\ \A p \in pairs : \E b \in bucket(book.groups, p[1], p[2]) :
       book.groups[b] = [label |-> p[1], owner |-> p[2], readers |-> Pins(p[2], p[1])]
  /\ Cardinality({b \in Buckets : book.groups[b].label # 0}) = Cardinality(pairs)

\* A reserved slot belongs to exactly one operation, which holds it until it
\* commits or gives it up: no other operation consumes it, and none is left
\* reserved for nobody.  Only a fork takes the slots of the operation that
\* called it away.
ReservationsOwned ==
  LET live == {f \in UNION {FramesOf(t) : t \in Threads} : f.epoch = epoch} IN
  /\ \A f \in live : f.op \in {"create", "dup2"} =>
       \A i \in DOMAIN f.slots : reservations[f.slots[i][1]] = f.slots[i][2]
  /\ \A fd \in Fds : reservations[fd] # 0 =>
       Cardinality({f \in live : /\ f.op \in {"create", "dup2"}
                                 /\ <<fd, reservations[fd]>> \in SetOf(f.slots)}) = 1
=============================================================================
