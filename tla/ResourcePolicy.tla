--------------------------- MODULE ResourcePolicy ---------------------------
\* The resource policy page of one process: a page of atomic words that the
\* POSIX service writes and the process only reads.  A generation word brackets
\* each publication of a limit (a sequence lock); the process finds its page
\* lazily under the POLICY lock and drops it in a forked child.
\*
\* The process reads with Relaxed loads between two Acquire fences, so a load
\* may return an older store.  A word is its history of stores; a store carries
\* the positions its writer had reached in every word.  A load takes any store
\* not older than the reader's view, and a fence brings the positions carried
\* by the stores fetched so far into the view.  Every store is SeqCst.  Each
\* attempt starts from the weakest view: the model forgets what the thread knew
\* before, which only lets it read more.
EXTENDS Naturals, Sequences

CONSTANTS
    Threads,        \* the threads of the process
    Publishers,     \* the threads of the service that publish limits
    Resources,
    Limits,         \* the limits a publisher may be asked for: [soft, hard]
    MaxWord,        \* the largest value of the generation word
    MaxStores       \* bound: publications of the record lock word

VARIABLES
    page,           \* the process's page: word -> the history of its stores
    decided,        \* the limits in force after each publication of the page
    publishers,     \* publisher -> its place in publish and what it read
    POLICY,         \* the thread holding the lock, or None
    mapping,        \* whose page the process has mapped: "none", "own", "parents"
    calls,          \* thread -> its place in a call
    fetched,        \* what the holder of POLICY has fetched in this attempt
    view,           \* word -> position of the newest store it must see
    heard,          \* word -> the positions carried by the stores it fetched
    child           \* the process followed is the child of a fork

vars == <<page, decided, publishers, POLICY, mapping, calls, fetched, view, heard, child>>

None == 0
Generation == <<0, "generation">>
RecordLocks == <<0, "record_locks">>
Soft(r) == <<r, "soft">>
Hard(r) == <<r, "hard">>
Bracketed == {Generation} \cup {Soft(r) : r \in Resources} \cup {Hard(r) : r \in Resources}
Words == Bracketed \cup {RecordLocks}

Oldest == [w \in Words |-> 1]
Join(a, b) == [w \in Words |-> IF a[w] > b[w] THEN a[w] ELSE b[w]]
Newest(w) == page[w][Len(page[w])].is
InForce == decided[Len(decided)]

\* The page as the service initialises it before it hands out a mapping.
New(limits) ==
    [w \in Words |-> <<[is |-> CASE w \in {Generation, RecordLocks} -> 0
                                 [] w[2] = "soft" -> limits[w[1]].soft
                                 [] OTHER -> limits[w[1]].hard,
                        view |-> Oldest]>>]

\* A store of a publisher.  A publisher has taken the generation from its
\* predecessor by a SeqCst exchange, so it knows every bracketed store so far.
Store(w, to) ==
    LET at == [v \in Words |-> CASE v = w -> Len(page[w]) + 1
                                 [] v # w /\ {v, w} \subseteq Bracketed -> Len(page[v])
                                 [] OTHER -> 1]
    IN  [page EXCEPT ![w] = Append(@, [is |-> to, view |-> at])]

Resting == [at |-> "return", call |-> "none", resource |-> None]
Idle == [at |-> "idle", resource |-> None, limit |-> [soft |-> 0, hard |-> 0], generation |-> 0]
Nothing == [resource |-> None, before |-> 0, soft |-> 0, hard |-> 0, held |-> 0, done |-> FALSE]

Init ==
    /\ \E limits \in [Resources -> {l \in Limits : l.soft <= l.hard}] :
          /\ page = New(limits)
          /\ decided = <<limits>>
    /\ publishers = [p \in Publishers |-> Idle]
    /\ POLICY = None
    \* adopt_initial: the initial memory plan holds the page, or names none.
    /\ mapping \in {"none", "own"}
    /\ calls = [t \in Threads |-> Resting]
    /\ fetched = Nothing
    /\ view = Oldest /\ heard = Oldest
    /\ child = FALSE

-----------------------------------------------------------------------------
\* The service.

service == <<publishers, decided, page>>
process == <<POLICY, mapping, calls, fetched, view, heard, child>>

\* publish, up to the generation it loads.  A limit with soft above hard, an
\* odd generation and a generation that cannot grow by two change nothing.
publish_load(p, r, limit) ==
    /\ publishers[p].at = "idle"
    /\ limit.soft <= limit.hard
    /\ Newest(Generation) % 2 = 0
    /\ Newest(Generation) + 2 <= MaxWord
    /\ publishers' = [publishers EXCEPT ![p] =
          [at |-> "exchange", resource |-> r, limit |-> limit,
           generation |-> Newest(Generation)]]
    /\ UNCHANGED <<page, decided>>

publish_exchange(p) ==
    /\ publishers[p].at = "exchange"
    /\ IF Newest(Generation) = publishers[p].generation
       THEN /\ page' = Store(Generation, publishers[p].generation + 1)
            /\ publishers' = [publishers EXCEPT ![p].at = "soft"]
       ELSE publishers' = [publishers EXCEPT ![p] = Idle] /\ UNCHANGED page
    /\ UNCHANGED decided

publish_soft(p) ==
    /\ publishers[p].at = "soft"
    /\ page' = Store(Soft(publishers[p].resource), publishers[p].limit.soft)
    /\ publishers' = [publishers EXCEPT ![p].at = "hard"]
    /\ UNCHANGED decided

publish_hard(p) ==
    /\ publishers[p].at = "hard"
    /\ page' = Store(Hard(publishers[p].resource), publishers[p].limit.hard)
    /\ publishers' = [publishers EXCEPT ![p].at = "even"]
    /\ UNCHANGED decided

publish_even(p) ==
    /\ publishers[p].at = "even"
    /\ page' = Store(Generation, publishers[p].generation + 2)
    /\ decided' = Append(decided, [InForce EXCEPT ![publishers[p].resource] = publishers[p].limit])
    /\ publishers' = [publishers EXCEPT ![p] = Idle]

publish_record_locks(held) ==
    /\ Len(page[RecordLocks]) <= MaxStores
    /\ page' = Store(RecordLocks, held)
    /\ UNCHANGED <<decided, publishers>>

-----------------------------------------------------------------------------
\* The process.

At(t, place) == calls[t].at = place /\ POLICY = t
Goto(t, place) == calls' = [calls EXCEPT ![t].at = place]
memory == <<fetched, view, heard>>

\* A call begins: read(resource), record_locks() or a fork.
call(t, what, r) ==
    /\ calls[t].at = "return"
    /\ calls' = [calls EXCEPT ![t] = [at |-> "lock", call |-> what, resource |-> r]]
    /\ UNCHANGED <<POLICY, mapping, memory, child>>

lock(t) ==
    /\ calls[t].at = "lock" /\ POLICY = None
    /\ POLICY' = t
    /\ Goto(t, IF calls[t].call = "fork" THEN "clone"
               ELSE IF mapping = "none" THEN "open" ELSE calls[t].call)
    /\ fetched' = [Nothing EXCEPT !.resource = calls[t].resource]
    /\ UNCHANGED <<mapping, view, heard, child>>

\* The lock is left with a result; the call is over, or goes on from a place.
Leave(t, place, result) ==
    /\ POLICY' = None
    /\ fetched' = result /\ view' = Oldest /\ heard' = Oldest
    /\ calls' = [calls EXCEPT ![t] = IF place = "return" THEN Resting ELSE [@ EXCEPT !.at = place]]

\* Mapping::open asks for the page of the calling process and maps it; the
\* temporary handle is closed whether or not a step of it failed.
open(t) ==
    /\ At(t, "open")
    /\ \/ mapping' = "own" /\ Goto(t, calls[t].call) /\ UNCHANGED <<POLICY, memory>>
       \/ Leave(t, "return", Nothing) /\ UNCHANGED mapping
    /\ UNCHANGED child

\* A Relaxed load of w takes any store from the view on, here the i-th.
Visible(w) == view[w]..Len(page[w])
Load(w, i, name) ==
    /\ view' = [view EXCEPT ![w] = i]
    /\ heard' = Join(heard, page[w][i].view)
    /\ fetched' = [fetched EXCEPT ![name] = page[w][i].is]

\* fence(Acquire)
Acquire == view' = Join(view, heard) /\ UNCHANGED <<fetched, heard>>

\* Busy: the lock is left, the thread yields and tries again; the yield may fail.
Busy(t) == \E place \in {"lock", "return"} : Leave(t, place, Nothing)

read_before(t) ==
    /\ At(t, "read")
    /\ \E i \in Visible(Generation) :
          IF page[Generation][i].is % 2 # 0
          THEN Busy(t)
          ELSE Load(Generation, i, "before") /\ Goto(t, "fence") /\ UNCHANGED POLICY
    /\ UNCHANGED <<mapping, child>>

read_fence(t) ==
    /\ At(t, "fence")
    /\ Acquire
    /\ Goto(t, "soft")
    /\ UNCHANGED <<POLICY, mapping, child>>

read_soft(t) ==
    /\ At(t, "soft")
    /\ \E i \in Visible(Soft(fetched.resource)) : Load(Soft(fetched.resource), i, "soft")
    /\ Goto(t, "hard")
    /\ UNCHANGED <<POLICY, mapping, child>>

read_hard(t) ==
    /\ At(t, "hard")
    /\ \E i \in Visible(Hard(fetched.resource)) : Load(Hard(fetched.resource), i, "hard")
    /\ Goto(t, "refence")
    /\ UNCHANGED <<POLICY, mapping, child>>

\* Mutant of read_refence: the second fence is missing.
read_refenceMissing(t) ==
    /\ At(t, "refence")
    /\ Goto(t, "after")
    /\ UNCHANGED <<POLICY, mapping, memory, child>>

read_refence(t) ==
    /\ At(t, "refence")
    /\ Acquire
    /\ Goto(t, "after")
    /\ UNCHANGED <<POLICY, mapping, child>>

\* The generation is fetched again; unchanged, the limit is the result, which
\* stays in `fetched` until the lock is next taken.
read_after(t) ==
    /\ At(t, "after")
    /\ \E i \in Visible(Generation) :
          IF page[Generation][i].is # fetched.before
          THEN Busy(t)
          ELSE Leave(t, "return", [fetched EXCEPT !.done = TRUE])
    /\ UNCHANGED <<mapping, child>>

\* read_record_locks: one load, then the fence.
read_record_locks(t) ==
    /\ At(t, "record_locks")
    /\ \E i \in Visible(RecordLocks) : Leave(t, "return", [Nothing EXCEPT !.held = page[RecordLocks][i].is])
    /\ UNCHANGED <<mapping, child>>

\* The clone, seen from the parent.
resume_parent(t) ==
    /\ At(t, "clone")
    /\ Leave(t, "return", Nothing)
    /\ UNCHANGED <<mapping, child>>

\* The clone, seen from the child: the service has made a page for it, only
\* the calling thread exists, and the copied mapping is the parent's page,
\* which the model no longer follows.  It follows one fork.
resume_child(t) ==
    /\ At(t, "clone") /\ ~child
    /\ page' = New(InForce)
    /\ decided' = <<InForce>>
    /\ publishers' = [p \in Publishers |-> Idle]
    /\ child' = TRUE
    /\ mapping' = IF mapping = "own" THEN "parents" ELSE mapping
    /\ calls' = [s \in Threads |-> [Resting EXCEPT !.at = IF s = t THEN "reset" ELSE "gone"]]
    /\ UNCHANGED <<POLICY, memory>>

\* Mutant of reset_child: the child keeps its parent's mapping.
reset_childKeeps(t) ==
    /\ At(t, "reset")
    /\ Leave(t, "return", Nothing)
    /\ UNCHANGED <<mapping, child>>

reset_child(t) ==
    /\ At(t, "reset")
    /\ mapping' = "none"
    /\ Leave(t, "return", Nothing)
    /\ UNCHANGED child

-----------------------------------------------------------------------------
publish(p) ==
    \/ \E r \in Resources, limit \in Limits : publish_load(p, r, limit)
    \/ publish_exchange(p)
    \/ publish_soft(p)
    \/ publish_hard(p)
    \/ publish_even(p)

read(t) ==
    \/ read_before(t) \/ read_fence(t) \/ read_soft(t) \/ read_hard(t)
    \/ read_refence(t) \/ read_after(t)

Next ==
    \/ /\ \/ \E p \in Publishers : publish(p)
          \/ \E held \in {0, 1} : publish_record_locks(held)
       /\ UNCHANGED process
    \/ /\ \E t \in Threads :
             \/ \E r \in Resources : call(t, "read", r)
             \/ call(t, "record_locks", None)
             \/ call(t, "fork", None)
             \/ lock(t) \/ open(t) \/ read(t) \/ read_record_locks(t)
             \/ resume_parent(t) \/ reset_child(t)
       /\ UNCHANGED service
    \/ \E t \in Threads : resume_child(t)

Spec == Init /\ [][Next]_vars

-----------------------------------------------------------------------------
\* A read returns a limit as one publication left it, soft and hard together,
\* of the page of the calling process (never its parent's after a fork) and of
\* the very generation the reader saw before and after: the generation brackets
\* updates "so readers never combine parts of different limits".
NoTornLimits ==
    fetched.done =>
        /\ mapping = "own"
        /\ fetched.before \div 2 + 1 <= Len(decided)
        /\ [soft |-> fetched.soft, hard |-> fetched.hard]
              = decided[fetched.before \div 2 + 1][fetched.resource]
=============================================================================
