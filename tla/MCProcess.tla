------------------------------ MODULE MCProcess ------------------------------
(* Three independent parts, of which a behaviour runs one, chosen at first:    *)
(* two calls of fork or posix_spawn, with two requests at the service, so that *)
(* a stale request of the first call can meet one of the second; the locks a   *)
(* fork takes, with three thread slots; the page of resource limits, with two  *)
(* publishers and two publications.                                            *)
EXTENDS ChildLaunch, TLC

CONSTANTS Parts,   \* the parts that behaviours are about
          t1, t2, t3, NoOne,
          Threads, Publishers, Resources, MaxWord, MaxStores

VARIABLES part,
          slot, f_op, f_pc, holder, libc, frozen_by, parked, activity, freeze,
          preparing, blockers, captured,
          page, decided, publishers, POLICY, mapping, calls, fetched, view,
          heard, p_child

locks == <<slot, f_op, f_pc, holder, libc, frozen_by, parked, activity,
           freeze, preparing, blockers, captured>>
policy == <<page, decided, publishers, POLICY, mapping, calls, fetched, view,
            heard, p_child>>

-----------------------------------------------------------------------------
(* The first thread forks, makes and reaps threads and locks a stream; a       *)
(* second calls all operations, forking included; a third starts and exits     *)
(* meanwhile.                                                                  *)
Fork == INSTANCE ForkOperations

MCMenu ==
  t1 :> {"fork", "pthread_create", "reclaim", "flockfile", "funlockfile"}
    @@ t2 :> DOMAIN Fork!Operations \ {"flockfile", "funlockfile"}
    @@ t3 :> {"trampoline", "finish_thread"}

Locks == INSTANCE ForkSnapshot WITH
  Threads <- {t1, t2, t3}, Initial <- t1, Menu <- MCMenu, None <- NoOne,
  op <- f_op, pc <- f_pc

MCLimits == {[soft |-> 1, hard |-> 1], [soft |-> 2, hard |-> 2], [soft |-> 2, hard |-> 1]}

Policy == INSTANCE ResourcePolicy WITH Limits <- MCLimits, child <- p_child

-----------------------------------------------------------------------------
(* The variables of the parts a behaviour does not run are 0; the launch,      *)
(* whose definitions this module extends, stays in its initial state.          *)
LocksOff ==
  /\ slot = 0 /\ f_op = 0 /\ f_pc = 0 /\ holder = 0 /\ libc = 0
  /\ frozen_by = 0 /\ parked = 0 /\ activity = 0 /\ freeze = 0
  /\ preparing = 0 /\ blockers = 0 /\ captured = 0

PolicyOff ==
  /\ page = 0 /\ decided = 0 /\ publishers = 0 /\ POLICY = 0 /\ mapping = 0
  /\ calls = 0 /\ fetched = 0 /\ view = 0 /\ heard = 0 /\ p_child = 0

InitAll ==
  /\ part \in Parts
  /\ Init
  /\ IF part = "locks" THEN Locks!Init ELSE LocksOff
  /\ IF part = "policy" THEN Policy!Init ELSE PolicyOff

OnLaunch(action) ==
  part = "launch" /\ action /\ UNCHANGED <<part, locks, policy>>

NextAll ==
  \/ OnLaunch(Next)
  \/ part = "locks" /\ Locks!Next /\ UNCHANGED <<part, vars, policy>>
  \/ part = "policy" /\ Policy!Next /\ UNCHANGED <<part, vars, locks>>

all == <<part, vars, locks, policy>>

\* The fairness of ChildLaunch, of the behaviours that run it.
SpecAll ==
  /\ InitAll /\ [][NextAll]_all
  /\ WF_all(OnLaunch(Parent))
  /\ WF_all(OnLaunch(\E answered \in BOOLEAN : Serve(answered)))
  /\ <>[][~Lossy]_all
  /\ \A c \in Calls :
       /\ WF_all(OnLaunch(Child(c)))
       /\ WF_all(OnLaunch((c \in doomed \/ process[c] = "failing") /\ die(c)))

\* See ForkSnapshot: a fork copies no state another thread is changing.
SnapshotIsQuiescent == part = "locks" => Locks!SnapshotIsQuiescent

\* See ForkSnapshot: no mutex a fork copies belongs to a vanished thread.
NoVanishedOwner == part = "locks" => Locks!NoVanishedOwner

\* See ForkSnapshot: some thread can always go on.
NoDeadlock == part = "locks" => Locks!NoDeadlock

\* See ResourcePolicy: a reader never sees limits no publication decided.
NoTornLimits == part = "policy" => Policy!NoTornLimits
=============================================================================
