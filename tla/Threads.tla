------------------------------ MODULE Threads ------------------------------
(***************************************************************************)
(* The lifetime of pthreads (newlib-runtime/src/lib.rs, thread_join.rs,    *)
(* thread_reference.rs, thread_lifecycle.rs).  A thread owns a slot of the *)
(* static THREADS table from pthread_create to the join, reap or fork that *)
(* gives the slot back; a pthread_t is the slot with its generation, so    *)
(* one that outlives its thread names nobody.  Creators, starting threads, *)
(* joiners, reapers, cancellers and a fork's child meet on the slot's      *)
(* atomic words, on the lifecycle gate and on the REFERENCES lock.         *)
(*                                                                         *)
(* One action is one access of a shared word, or a run of accesses nobody  *)
(* else can tell apart.  A token is <<slot, generation>>.  The mappings of *)
(* a thread (stack, TLS, reent, signal stack) are one field, memory, which *)
(* holds the generation they belong to.  A program joins or detaches a     *)
(* thread of its own process once, as POSIX asks; every other call takes   *)
(* any token, stale ones included.                                         *)
(***************************************************************************)
EXTENDS Naturals, FiniteSets

CONSTANTS Slots,     \* the slots of THREADS, 1..n; 1 is the initial thread's
          Natives,   \* native thread numbers 1..n, given out in order
          Menus,     \* bounds on the calls: [create, cancel, kill, fork -> Nat]
          LateFailure \* ThreadCreate may fail for a thread created detached

VARIABLES control,     \* slot -> ThreadControl
          native,      \* native thread -> "none", "live" or "terminated"
          own,         \* native thread -> its token
          pc,          \* native thread -> where it is
          local,       \* native thread -> the locals of the call it is in
          claim,       \* native thread -> its join Claim
          gate,        \* the thread that froze the lifecycle gate, or 0
          references,  \* the holder of REFERENCES, or 0
          epoch,       \* FORK_EPOCH
          menu,        \* what the program may still do
          disposed     \* tokens the program has joined or detached, at their
                       \* creation too, or lost in a fork

vars == <<control, native, own, pc, local, claim, gate, references, epoch,
          menu, disposed>>

NoThread == <<0, 0>>
NoWork == [slot |-> 0, token |-> NoThread, after |-> "idle"]
NoClaim == [target |-> NoThread, epoch |-> 0, wake |-> 0, resume |-> "idle"]

(* What reserve_thread_control and reclaim_thread_control leave in a slot,  *)
(* its generation aside.                                                    *)
Cleared(state, generation) ==
  [state |-> state, generation |-> generation, joinability |-> "JOINABLE",
   join_waiter |-> NoThread, creation_pending |-> FALSE, native_id |-> 0,
   native_handle |-> 0, result |-> NoThread, cancel_pending |-> FALSE,
   wait_generation |-> 0, memory |-> 0]

(* register_initial_thread, and the handle register_current_thread adds.    *)
register_initial_thread ==
  [Cleared("RUNNING", 1) EXCEPT !.native_id = 1, !.native_handle = 1,
                                !.memory = 1]

Init ==
  /\ control = [s \in Slots |-> IF s = 1 THEN register_initial_thread
                                ELSE Cleared("FREE", 0)]
  /\ native = [t \in Natives |-> IF t = 1 THEN "live" ELSE "none"]
  /\ own = [t \in Natives |-> IF t = 1 THEN <<1, 1>> ELSE NoThread]
  /\ pc = [t \in Natives |-> "idle"]
  /\ local = [t \in Natives |-> NoWork]
  /\ claim = [t \in Natives |-> NoClaim]
  /\ gate = 0 /\ references = 0 /\ epoch = 1 /\ disposed = {}
  /\ menu \in Menus

-----------------------------------------------------------------------------
(* Helpers.                                                                 *)

At(t, where) == native[t] = "live" /\ pc[t] = where
Goto(t, where) == pc' = [pc EXCEPT ![t] = where]
Work(t, s, token, after) ==
  local' = [local EXCEPT ![t] = [slot |-> s, token |-> token, after |-> after]]
Return(t) == Goto(t, "idle") /\ local' = [local EXCEPT ![t] = NoWork]
Call(t, kind) == menu[kind] > 0 /\ menu' = [menu EXCEPT ![kind] = @ - 1]
Issued == {own[t] : t \in {u \in Natives : native[u] # "none"}}
InHandler(t) == claim[t] # NoClaim

thread_control(token) ==
  /\ token # NoThread
  /\ control[token[1]].generation = token[2]
  /\ control[token[1]].state \notin {"FREE", "REAPING"}

(* The address waits: a joiner on its own wait_generation, pthread_kill on  *)
(* the state of a starting thread.                                          *)
WakeJoiner(s, at) ==
  [t \in Natives |-> IF at[t] = "parked" /\ own[t][1] = s THEN "join_loop"
                     ELSE at[t]]
WakeState(s, at) ==
  [t \in Natives |-> IF at[t] = "kill_parked" /\ local[t].slot = s
                     THEN "kill_state" ELSE at[t]]

(* thread_lifecycle::mutate: the gate is open.  A thread at one of these    *)
(* places holds an Activity, so the gate cannot be frozen under it.         *)
mutate == gate = 0
Inside(t) ==
  \/ pc[t] \in {"reserved", "prepare", "start", "bind", "register", "running",
                "clear", "cancel_check", "cancel_confirm", "cancel_apply",
                "kill_duplicate"}
  \/ pc[t] = "release" /\ local[t].after = "failed"

(* with_control, replace and snapshot enter the gate and take REFERENCES.   *)
(* ThreadHandleStatus reports whether the slot's native thread is gone.     *)
with_control == mutate /\ references = 0
native_thread_retired(s) ==
  control[s].native_handle # 0 /\ native[control[s].native_handle] = "terminated"

-----------------------------------------------------------------------------
(* pthread_create, from the creator's side.                                 *)

pthread_create(t) ==
  /\ At(t, "idle") /\ Call(t, "create")
  /\ Goto(t, "reap") /\ Work(t, 1, NoThread, "create")
  /\ UNCHANGED <<control, native, own, claim, gate, references, epoch, disposed>>

(* The first free slot.                                                     *)
reserve_thread_control(t) ==
  /\ At(t, "create") /\ mutate
  /\ \/ \E s \in Slots :
          /\ control[s].state = "FREE"
          /\ \A r \in 1..s-1 : control[r].state # "FREE"
          /\ control' = [control EXCEPT ![s].state = "STARTING"]
          /\ Goto(t, "reserved") /\ Work(t, s, NoThread, "failed")
     \/ /\ \A s \in Slots : control[s].state # "FREE"
        /\ Return(t) /\ UNCHANGED control
  /\ UNCHANGED <<native, own, claim, gate, references, epoch, menu, disposed>>

next_generation(t) ==
  LET s == local[t].slot
      generation == control[s].generation + 1
  IN /\ At(t, "reserved")
     /\ control' = [control EXCEPT ![s].generation = generation]
     /\ Goto(t, "prepare") /\ Work(t, s, <<s, generation>>, "failed")
     /\ UNCHANGED <<native, own, claim, gate, references, epoch, menu, disposed>>

(* The rest of the reservation, the allocations, any of which may fail, and *)
(* the detach state.                                                        *)
prepare(t) ==
  LET s == local[t].slot
      ready(d) == [Cleared("STARTING", control[s].generation) EXCEPT
                     !.creation_pending = TRUE, !.joinability = d,
                     !.memory = control[s].generation]
  IN /\ At(t, "prepare")
     /\ \/ /\ \E d \in {"JOINABLE", "DETACHED"} :
                /\ control' = [control EXCEPT ![s] = ready(d)]
                /\ disposed' = IF d = "JOINABLE" THEN disposed
                               ELSE disposed \cup {local[t].token}
           /\ Goto(t, "start")
        \/ /\ control' = [control EXCEPT ![s] = [ready("JOINABLE") EXCEPT
                                                   !.state = "REAPING"]]
           /\ Goto(t, "release") /\ UNCHANGED disposed
     /\ UNCHANGED <<native, own, local, claim, gate, references, epoch, menu>>

(* The token is copied out and ThreadCreate runs, or one of them fails.  A  *)
(* failure gives the slot back whatever a reaper has meanwhile claimed in   *)
(* it, which only a thread created detached lets it do: see LateFailure.    *)
ThreadCreate(t) ==
  /\ At(t, "start")
  /\ \/ \E n \in Natives :
          /\ native[n] = "none" /\ \A m \in 1..n-1 : native[m] # "none"
          /\ native' = [native EXCEPT ![n] = "live"]
          /\ own' = [own EXCEPT ![n] = local[t].token]
          /\ pc' = [pc EXCEPT ![t] = "bind", ![n] = "trampoline"]
          /\ UNCHANGED control
     \/ /\ ~LateFailure => control[local[t].slot].joinability = "JOINABLE"
        /\ control' = [control EXCEPT ![local[t].slot].state = "REAPING"]
        /\ Goto(t, "release") /\ UNCHANGED <<native, own>>
  /\ UNCHANGED <<local, claim, gate, references, epoch, menu, disposed>>

(* The creator names the native thread, unless it named itself already, and *)
(* lets go of the slot.                                                     *)
creation_pending(t) ==
  LET s == local[t].slot
      n == CHOOSE m \in Natives : own[m] = local[t].token
  IN /\ At(t, "bind")
     /\ control' = [control EXCEPT ![s].native_id = IF @ = 0 THEN n ELSE @,
                                   ![s].creation_pending = FALSE]
     /\ Return(t)
     /\ UNCHANGED <<native, own, claim, gate, references, epoch, menu, disposed>>

-----------------------------------------------------------------------------
(* The new thread: its trampoline, and its end.                             *)

pthread_start_trampoline(t) ==
  /\ At(t, "trampoline") /\ mutate
  /\ control' = [control EXCEPT ![own[t][1]].native_id = t]
  /\ Goto(t, "register")
  /\ UNCHANGED <<native, own, local, claim, gate, references, epoch, menu,
                 disposed>>

setup_signal_delivery(t) ==
  /\ At(t, "register") /\ references = 0
  /\ control' = [control EXCEPT ![own[t][1]].native_handle = t]
  /\ Goto(t, "running")
  /\ UNCHANGED <<native, own, local, claim, gate, references, epoch, menu,
                 disposed>>

running(t) ==
  LET s == own[t][1]
  IN /\ At(t, "running")
     /\ control' = [control EXCEPT ![s].state = IF @ = "STARTING" THEN "RUNNING"
                                                ELSE @]
     /\ pc' = WakeState(s, [pc EXCEPT ![t] = "idle"])
     /\ UNCHANGED <<native, own, local, claim, gate, references, epoch, menu,
                    disposed>>

(* Drop for Claim, in the process that made the claim: the thread may be    *)
(* joined again.                                                            *)
Claims(t) == claim[t] # NoClaim /\ claim[t].epoch = epoch
Unclaim(t, c) ==
  IF Claims(t)
  THEN [c EXCEPT ![claim[t].target[1]].join_waiter = NoThread,
                 ![claim[t].target[1]].joinability = "JOINABLE"]
  ELSE c
Undispose(t) == disposed' = IF Claims(t) THEN disposed \ {claim[t].target} ELSE disposed

(* Callback resources, an armed Claim among them, go first; the result is   *)
(* published with EXITED.                                                   *)
finish_thread(t) ==
  /\ control' = [Unclaim(t, control) EXCEPT ![own[t][1]].state = "EXITED",
                                            ![own[t][1]].result = own[t]]
  /\ claim' = [claim EXCEPT ![t] = NoClaim]
  /\ Undispose(t)
  /\ Goto(t, "exited")
  /\ UNCHANGED <<native, own, local, gate, references, epoch, menu>>

pthread_exit(t) ==
  /\ At(t, "idle") /\ t # 1 /\ ~InHandler(t)
  /\ finish_thread(t)

notify_join_waiter(t) ==
  /\ At(t, "exited")
  /\ Goto(t, "notify") /\ Work(t, 0, control[own[t][1]].join_waiter, "idle")
  /\ UNCHANGED <<control, native, own, claim, gate, references, epoch, menu,
                 disposed>>

notify_thread_waiter(t) ==
  LET waiter == local[t].token
      at == WakeState(own[t][1], [pc EXCEPT ![t] = "leaving"])
  IN /\ At(t, "notify")
     /\ IF thread_control(waiter)
        THEN /\ control' = [control EXCEPT ![waiter[1]].wait_generation = @ + 1]
             /\ pc' = WakeJoiner(waiter[1], at)
        ELSE pc' = at /\ UNCHANGED control
     /\ local' = [local EXCEPT ![t] = NoWork]
     /\ UNCHANGED <<native, own, claim, gate, references, epoch, menu, disposed>>

ThreadExit(t) ==
  /\ At(t, "leaving")
  /\ native' = [native EXCEPT ![t] = "terminated"]
  /\ Goto(t, "gone")
  /\ UNCHANGED <<control, own, local, claim, gate, references, epoch, menu,
                 disposed>>

-----------------------------------------------------------------------------
(* reclaim_thread_control: a slot in REAPING goes back to FREE.             *)

(* After a slot the scan of reap_detached_threads goes on with the next.    *)
NextSlot(t) ==
  IF local[t].slot + 1 \in Slots
  THEN Goto(t, "reap") /\ Work(t, local[t].slot + 1, NoThread, local[t].after)
  ELSE /\ Goto(t, IF local[t].after = "create" THEN "create" ELSE "idle")
       /\ local' = [local EXCEPT ![t] = NoWork]

replace(t) ==
  /\ At(t, "release") /\ with_control
  /\ control' = [control EXCEPT ![local[t].slot].native_handle = 0]
  /\ Goto(t, "clear")
  /\ UNCHANGED <<native, own, local, claim, gate, references, epoch, menu,
                 disposed>>

reclaim_thread_control(t) ==
  LET s == local[t].slot
  IN /\ At(t, "clear")
     /\ control' = [control EXCEPT ![s] = Cleared("FREE", @.generation)]
     /\ IF local[t].after \in {"create", "detached"}
        THEN /\ NextSlot(t)
        ELSE /\ pc' = WakeState(s, [pc EXCEPT ![t] = "idle"])
             /\ local' = [local EXCEPT ![t] = NoWork]
     /\ UNCHANGED <<native, own, claim, gate, references, epoch, menu, disposed>>

-----------------------------------------------------------------------------
(* reap_detached_threads and pthread_detach.                                *)

reap_observe(t) ==
  LET c == control[local[t].slot]
  IN /\ At(t, "reap")
     /\ IF c.state = "EXITED" /\ ~c.creation_pending
        THEN Goto(t, "reap_claim") /\ UNCHANGED local
        ELSE NextSlot(t)
     /\ UNCHANGED <<control, native, own, claim, gate, references, epoch, menu,
                    disposed>>

reap_claim(t) ==
  LET s == local[t].slot
  IN /\ At(t, "reap_claim")
     /\ IF control[s].joinability = "DETACHED"
        THEN /\ control' = [control EXCEPT ![s].joinability = "REAP_CLAIMED"]
             /\ Goto(t, "reap_check") /\ UNCHANGED local
        ELSE NextSlot(t) /\ UNCHANGED control
     /\ UNCHANGED <<native, own, claim, gate, references, epoch, menu, disposed>>

(* Mutant of reap_check: the reaper trusts what it saw before its claim.    *)
reap_checkTrusting(t) ==
  LET s == local[t].slot
  IN /\ At(t, "reap_check")
     /\ control' = [control EXCEPT ![s].state = "REAPING"]
     /\ Goto(t, "release")
     /\ UNCHANGED <<native, own, local, claim, gate, references, epoch, menu,
                    disposed>>

reap_check(t) ==
  LET s == local[t].slot
      whole == control[s].state = "EXITED" /\ ~control[s].creation_pending
  IN /\ At(t, "reap_check") /\ (whole => with_control)
     /\ IF whole /\ native_thread_retired(s)
        THEN /\ control' = [control EXCEPT ![s].state = "REAPING"]
             /\ Goto(t, "release") /\ UNCHANGED local
        ELSE /\ control' = [control EXCEPT ![s].joinability = "DETACHED"]
             /\ NextSlot(t)
     /\ UNCHANGED <<native, own, claim, gate, references, epoch, menu, disposed>>

pthread_detach(t, token) ==
  /\ At(t, "idle") /\ ~InHandler(t)
  /\ thread_control(token) /\ control[token[1]].joinability = "JOINABLE"
  /\ control' = [control EXCEPT ![token[1]].joinability = "DETACHED"]
  /\ disposed' = disposed \cup {token}
  /\ Goto(t, "reap") /\ Work(t, 1, NoThread, "detached")
  /\ UNCHANGED <<native, own, claim, gate, references, epoch, menu>>

-----------------------------------------------------------------------------
(* pthread_join.  Its first pthread_testcancel is pthread_exit of a thread  *)
(* that has been cancelled.                                                 *)

Claim_new(t, token) ==
  /\ At(t, "idle") /\ ~InHandler(t) /\ token # own[t]
  /\ ~control[own[t][1]].cancel_pending
  /\ thread_control(token) /\ control[token[1]].joinability = "JOINABLE"
  /\ control' = [control EXCEPT ![token[1]].joinability = "JOIN_CLAIMED"]
  /\ claim' = [claim EXCEPT ![t] = [target |-> token, epoch |-> epoch,
                                    wake |-> 0, resume |-> "join_loop"]]
  /\ disposed' = disposed \cup {token}
  /\ Goto(t, "claimed")
  /\ UNCHANGED <<native, own, local, gate, references, epoch, menu>>

join_waiter(t) ==
  /\ At(t, "claimed")
  /\ control' = [control EXCEPT ![claim[t].target[1]].join_waiter = own[t]]
  /\ Goto(t, "join_loop")
  /\ UNCHANGED <<native, own, local, claim, gate, references, epoch, menu,
                 disposed>>

pthread_testcancel(t) ==
  /\ At(t, "join_loop")
  /\ IF control[own[t][1]].cancel_pending THEN finish_thread(t)
     ELSE /\ Goto(t, "join_wake")
          /\ UNCHANGED <<control, native, own, local, claim, gate, references,
                         epoch, menu, disposed>>

(* The call fails, and its claim is dropped.                                *)
join_fails(t) ==
  /\ control' = Unclaim(t, control)
  /\ claim' = [claim EXCEPT ![t] = NoClaim]
  /\ Undispose(t)
  /\ Return(t)

(* claim.current() and the caller's wake word, before the target's state.   *)
join_wake(t) ==
  /\ At(t, "join_wake")
  /\ IF claim[t].epoch = epoch
     THEN /\ claim' = [claim EXCEPT ![t].wake = control[own[t][1]].wait_generation]
          /\ Goto(t, "join_state") /\ UNCHANGED <<control, local, disposed>>
     ELSE join_fails(t)
  /\ UNCHANGED <<native, own, gate, references, epoch, menu>>

join_state(t) ==
  LET c == control[claim[t].target[1]]
  IN /\ At(t, "join_state")
     /\ CASE c.state = "EXITED" /\ ~c.creation_pending ->
               /\ Goto(t, "join_retired")
               /\ UNCHANGED <<control, local, claim, disposed>>
          [] c.state = "EXITED" /\ c.creation_pending ->
               /\ Goto(t, "join_loop")
               /\ UNCHANGED <<control, local, claim, disposed>>
          [] c.state \in {"STARTING", "RUNNING"} ->
               /\ Goto(t, "join_park")
               /\ UNCHANGED <<control, local, claim, disposed>>
          [] OTHER -> join_fails(t)
     /\ UNCHANGED <<native, own, gate, references, epoch, menu>>

(* The result is copied out, which may fail, before the slot is consumed.   *)
join_retired(t) ==
  LET s == claim[t].target[1]
  IN /\ At(t, "join_retired") /\ with_control
     /\ \/ /\ ~native_thread_retired(s) /\ Goto(t, "join_loop")
           /\ UNCHANGED <<control, local, claim, disposed>>
        \/ /\ native_thread_retired(s) /\ control[s].state = "EXITED"
           /\ control' = [control EXCEPT ![s].state = "REAPING"]
           /\ claim' = [claim EXCEPT ![t] = NoClaim]
           /\ Goto(t, "release") /\ Work(t, s, control[s].result, "joined")
           /\ UNCHANGED disposed
        \/ native_thread_retired(s) /\ join_fails(t)
     /\ UNCHANGED <<native, own, gate, references, epoch, menu>>

(* WaitOnAddress compares the word with the value the joiner read.          *)
join_park(t) ==
  /\ At(t, "join_park")
  /\ Goto(t, IF control[own[t][1]].wait_generation = claim[t].wake
             THEN "parked" ELSE "join_loop")
  /\ UNCHANGED <<control, native, own, local, claim, gate, references, epoch,
                 menu, disposed>>

-----------------------------------------------------------------------------
(* with_live_token, under pthread_cancel.                                   *)

(* One load of the sequence passes, or the call returns ESRCH.              *)
Checked(t, passes, next) ==
  /\ IF passes THEN Goto(t, next) /\ UNCHANGED <<local, references>>
     ELSE Return(t) /\ references' = 0
  /\ UNCHANGED <<control, native, own, claim, gate, epoch, menu, disposed>>

pthread_cancel(t, token) ==
  /\ At(t, "idle") /\ ~InHandler(t) /\ Call(t, "cancel") /\ with_control
  /\ control[token[1]].generation = token[2]
  /\ references' = t
  /\ Goto(t, "cancel_check") /\ Work(t, token[1], token, "idle")
  /\ UNCHANGED <<control, native, own, claim, gate, epoch, disposed>>

with_live_token_check(t) ==
  LET c == control[local[t].slot]
  IN /\ At(t, "cancel_check")
     /\ Checked(t, c.state \in {"STARTING", "RUNNING"} /\ c.native_id # 0,
                "cancel_confirm")

with_live_token_confirm(t) ==
  /\ At(t, "cancel_confirm")
  /\ Checked(t, control[local[t].slot].generation = local[t].token[2],
             "cancel_apply")

cancel_apply(t) ==
  LET s == local[t].slot
  IN /\ At(t, "cancel_apply")
     /\ control' = [control EXCEPT ![s].cancel_pending = TRUE,
                                   ![s].wait_generation = @ + 1]
     /\ pc' = WakeState(s, WakeJoiner(s, [pc EXCEPT ![t] = "idle"]))
     /\ local' = [local EXCEPT ![t] = NoWork] /\ references' = 0
     /\ UNCHANGED <<native, own, claim, gate, epoch, menu, disposed>>

-----------------------------------------------------------------------------
(* snapshot, under pthread_kill.                                            *)

pthread_kill(t, token) ==
  /\ At(t, "idle") /\ ~InHandler(t) /\ token # own[t] /\ Call(t, "kill")
  /\ thread_control(token)
  /\ Goto(t, "kill_state") /\ Work(t, token[1], token, "idle")
  /\ UNCHANGED <<control, native, own, claim, gate, references, epoch, disposed>>

kill_state(t) ==
  LET c == control[local[t].slot]
  IN /\ At(t, "kill_state")
     /\ \/ c.state = "STARTING" /\ Goto(t, "kill_parked") /\ UNCHANGED local
        \/ c.state = "RUNNING" /\ Goto(t, "kill_lock") /\ UNCHANGED local
        \/ c.state \notin {"STARTING", "RUNNING"} /\ Return(t)
     /\ UNCHANGED <<control, native, own, claim, gate, references, epoch, menu,
                    disposed>>

snapshot(t) ==
  /\ At(t, "kill_lock") /\ with_control
  /\ IF /\ thread_control(local[t].token)
        /\ control[local[t].slot].state = "RUNNING"
        /\ control[local[t].slot].native_handle # 0
     THEN Goto(t, "kill_duplicate") /\ references' = t /\ UNCHANGED local
     ELSE Return(t) /\ UNCHANGED references
  /\ UNCHANGED <<control, native, own, claim, gate, epoch, menu, disposed>>

HandleDuplicate(t) ==
  /\ At(t, "kill_duplicate") /\ Return(t) /\ references' = 0
  /\ UNCHANGED <<control, native, own, claim, gate, epoch, menu, disposed>>

-----------------------------------------------------------------------------
(* fork, also from a handler that interrupts a join.                        *)

fork(t) ==
  /\ native[t] = "live" /\ Call(t, "fork")
  /\ \/ pc[t] = "idle" /\ UNCHANGED claim
     \/ /\ pc[t] \in {"join_loop", "join_park", "parked"}
        /\ claim' = [claim EXCEPT ![t].resume =
                       IF pc[t] = "join_loop" THEN "join_loop" ELSE "join_park"]
  /\ Goto(t, "capture")
  /\ UNCHANGED <<control, native, own, local, gate, references, epoch, disposed>>

handler_return(t) ==
  /\ At(t, "idle") /\ InHandler(t) /\ Goto(t, claim[t].resume)
  /\ UNCHANGED <<control, native, own, local, claim, gate, references, epoch,
                 menu, disposed>>

capture(t) ==
  /\ At(t, "capture")
  /\ IF gate = 0 /\ \A u \in Natives : ~Inside(u)
     THEN gate' = t /\ Goto(t, "captured")
     ELSE Goto(t, "idle") /\ UNCHANGED gate
  /\ UNCHANGED <<control, native, own, local, claim, references, epoch, menu,
                 disposed>>

Others(t) == {s \in Slots : s # own[t][1] /\ control[s].state # "FREE"}

(* The parent lets the gate go, and so does a fork refused because another  *)
(* thread is still starting.                                                *)
fork_parent(t) ==
  /\ At(t, "captured")
  /\ gate' = 0 /\ Goto(t, "idle")
  /\ UNCHANGED <<control, native, own, local, claim, references, epoch, menu,
                 disposed>>

(* discard_fork_thread_control exits the process on any other state.        *)
discard_fork_thread_control(t) ==
  [s \in Slots |->
     IF s \in Others(t) THEN Cleared("FREE", control[s].generation)
     ELSE IF s = own[t][1]
          THEN [control[s] EXCEPT
                  !.join_waiter = NoThread, !.native_id = t,
                  !.joinability = IF @ = "JOIN_CLAIMED" THEN "JOINABLE" ELSE @]
          ELSE control[s]]

(* Only the caller lives on in the child, with the table c.                 *)
BecomeChild(t, c) ==
  LET whole == /\ references = 0
               /\ \A s \in Others(t) :
                    control[s].state \in {"EXITED", "REAPING", "RUNNING"}
  IN /\ At(t, "captured")
     /\ \A s \in Others(t) : control[s].state # "STARTING"
     /\ epoch' = epoch + 1 /\ gate' = 0
     /\ native' = [u \in Natives |-> IF u # t /\ native[u] = "live"
                                     THEN "terminated" ELSE native[u]]
     /\ control' = c
     /\ pc' = [u \in Natives |->
                 IF u = t THEN IF whole THEN "idle" ELSE "aborted"
                 ELSE IF native[u] = "live" THEN "gone" ELSE pc[u]]
     /\ local' = [u \in Natives |-> NoWork]
     /\ claim' = [u \in Natives |-> IF u = t THEN claim[u] ELSE NoClaim]
     /\ disposed' = disposed \cup {own[u] : u \in {v \in Natives \ {t} : native[v] # "none"}}
     /\ UNCHANGED <<own, references, menu>>

(* Mutant of fork_child: the child keeps the wake word of the parent.       *)
fork_childSilent(t) == BecomeChild(t, discard_fork_thread_control(t))

(* Its wake word changes, so that a wait the fork interrupted cannot park.  *)
fork_child(t) ==
  BecomeChild(t, [discard_fork_thread_control(t) EXCEPT
                    ![own[t][1]].wait_generation = @ + 1])

-----------------------------------------------------------------------------
Step(t) ==
  \/ pthread_create(t) \/ reserve_thread_control(t) \/ next_generation(t)
  \/ prepare(t) \/ ThreadCreate(t) \/ creation_pending(t)
  \/ pthread_start_trampoline(t) \/ setup_signal_delivery(t) \/ running(t)
  \/ pthread_exit(t) \/ notify_join_waiter(t) \/ notify_thread_waiter(t)
  \/ ThreadExit(t)
  \/ replace(t) \/ reclaim_thread_control(t)
  \/ reap_observe(t) \/ reap_claim(t) \/ reap_check(t)
  \/ join_waiter(t) \/ pthread_testcancel(t) \/ join_wake(t) \/ join_state(t)
  \/ join_retired(t) \/ join_park(t)
  \/ with_live_token_check(t) \/ with_live_token_confirm(t) \/ cancel_apply(t)
  \/ kill_state(t) \/ snapshot(t) \/ HandleDuplicate(t)
  \/ fork(t) \/ handler_return(t) \/ capture(t) \/ fork_parent(t) \/ fork_child(t)
  \/ \E token \in Issued \ disposed : pthread_detach(t, token) \/ Claim_new(t, token)
  \/ \E token \in Issued : pthread_cancel(t, token) \/ pthread_kill(t, token)

Next == \E t \in Natives : Step(t)

Spec == Init /\ [][Next]_vars

-----------------------------------------------------------------------------
(* Properties.                                                              *)

(* The threads whose slots a thread works on: the one it creates, cancels   *)
(* or kills, and the one it joins.                                          *)
ReliesOn(t) ==
  {token \in Issued :
     \/ pc[t] \in {"bind", "cancel_apply", "kill_duplicate"} /\ token = local[t].token
     \/ Claims(t) /\ token = claim[t].target}

(* A thread's stack, TLS and control block live as long as the thread runs, *)
(* and as long as its creator, its joiner or a canceller still works on     *)
(* them: nobody gives the slot back, or hands it to another thread, under   *)
(* any of them; a slot has one owner who gives it back; a join takes the    *)
(* result of the thread it names, and a reaper only a thread that has been  *)
(* detached; and fork finds no slot half made, so its child never has to    *)
(* exit (reap_detached_threads, thread_join.rs, with_live_token,            *)
(* discard_fork_thread_control).                                            *)
NoEarlyReclamation ==
  /\ \A t \in Natives :
       native[t] = "live" => /\ control[own[t][1]].generation = own[t][2]
                             /\ control[own[t][1]].memory = own[t][2]
                             /\ pc[t] # "aborted"
  /\ \A t \in Natives : native[t] = "live" =>
       \A token \in ReliesOn(t) : thread_control(token)
  /\ \A t \in Natives : At(t, "kill_duplicate") =>
       own[control[local[t].slot].native_handle] = local[t].token
  /\ \A t \in Natives : pc[t] \in {"release", "clear"} =>
       /\ control[local[t].slot].state = "REAPING"
       /\ local[t].after = "joined" =>
            local[t].token = <<local[t].slot, control[local[t].slot].generation>>
       /\ local[t].after \in {"create", "detached"} =>
            <<local[t].slot, control[local[t].slot].generation>> \in disposed
       /\ \A u \in Natives \ {t} :
            pc[u] \in {"release", "clear"} => local[u].slot # local[t].slot

(* A joiner sleeps only while the thread it waits for has still to say that *)
(* it ends.  The exit that publishes EXITED after the joiner looked bumps   *)
(* the word the joiner waits on, and so does the child of a fork made from  *)
(* a handler inside the join, where that thread no longer exists.           *)
JoinerIsWoken ==
  \A t \in Natives : At(t, "parked") =>
    \E n \in Natives : /\ own[n] = claim[t].target /\ native[n] = "live"
                       /\ pc[n] \notin {"leaving", "gone"}
                       /\ pc[n] = "notify" => local[n].token = own[t]

(* A joiner that has been cancelled does not sleep on: pthread_join is a    *)
(* cancellation point (thread_join.rs:70).                                  *)
CancelEndsJoin ==
  \A t \in Natives : At(t, "parked") => ~control[own[t][1]].cancel_pending

=============================================================================
