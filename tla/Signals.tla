------------------------------ MODULE Signals ------------------------------
(***************************************************************************)
(* Signal delivery in one thread (newlib-runtime/src/lib.rs,               *)
(* signal_delivery.rs, signal_scope.rs, signal_preparation.rs,             *)
(* signal_stack.rs, signal_jump.rs).  The kernel interrupts the thread     *)
(* with an upcall; the runtime takes deliveries from the POSIX service,    *)
(* runs the handlers and tells the service when each delivery is over.     *)
(* A handler may return, may leave by siglongjmp past any number of        *)
(* handlers and upcalls, and may fork: the child resumes the copied frames *)
(* but owns neither the parent's deliveries nor its upcall token, and the  *)
(* stacks the copied upcalls run on are its own to unmap.                  *)
(*                                                                         *)
(* stack is the thread's call stack of upcalls and drains; application     *)
(* code runs when it is empty or when its top is a drain in its handler.   *)
(* After a fork the model follows the child.  Requests to set the mask are *)
(* taken to succeed; handlers of synchronous faults are left out.          *)
(***************************************************************************)
EXTENDS Naturals, Sequences, FiniteSets, SequencesExt

CONSTANTS Deliveries,   \* the numbers of deliveries that may be generated
          SignalOf,     \* delivery -> its signal
          MaxForks

VARIABLES stack,        \* activations, innermost last
          defer,        \* native_delivery_defer
          scopes,       \* the chain at active_signal_scope, innermost last
          frames,       \* the chain at active_native_signal_frame
          nextScope, nextFrame,
          delivery,     \* what the service knows of each delivery
          process,      \* the process; it numbers FORK_EPOCH as well
          upcall,       \* the kernel waits for this thread's upcall to return
          mapped,       \* upcall stacks in the address space
          registered,   \* the one the kernel uses
          mask,         \* the thread's signal mask at the service
          buffer,       \* a sigjmp_buf
          jump,         \* a siglongjmp is under way
          exited        \* the process has called process_exit

vars == <<stack, defer, scopes, frames, nextScope, nextFrame, delivery,
          process, upcall, mapped, registered, mask, buffer, jump, exited>>

Signals == {SignalOf[d] : d \in Deliveries}
NoBuffer == [set |-> FALSE, scope |-> 0, native |-> 0, defer |-> 0, depth |-> 0,
             mask |-> {}]

Init ==
  /\ stack = <<>> /\ defer = 0 /\ scopes = <<>> /\ frames = <<>>
  /\ nextScope = 1 /\ nextFrame = 1 /\ process = 1 /\ upcall = FALSE
  /\ mapped = {1} /\ registered = 1 /\ mask = {}
  /\ delivery = [d \in Deliveries |->
                   [status |-> "none", owner |-> 0, attempts |-> 0, by |-> 0]]
  /\ buffer = NoBuffer /\ jump = FALSE /\ exited = FALSE

-----------------------------------------------------------------------------
(* Helpers.                                                                 *)

Top == stack[Len(stack)]
Alive == ~exited /\ ~jump
Running(kind, pc) ==
  Alive /\ stack # <<>> /\ Top.kind = kind /\ Top.pc = pc
(* Application code: the program itself or a handler.                       *)
Application == Alive /\ (stack = <<>> \/ Running("drain", "handler"))

Goto(pc) == stack' = [stack EXCEPT ![Len(stack)].pc = pc]
Pop == stack' = Front(stack)
Innermost(chain) == IF chain = <<>> THEN 0 ELSE Last(chain)
process_exit == exited' = TRUE

Chains == <<scopes, frames, nextScope, nextFrame>>
Memory == <<mapped, registered>>
Jumps == <<buffer, jump>>

(* The service, external: a request to end a delivery may fail on the way,  *)
(* in which case nobody knows whether the service has acted on it.          *)
Settled(d, outcome) ==
  delivery' = [delivery EXCEPT ![d].status = IF outcome = "sent" THEN "done" ELSE @,
                               ![d].attempts = @ + 1, ![d].by = process]
Outcomes == {"sent", "failed"}

(* The deliveries of one signal are told apart by their numbers alone,      *)
(* which are given in order.                                                *)
generate(d) ==
  /\ Alive /\ delivery[d].status = "none"
  /\ \A e \in Deliveries : SignalOf[e] = SignalOf[d] /\ e < d => delivery[e].status # "none"
  /\ delivery' = [delivery EXCEPT ![d].status = "pending", ![d].owner = process]
  /\ UNCHANGED <<stack, defer, Chains, process, upcall, Memory, mask, Jumps, exited>>

(* SIGCONT cancels a stop that has been taken but not acted on.             *)
cancel(d) ==
  /\ Alive /\ delivery[d].status = "taken" /\ delivery[d].owner = process
  /\ delivery[d].attempts = 0
  /\ Running("drain", "dispatch") /\ Top.delivery = d
  /\ delivery' = [delivery EXCEPT ![d].status = "cancelled"]
  /\ UNCHANGED <<stack, defer, Chains, process, upcall, Memory, mask, Jumps, exited>>

Deliverable == {d \in Deliveries : /\ delivery[d].status = "pending"
                                   /\ delivery[d].owner = process
                                   /\ SignalOf[d] \notin mask}

-----------------------------------------------------------------------------
(* The kernel calls posix_signal_upcall on the registered stack, when no    *)
(* upcall is open and delivery is not deferred: in application code, and    *)
(* also between two rounds of a checkpoint's loop and in a copied upcall.   *)

NativeFrame_new ==
  [kind |-> "upcall", pc |-> "drain", id |-> nextFrame, owner |-> process,
   map |-> registered]

posix_signal_upcall ==
  /\ Alive /\ ~upcall /\ defer = 0 /\ Deliverable # {}
  /\ stack' = Append(stack, NativeFrame_new)
  /\ frames' = Append(frames, nextFrame) /\ nextFrame' = nextFrame + 1
  /\ upcall' = TRUE
  /\ UNCHANGED <<defer, scopes, nextScope, delivery, process, Memory, mask, Jumps,
                 exited>>

Drain(native) ==
  [kind |-> "drain", pc |-> "loop", native |-> native, epoch |-> 0,
   delivery |-> CHOOSE d \in Deliveries : TRUE, scope |-> 0, active |-> FALSE,
   previous |-> {}]

upcall_drains ==
  /\ Running("upcall", "drain")
  /\ stack' = Append([stack EXCEPT ![Len(stack)].pc = "resume"], Drain(TRUE))
  /\ UNCHANGED <<defer, Chains, delivery, process, upcall, Memory, mask, Jumps,
                 exited>>

(* A checkpoint of the runtime, called from application code.               *)
drain ==
  /\ Application /\ defer = 0 /\ Deliverable # {}
  /\ stack' = Append(stack, Drain(FALSE))
  /\ UNCHANGED <<defer, Chains, delivery, process, upcall, Memory, mask, Jumps,
                 exited>>

NativeFrame_deactivate(id) == frames # <<>> /\ Last(frames) = id

(* The upcall returns its token to the kernel; a copied one has no token,   *)
(* restores its context itself and unmaps its stack.                        *)
resume ==
  /\ Running("upcall", "resume")
  /\ IF NativeFrame_deactivate(Top.id)
     THEN /\ frames' = Front(frames) /\ Pop
          /\ IF Top.owner = process
             THEN upcall' = FALSE /\ UNCHANGED mapped
             ELSE mapped' = mapped \ {Top.map} /\ UNCHANGED upcall
          /\ UNCHANGED exited
     ELSE process_exit /\ UNCHANGED <<frames, stack, upcall, mapped>>
  /\ UNCHANGED <<defer, scopes, nextScope, nextFrame, delivery, process,
                 registered, mask, Jumps>>

-----------------------------------------------------------------------------
(* drain_pending_signals_with_context.                                      *)

Preparation_new ==
  /\ Running("drain", "loop")
  /\ defer' = defer + 1
  /\ stack' = [stack EXCEPT ![Len(stack)].pc = "dequeue",
                            ![Len(stack)].epoch = process]
  /\ UNCHANGED <<Chains, delivery, process, upcall, Memory, mask, Jumps, exited>>

(* Back to the head of the loop: Scope and Preparation are dropped.  A      *)
(* Scope that is not the innermost one makes retire fail and the process    *)
(* exit.                                                                    *)
Again ==
  /\ stack' = [stack EXCEPT ![Len(stack)].pc = "loop", ![Len(stack)].active = FALSE]
  /\ defer' = defer - 1

Scope_drop ==
  IF ~Top.active THEN UNCHANGED <<scopes, exited>>
  ELSE IF Innermost(scopes) = Top.scope
       THEN scopes' = Front(scopes) /\ UNCHANGED exited
       ELSE process_exit /\ UNCHANGED scopes

(* The drain fails: an upcall exits the process, a checkpoint returns.      *)
Fails ==
  IF Top.native THEN /\ process_exit
                     /\ UNCHANGED <<stack, defer, scopes>>
  ELSE Pop /\ defer' = defer - 1 /\ Scope_drop

(* A delivery is taken and gets its Scope, or there is none and the drain   *)
(* returns, or the request fails and so does the drain: a delivery taken by *)
(* a request whose reply is lost stays at the service, since only the reply *)
(* has its token.                                                           *)
thread_dequeue_signal_delivery ==
  /\ Running("drain", "dequeue")
  /\ \/ \E d \in Deliverable :
          /\ delivery' = [delivery EXCEPT ![d].status = "taken"]
          /\ stack' = [stack EXCEPT ![Len(stack)].pc = "dispatch",
                                    ![Len(stack)].delivery = d,
                                    ![Len(stack)].scope = nextScope]
          /\ nextScope' = nextScope + 1 /\ UNCHANGED <<defer, scopes, exited>>
     \/ /\ Deliverable = {} /\ Pop /\ defer' = defer - 1
        /\ UNCHANGED <<delivery, nextScope, scopes, exited>>
     \/ /\ Fails /\ UNCHANGED nextScope
        /\ \/ UNCHANGED delivery
           \/ \E d \in Deliverable :
                delivery' = [delivery EXCEPT ![d].status = "lost"]
  /\ UNCHANGED <<frames, nextFrame, process, upcall, Memory, mask, Jumps>>

(* The outcomes of dispatch_signal that run no handler: the origin is gone  *)
(* (4), the signal is ignored (3) and completed, its default action is      *)
(* taken (1), which may end the process, or dispatch fails (2, Err) and     *)
(* completes the delivery all the same.                                     *)
dispatch_cancelled ==
  /\ Running("drain", "dispatch") /\ delivery[Top.delivery].status = "cancelled"
  /\ Again
  /\ UNCHANGED <<Chains, delivery, process, upcall, Memory, mask, Jumps, exited>>

apply_default_signal_action ==
  /\ Running("drain", "dispatch") /\ delivery[Top.delivery].status = "taken"
  /\ \E outcome \in Outcomes :
       /\ Settled(Top.delivery, outcome)
       /\ \/ outcome = "sent" /\ Again /\ UNCHANGED <<scopes, exited>>
          \/ outcome = "sent" /\ process_exit /\ UNCHANGED <<stack, defer, scopes>>
          \/ outcome = "failed" /\ Fails
  /\ UNCHANGED <<frames, nextScope, nextFrame, process, upcall, Memory, mask, Jumps>>

dispatch_error ==
  /\ Running("drain", "dispatch") /\ delivery[Top.delivery].status = "taken"
  /\ \E outcome \in Outcomes : Settled(Top.delivery, outcome)
  /\ Fails
  /\ UNCHANGED <<frames, nextScope, nextFrame, process, upcall, Memory, mask, Jumps>>

(* A handler runs: its signal is blocked, the Scope joins the chain, and    *)
(* delivery is no longer deferred.                                          *)
invoke ==
  /\ Running("drain", "dispatch") /\ delivery[Top.delivery].status = "taken"
  /\ mask' = mask \cup {SignalOf[Top.delivery]}
  /\ scopes' = Append(scopes, Top.scope) /\ defer' = defer - 1
  /\ stack' = [stack EXCEPT ![Len(stack)].pc = "handler",
                            ![Len(stack)].active = TRUE,
                            ![Len(stack)].previous = mask]
  /\ UNCHANGED <<frames, nextScope, nextFrame, delivery, process, upcall, Memory,
                 Jumps, exited>>

(* The handler returns: Preparation::finish, and the mask of before.        *)
finish ==
  /\ Running("drain", "handler")
  /\ defer' = defer + 1 /\ mask' = Top.previous /\ Goto("returned")
  /\ UNCHANGED <<Chains, delivery, process, upcall, Memory, Jumps, exited>>

(* Mutant of complete: a copied delivery is completed like any other.       *)
completeCopied ==
  /\ Running("drain", "returned")
  /\ \E outcome \in Outcomes :
       /\ Settled(Top.delivery, outcome)
       /\ IF outcome = "sent" THEN Again /\ Scope_drop ELSE Fails
  /\ UNCHANGED <<frames, nextScope, nextFrame, process, upcall, Memory, mask, Jumps>>

(* Scope::complete.  A delivery copied by fork is not the child's to end.   *)
complete ==
  /\ Running("drain", "returned")
  /\ IF Top.epoch # process THEN Again /\ Scope_drop /\ UNCHANGED delivery
     ELSE \E outcome \in Outcomes :
            /\ Settled(Top.delivery, outcome)
            /\ IF outcome = "sent" THEN Again /\ Scope_drop ELSE Fails
  /\ UNCHANGED <<frames, nextScope, nextFrame, process, upcall, Memory, mask, Jumps>>

(* The handler has put a context in place of its own that may not be        *)
(* resumed: EINVAL, which ends this process's delivery and the drain.       *)
checked_return ==
  /\ Running("drain", "returned")
  /\ IF Top.epoch # process THEN UNCHANGED delivery
     ELSE \E outcome \in Outcomes : Settled(Top.delivery, outcome)
  /\ Fails
  /\ UNCHANGED <<frames, nextScope, nextFrame, process, upcall, Memory, mask, Jumps>>

-----------------------------------------------------------------------------
(* Nonlocal jumps.                                                          *)

sigsetjmp ==
  /\ Application /\ ~buffer.set
  /\ buffer' = [set |-> TRUE, scope |-> Innermost(scopes), defer |-> defer,
                native |-> Innermost(frames), depth |-> Len(stack), mask |-> mask]
  /\ UNCHANGED <<stack, defer, Chains, delivery, process, upcall, Memory, mask,
                 jump, exited>>

validate_target(chain, target) == target = 0 \/ Contains(chain, target)

(* The upcalls a jump abandons: inside the destination.                     *)
Abandoned == {i \in 1..Len(stack) : /\ stack[i].kind = "upcall"
                                    /\ stack[i].id > buffer.native
                                    /\ Contains(frames, stack[i].id)}
Owned == {i \in Abandoned : stack[i].owner = process}
Orphans == Abandoned \ Owned

(* visit_abandoned: at most one upcall of this process, inside every copied *)
(* one, and no copied one on the stack the kernel uses.                     *)
visit_abandoned ==
  /\ Cardinality(Owned) <= 1
  /\ \A i \in Owned, j \in Orphans : i > j
  /\ \A j \in Orphans : stack[j].map # registered

(* Everything is checked before anything is consumed.                       *)
siglongjmp ==
  /\ Application /\ buffer.set
  /\ defer' = defer + 1
  /\ IF /\ validate_target(scopes, buffer.scope)
        /\ validate_target(frames, buffer.native)
        /\ visit_abandoned
     THEN jump' = TRUE /\ UNCHANGED exited
     ELSE process_exit /\ UNCHANGED jump
  /\ UNCHANGED <<stack, Chains, delivery, process, upcall, Memory, mask, buffer>>

ScopeOwner(id) == CHOOSE i \in 1..Len(stack) : /\ stack[i].kind = "drain"
                                               /\ stack[i].scope = id

Jumping == ~exited /\ jump

(* Mutant of unwind_to: the abandoned deliveries are only unlinked.         *)
unwind_toSilent ==
  /\ Jumping /\ Innermost(scopes) # buffer.scope
  /\ scopes' = Front(scopes)
  /\ UNCHANGED <<stack, defer, frames, nextScope, nextFrame, delivery, process,
                 upcall, Memory, mask, Jumps, exited>>

(* One abandoned delivery is completed, if it is this process's, and its    *)
(* Scope retired.  A request that fails ends the process.                   *)
unwind_to ==
  LET own == stack[ScopeOwner(Innermost(scopes))]
  IN /\ Jumping /\ Innermost(scopes) # buffer.scope
     /\ IF own.epoch # process
        THEN scopes' = Front(scopes) /\ UNCHANGED <<delivery, exited>>
        ELSE \E outcome \in Outcomes :
               /\ Settled(own.delivery, outcome)
               /\ IF outcome = "sent" THEN scopes' = Front(scopes) /\ UNCHANGED exited
                  ELSE process_exit /\ UNCHANGED scopes
     /\ UNCHANGED <<stack, defer, frames, nextScope, nextFrame, process, upcall,
                    Memory, mask, Jumps>>

(* retire_to and the transition: the mask and the depth of the destination, *)
(* its stack, the token back to the kernel, and the copied stacks unmapped. *)
leave_native ==
  /\ Jumping /\ Innermost(scopes) = buffer.scope
  /\ mask' = buffer.mask /\ defer' = buffer.defer
  /\ frames' = SelectSeq(frames, LAMBDA id : id <= buffer.native)
  /\ stack' = SubSeq(stack, 1, buffer.depth)
  /\ upcall' = (upcall /\ Owned = {})
  /\ mapped' = mapped \ {stack[i].map : i \in Orphans}
  /\ jump' = FALSE
  /\ UNCHANGED <<scopes, nextScope, nextFrame, delivery, process, registered,
                 buffer, exited>>

-----------------------------------------------------------------------------
(* The child of a fork: a new native thread with a new upcall stack.        *)

stack_is_active(map) ==
  frames # <<>> /\ \E i \in 1..Len(stack) : /\ stack[i].kind = "upcall"
                                           /\ stack[i].id = Last(frames)
                                           /\ stack[i].map = map

setup_signal_delivery(map) ==
  /\ registered' = map
  /\ mapped' = (mapped \cup {map}) \
                 (IF stack_is_active(registered) THEN {} ELSE {registered})

fork ==
  /\ Application /\ process <= MaxForks
  /\ process' = process + 1 /\ upcall' = FALSE
  /\ setup_signal_delivery(process + 1)
  /\ UNCHANGED <<stack, defer, Chains, delivery, mask, Jumps, exited>>

-----------------------------------------------------------------------------
Next ==
  \/ \E d \in Deliveries : generate(d) \/ cancel(d)
  \/ posix_signal_upcall \/ upcall_drains \/ drain \/ resume
  \/ Preparation_new \/ thread_dequeue_signal_delivery
  \/ dispatch_cancelled \/ apply_default_signal_action \/ dispatch_error
  \/ invoke \/ finish \/ complete \/ checked_return
  \/ sigsetjmp \/ siglongjmp \/ unwind_to \/ leave_native
  \/ fork

Spec == Init /\ [][Next]_vars

-----------------------------------------------------------------------------
(* However handlers, jumps, failed requests and forks nest, the runtime's   *)
(* books balance.  A delivery is ended once, by the process that took it.   *)
(* No two upcalls share a stack, and every upcall that will run again still *)
(* has its own.  When application code runs, delivery is not deferred and   *)
(* the chains are those of the handlers it runs in; outside every handler   *)
(* this process has asked to end each delivery it was given (one that was   *)
(* lost with its reply it cannot name), the kernel has its token back, the  *)
(* mask is what it was and no copied stack is left mapped (signal_scope.rs, *)
(* signal_delivery.rs, siglongjmp).                                         *)
DeliveriesSettled ==
  LET upcalls == {i \in 1..Len(stack) : stack[i].kind = "upcall"}
      handlers == SelectSeq(stack, LAMBDA a : a.pc = "handler")
  IN ~exited =>
     /\ \A d \in Deliveries : /\ delivery[d].attempts <= 1
                              /\ delivery[d].by \in {0, delivery[d].owner}
     /\ \A i \in upcalls : /\ stack[i].map \in mapped
                           /\ \A j \in upcalls \ {i} : stack[i].map # stack[j].map
     /\ Application =>
          /\ defer = 0
          /\ Len(scopes) = Len(handlers)
          /\ \A i \in 1..Len(scopes) : scopes[i] = handlers[i].scope
          /\ Len(frames) = Cardinality(upcalls)
     /\ Application /\ stack = <<>> =>
          /\ scopes = <<>> /\ ~upcall /\ mapped = {registered} /\ mask = {}
          /\ \A d \in Deliveries :
               delivery[d].owner = process /\ delivery[d].status = "taken" =>
                 delivery[d].attempts = 1

=============================================================================
