------------------------------- MODULE Timers -------------------------------
(***************************************************************************)
(* POSIX timers of one process (newlib-runtime/src/process_timer.rs,       *)
(* timer_callbacks.rs, thread_clock.rs, signal_info.rs; posix-client/src/  *)
(* timer_value.rs, thread_clock.rs).  The timers live in the POSIX         *)
(* service; the runtime keeps what never leaves the process: the values    *)
(* of notifications under tokens that are not reused, the callbacks of     *)
(* SIGEV_THREAD, the ids whose deletion is still owed, and one receiver    *)
(* thread that starts a thread for every callback event.                   *)
(*                                                                         *)
(* One step is one critical section of STATE, one request to the service   *)
(* or one access to DISPATCHER.  A request may be refused, and its answer  *)
(* may be lost after the service has acted.  A thread is identified with   *)
(* its native id and its CPU clock id, which are not reused.  After a fork *)
(* the model follows the child.                                            *)
(***************************************************************************)
EXTENDS Naturals, Sequences, FiniteSets

CONSTANTS Threads,     \* application threads that may use timers
          Callbacks,   \* threads there is room for besides
          Process,     \* the clock and owner of a process-wide timer
          Capacity,    \* 128: cleanup slots, registry entries, jobs
          Menus        \* what the program may still do: calls of each kind,
                       \* the notifications and the clocks it asks for

VARIABLES pc, frame,      \* application thread -> where it is, its locals
          book, cursor,   \* CleanupBook
          values,         \* timer_values
          callbacks,      \* timer_callbacks.values
          jobs,           \* timer_callbacks.jobs
          clocks,         \* thread_clocks
          DISPATCHER,
          receiver,       \* the receiver thread
          callback,       \* callback thread -> where it is
          made,           \* every timer the service has made, by id
          held,           \* those it still has for this process
          armed,
          pending,        \* expirations: events not yet delivered
          known,          \* ids timer_create has stored in the program
          deleted,        \* ids a timer_delete has answered for
          called,         \* the notification taken or passed on last, if any
          menu,           \* of Menus
          process,        \* the process the model follows
          exited          \* it has ended

local == <<book, cursor, values, callbacks, jobs, clocks>>
runtime == <<local, DISPATCHER, receiver, callback>>
service == <<made, held, armed, pending>>
program == <<known, deleted>>
fates == <<menu, process, exited>>
vars == <<pc, frame, runtime, service, program, called, fates>>

TimerSlots == 1 .. Capacity
Kinds == {"none", "signal", "default", "thread"}
Free == [tag |-> "Free", id |-> 0]
Reserved == [tag |-> "Reserved", id |-> 0]
Retrying == [tag |-> "Retrying", id |-> 0]
Pending(x) == [tag |-> "Pending", id |-> x]
NoCall == [result |-> "none", timer |-> 0, value |-> <<>>]
NoFrame == [op |-> "", phase |-> 0, kind |-> "none", clock |-> Process, slot |-> 0,
            token |-> 0, id |-> 0, bound |-> FALSE, committed |-> FALSE,
            reference |-> FALSE, retry |-> 0, gone |-> FALSE, notice |-> NoCall]
NoReceiver == [pc |-> "none", event |-> <<0, 0>>, job |-> 0]
NoCallback == [pc |-> "none", job |-> 0, notice |-> NoCall]
Registry_new == [entries |-> {}, last |-> 0]

Init ==
  /\ pc = [t \in Threads |-> "idle"] /\ frame = [t \in Threads |-> NoFrame]
  /\ book = [s \in TimerSlots |-> Free] /\ cursor = 1
  /\ values = Registry_new /\ callbacks = Registry_new
  /\ jobs = [s \in TimerSlots |-> <<0, 0>>] /\ clocks = {} /\ DISPATCHER = 0
  /\ receiver = NoReceiver /\ callback = [c \in Callbacks |-> NoCallback]
  /\ made = <<>> /\ held = {} /\ armed = {} /\ pending = {}
  /\ known = {} /\ deleted = {} /\ called = NoCall
  /\ process = 0 /\ exited = FALSE
  /\ menu \in Menus

-----------------------------------------------------------------------------
(* The registry of notification values (timer_value.rs).                    *)

Full(r) == Cardinality(r.entries) = Capacity
reserve(r, value, owner) ==
  [entries |-> r.entries \cup {[token |-> r.last + 1, timer |-> 0,
                                value |-> value, owner |-> owner]},
   last |-> r.last + 1]
Entry(r, token) == {e \in r.entries : e.token = token}
CanBind(r, token, x) ==
  /\ \E e \in Entry(r, token) : e.timer = 0
  /\ \A e \in r.entries : e.timer # x
(* update_reserved and bind, in one critical section.                       *)
bind(r, token, x, default) ==
  [r EXCEPT !.entries = {IF e.token = token
                           THEN [e EXCEPT !.timer = x,
                                          !.value = IF default THEN <<x>> ELSE @]
                           ELSE e : e \in @}]
Registry_cancel(r, token) ==
  [r EXCEPT !.entries = {e \in @ : ~(e.token = token /\ e.timer = 0)}]
retire(r, x) == [r EXCEPT !.entries = {e \in @ : e.timer # x}]
retire_owner(r, owner) == [r EXCEPT !.entries = {e \in @ : e.owner # owner}]
clear_for_fork(r) == [r EXCEPT !.entries = {}]
Resolved(r, x, token) == {e \in Entry(r, token) : e.timer = x /\ x # 0}
resolve(r, x, token) ==
  CASE token = 0 \/ token > r.last -> "UnknownToken"
    [] Entry(r, token) = {}        -> "StaleToken"
    [] Resolved(r, x, token) = {}  -> "WrongTimer"
    [] OTHER                       -> "Ok"

-----------------------------------------------------------------------------
(* The service: expiry, and the end of the timers of a thread that is gone. *)

Quiet == called' = NoCall
Running(t) == pc[t] \notin {"exited", "gone"}

expire(x) ==
  /\ ~exited /\ x \in armed /\ made[x].kind # "none"
  /\ pending' = pending \cup {x} /\ Quiet
  /\ UNCHANGED <<pc, frame, runtime, made, held, armed, program, fates>>

observe_exit(t) ==
  LET dead == {x \in held : made[x].owner = t}
  IN /\ ~exited /\ ~Running(t) /\ dead # {}
     /\ held' = held \ dead /\ armed' = armed \ dead /\ Quiet
     /\ UNCHANGED <<pc, frame, runtime, made, pending, program, fates>>

(* timer_delete of the service: it answers that the timer is gone, or the   *)
(* caller sees an error and cannot tell whether the service has acted.      *)
Delete(x, answered) ==
  \E acts \in (IF answered THEN {TRUE} ELSE BOOLEAN) :
     /\ held' = IF acts THEN held \ {x} ELSE held
     /\ armed' = IF acts THEN armed \ {x} ELSE armed
     /\ UNCHANGED <<made, pending>>

-----------------------------------------------------------------------------
(* guarded: every operation retries one owed deletion before and after.     *)

Goto(t, label) == pc' = [pc EXCEPT ![t] = label]
At(t, label) == ~exited /\ pc[t] = label /\ Quiet
Settle(t) == frame' = [frame EXCEPT ![t].phase = 2]

Asks(op) == menu.calls[op] > 0 /\ menu' = [menu EXCEPT !.calls[op] = @ - 1]
guarded(t, op, kind, clock, x) ==
  /\ At(t, "idle") /\ Goto(t, "retry") /\ Asks(op)
  /\ frame' = [frame EXCEPT ![t] = [NoFrame EXCEPT !.op = op, !.phase = 1,
                                      !.kind = kind, !.clock = clock, !.id = x]]
  /\ UNCHANGED <<runtime, service, program, process, exited>>

Operation(t) == IF frame[t].phase = 1 THEN frame[t].op ELSE "idle"
Return(t) == IF frame[t].phase = 1 THEN frame' = frame
                                   ELSE frame' = [frame EXCEPT ![t] = NoFrame]
Behind(s) == (s + Capacity - cursor) % Capacity

retry_cleanup(t) ==
  LET owed == {s \in TimerSlots : book[s].tag = "Pending"}
      next == CHOOSE s \in owed : \A r \in owed : Behind(s) <= Behind(r)
  IN /\ At(t, "retry")
     /\ IF owed = {}
          THEN /\ Goto(t, Operation(t)) /\ Return(t)
               /\ UNCHANGED <<book, cursor>>
          ELSE /\ Goto(t, "retry_delete")
               /\ frame' = [frame EXCEPT ![t].slot = next, ![t].retry = book[next].id]
               /\ book' = [book EXCEPT ![next] = Retrying]
               /\ cursor' = (next % Capacity) + 1
     /\ UNCHANGED <<values, callbacks, jobs, clocks, DISPATCHER, receiver, callback,
                    service, program, fates>>

retry_delete(t, answered) ==
  /\ At(t, "retry_delete") /\ Goto(t, "retry_done")
  /\ Delete(frame[t].retry, answered)
  /\ frame' = [frame EXCEPT ![t].gone = answered]
  /\ UNCHANGED <<runtime, program, fates>>

\* Mutant of retry_done: any answer frees the slot
retry_doneForgets(t) ==
  /\ At(t, "retry_done") /\ Goto(t, Operation(t))
  /\ book' = [book EXCEPT ![frame[t].slot] = Free]
  /\ frame' = [frame EXCEPT ![t] = IF @.phase = 1 THEN [@ EXCEPT !.slot = 0, !.retry = 0]
                                                  ELSE NoFrame]
  /\ UNCHANGED <<cursor, values, callbacks, jobs, clocks, DISPATCHER, receiver,
                 callback, service, program, fates>>

retry_done(t) ==
  /\ At(t, "retry_done") /\ Goto(t, Operation(t))
  /\ book' = [book EXCEPT ![frame[t].slot] =
                IF frame[t].gone THEN Free ELSE Pending(frame[t].retry)]
  /\ frame' = [frame EXCEPT ![t] = IF @.phase = 1
                                     THEN [@ EXCEPT !.slot = 0, !.retry = 0, !.gone = FALSE]
                                     ELSE NoFrame]
  /\ UNCHANGED <<cursor, values, callbacks, jobs, clocks, DISPATCHER, receiver,
                 callback, service, program, fates>>

-----------------------------------------------------------------------------
(* timer_create.                                                            *)

(* Refused before anything is reserved, or no cleanup slot is free.         *)
create_refused(t) ==
  /\ At(t, "create") /\ Goto(t, "retry") /\ Settle(t)
  /\ UNCHANGED <<runtime, service, program, fates>>

Creation_new(t) ==
  /\ At(t, "create") /\ Goto(t, "target")
  /\ \E s \in TimerSlots :
       /\ book[s] = Free /\ \A r \in 1 .. (s - 1) : book[r] # Free
       /\ book' = [book EXCEPT ![s] = Reserved]
       /\ frame' = [frame EXCEPT ![t].slot = s]
  /\ UNCHANGED <<cursor, values, callbacks, jobs, clocks, DISPATCHER, receiver,
                 callback, service, program, fates>>

(* Creation::drop.                                                          *)
Creation_drop(t) ==
  LET f == frame[t]
      dropped(r, token) == IF f.committed THEN r
                           ELSE IF f.bound THEN retire(r, f.id)
                           ELSE Registry_cancel(r, token)
  IN /\ At(t, "drop") /\ Goto(t, "retry")
     /\ values' = dropped(values, IF f.kind = "thread" THEN 0 ELSE f.token)
     /\ callbacks' = dropped(callbacks, IF f.kind = "thread" THEN f.token ELSE 0)
     /\ book' = [book EXCEPT ![f.slot] = IF f.committed \/ f.id = 0 THEN Free
                                                                   ELSE Pending(f.id)]
     /\ frame' = [frame EXCEPT ![t] = [NoFrame EXCEPT !.op = "create", !.phase = 2]]
     /\ UNCHANGED <<cursor, jobs, clocks, DISPATCHER, receiver, callback, service,
                    program, fates>>

Fail(t) == Goto(t, "drop") /\ frame' = [frame EXCEPT ![t].reference = FALSE]

(* thread_clock::timer_target pins the thread whose clock id was given.     *)
Live(t) == t \in clocks /\ Running(t)
timer_target(t) ==
  LET f == frame[t]
      next == IF f.kind = "thread" THEN "ensure" ELSE "reserve"
  IN /\ At(t, "target")
     /\ \/ f.clock \in {Process, t} /\ Goto(t, next) /\ UNCHANGED frame
        \/ /\ f.clock \notin {Process, t} /\ Live(f.clock) /\ Goto(t, next)
           /\ frame' = [frame EXCEPT ![t].reference = TRUE]
        \/ f.clock \notin {Process, t} /\ Fail(t)
     /\ UNCHANGED <<runtime, service, program, fates>>

(* timer_callbacks::ensure_dispatcher.                                      *)
Woken == [t \in Threads |-> CASE pc[t] = "ensure_parked"  -> "ensure"
                              [] pc[t] = "started_parked" -> "started"
                              [] OTHER                    -> pc[t]]

ensure_dispatcher(t) ==
  /\ At(t, "ensure")
  /\ Goto(t, CASE DISPATCHER = 0 -> "spawn" [] DISPATCHER = 1 -> "ensure_parked"
               [] OTHER -> "reserve")
  /\ DISPATCHER' = IF DISPATCHER = 0 THEN 1 ELSE DISPATCHER
  /\ UNCHANGED <<frame, local, receiver, callback, service, program, fates>>

spawn_dispatcher(t) ==
  /\ At(t, "spawn")
  /\ \/ /\ receiver' = [NoReceiver EXCEPT !.pc = "init"]
        /\ Goto(t, "started") /\ UNCHANGED <<frame, DISPATCHER>>
     \/ /\ DISPATCHER' = 0 /\ pc' = [Woken EXCEPT ![t] = "drop"]
        /\ frame' = [frame EXCEPT ![t].reference = FALSE]
        /\ UNCHANGED receiver
  /\ UNCHANGED <<local, callback, service, program, fates>>

(* The word is read once to leave the loop and once more to judge it.       *)
dispatcher_started(t) ==
  /\ At(t, "started")
  /\ Goto(t, IF DISPATCHER = 1 THEN "started_parked" ELSE "judge")
  /\ UNCHANGED <<frame, runtime, service, program, fates>>

dispatcher_judged(t) ==
  /\ At(t, "judge")
  /\ IF DISPATCHER = 2 THEN Goto(t, "reserve") /\ UNCHANGED frame ELSE Fail(t)
  /\ UNCHANGED <<runtime, service, program, fates>>

Value(t) == <<"value", t>>
(* Another thread's clock must still be registered when its value is.       *)
Registrable(t) == frame[t].clock \in {Process, t} \cup clocks

reserve_value(t) ==
  LET f == frame[t]
  IN /\ At(t, "reserve")
     /\ \/ f.kind = "none" /\ Goto(t, "request") /\ UNCHANGED <<frame, values, callbacks>>
        \/ /\ f.kind \in {"signal", "default"} /\ Registrable(t) /\ ~Full(values)
           /\ values' = reserve(values, Value(t), f.clock)
           /\ frame' = [frame EXCEPT ![t].token = values.last + 1]
           /\ Goto(t, "request") /\ UNCHANGED callbacks
        \/ /\ f.kind = "thread" /\ Registrable(t) /\ ~Full(callbacks)
           /\ callbacks' = reserve(callbacks, Value(t), f.clock)
           /\ frame' = [frame EXCEPT ![t].token = callbacks.last + 1]
           /\ Goto(t, "request") /\ UNCHANGED values
        \/ /\ f.kind # "none"
           /\ ~Registrable(t) \/ Full(IF f.kind = "thread" THEN callbacks ELSE values)
           /\ Fail(t) /\ UNCHANGED <<values, callbacks>>
     /\ UNCHANGED <<book, cursor, jobs, clocks, DISPATCHER, receiver, callback, service,
                    program, fates>>

(* Client::timer_create, timer_create_for_thread, timer_create_for_process. *)
request(t) ==
  LET f == frame[t]
      x == Len(made) + 1
      timer(told) ==
               [kind |-> f.kind, token |-> f.token, owner |-> f.clock,
                process |-> process, told |-> told,
                value |-> IF f.kind = "default" THEN <<x>> ELSE Value(t)]
  IN /\ At(t, "request")
     /\ \/ /\ made' = Append(made, timer(TRUE)) /\ held' = held \cup {x}
           /\ frame' = [frame EXCEPT ![t].id = x, ![t].reference = FALSE]
           /\ Goto(t, "bind")
        \/ /\ made' = Append(made, timer(FALSE)) /\ held' = held \cup {x} /\ Fail(t)
        \/ Fail(t) /\ UNCHANGED <<made, held>>
     /\ UNCHANGED <<runtime, armed, pending, program, fates>>

bind_value(t) ==
  LET f == frame[t]
      r == IF f.kind = "thread" THEN callbacks ELSE values
      bound == bind(r, f.token, f.id, f.kind = "default")
  IN /\ At(t, "bind")
     /\ IF f.kind = "none" \/ CanBind(r, f.token, f.id)
          THEN /\ Goto(t, "write")
               /\ frame' = [frame EXCEPT ![t].bound = f.kind # "none"]
               /\ values' = IF f.kind \in {"signal", "default"} THEN bound ELSE values
               /\ callbacks' = IF f.kind = "thread" THEN bound ELSE callbacks
          ELSE Fail(t) /\ UNCHANGED <<values, callbacks>>
     /\ UNCHANGED <<book, cursor, jobs, clocks, DISPATCHER, receiver, callback, service,
                    program, fates>>

(* The id is stored in the program's memory, or the store faults.           *)
write_output(t) ==
  /\ At(t, "write") /\ Goto(t, "drop")
  /\ \/ /\ known' = known \cup {frame[t].id}
        /\ frame' = [frame EXCEPT ![t].committed = TRUE]
     \/ UNCHANGED <<known, frame>>
  /\ UNCHANGED <<runtime, service, deleted, fates>>

timer_create(t) ==
  \/ create_refused(t) \/ Creation_new(t) \/ timer_target(t)
  \/ ensure_dispatcher(t) \/ spawn_dispatcher(t)
  \/ dispatcher_started(t) \/ dispatcher_judged(t)
  \/ reserve_value(t) \/ request(t) \/ bind_value(t) \/ write_output(t)
  \/ Creation_drop(t)

-----------------------------------------------------------------------------
(* The other operations on timers.                                          *)

timer_delete(t, answered) ==
  /\ At(t, "delete") /\ Delete(frame[t].id, answered)
  /\ IF answered THEN Goto(t, "retire") /\ UNCHANGED frame
                 ELSE Goto(t, "retry") /\ Settle(t)
  /\ UNCHANGED <<runtime, program, fates>>

timer_delete_retire(t) ==
  /\ At(t, "retire")
  /\ values' = retire(values, frame[t].id) /\ Goto(t, "retire_callback")
  /\ UNCHANGED <<frame, book, cursor, callbacks, jobs, clocks, DISPATCHER, receiver,
                 callback, service, program, fates>>

timer_delete_callback(t) ==
  /\ At(t, "retire_callback") /\ Goto(t, "retry") /\ Settle(t)
  /\ callbacks' = retire(callbacks, frame[t].id)
  /\ deleted' = deleted \cup {frame[t].id}
  /\ UNCHANGED <<book, cursor, values, jobs, clocks, DISPATCHER, receiver, callback,
                 service, known, fates>>

(* Arms or disarms; an error may hide either.                               *)
timer_settime(t) ==
  /\ At(t, "settime") /\ Goto(t, "retry") /\ Settle(t)
  /\ \/ frame[t].id \in held /\ armed' = armed \cup {frame[t].id}
     \/ armed' = armed \ {frame[t].id}
     \/ UNCHANGED armed
  /\ UNCHANGED <<runtime, made, held, pending, program, fates>>

(* timer_gettime and timer_getoverrun only read.                            *)
timer_gettime(t) ==
  /\ At(t, "gettime") /\ Goto(t, "retry") /\ Settle(t)
  /\ UNCHANGED <<runtime, service, program, fates>>

pthread_getcpuclockid(t, u) ==
  /\ At(t, "idle") /\ Running(u) /\ u \notin clocks
  /\ Cardinality(clocks) < Capacity
  /\ clocks' = clocks \cup {u}
  /\ UNCHANGED <<pc, frame, book, cursor, values, callbacks, jobs, DISPATCHER, receiver,
                 callback, service, program, fates>>

-----------------------------------------------------------------------------
(* The receiver thread and the threads of callbacks (timer_callbacks.rs).   *)

dispatch(ok) ==
  /\ ~exited /\ receiver.pc = "init" /\ Quiet
  /\ DISPATCHER' = (IF ok THEN 2 ELSE 0) /\ pc' = Woken
  /\ receiver' = [NoReceiver EXCEPT !.pc = IF ok THEN "wait" ELSE "none"]
  /\ UNCHANGED <<frame, local, callback, service, program, fates>>

timer_wait_callback(x) ==
  /\ ~exited /\ receiver.pc = "wait" /\ Quiet
  /\ x \in pending /\ made[x].kind = "thread"
  /\ pending' = pending \ {x}
  /\ receiver' = [receiver EXCEPT !.pc = "launch", !.event = <<x, made[x].token>>]
  /\ UNCHANGED <<pc, frame, local, DISPATCHER, callback, made, held, armed, program,
                 fates>>

(* With no job free the receiver pauses and tries again.                    *)
launch ==
  LET e == receiver.event
  IN /\ ~exited /\ receiver.pc = "launch" /\ Quiet
     /\ \/ /\ resolve(callbacks, e[1], e[2]) # "Ok"
           /\ receiver' = [NoReceiver EXCEPT !.pc = "wait"] /\ UNCHANGED jobs
        \/ /\ resolve(callbacks, e[1], e[2]) = "Ok"
           /\ \E j \in TimerSlots :
                /\ jobs[j] = <<0, 0>> /\ \A i \in 1 .. (j - 1) : jobs[i] # <<0, 0>>
                /\ jobs' = [jobs EXCEPT ![j] = e]
                /\ receiver' = [receiver EXCEPT !.pc = "create", !.job = j]
     /\ UNCHANGED <<pc, frame, book, cursor, values, callbacks, clocks, DISPATCHER,
                    callback, service, program, fates>>

launch_create ==
  /\ ~exited /\ receiver.pc = "create" /\ Quiet
  /\ \/ /\ \E c \in Callbacks :
             /\ callback[c].pc = "none"
             /\ callback' = [callback EXCEPT ![c].pc = "start", ![c].job = receiver.job]
        /\ receiver' = [NoReceiver EXCEPT !.pc = "wait"] /\ UNCHANGED jobs
     \/ /\ jobs' = [jobs EXCEPT ![receiver.job] = <<0, 0>>]
        /\ receiver' = [receiver EXCEPT !.pc = "launch", !.job = 0]
        /\ UNCHANGED callback
  /\ UNCHANGED <<pc, frame, book, cursor, values, callbacks, clocks, DISPATCHER,
                 service, program, fates>>

(* What resolve has copied under STATE is passed on after the lock is gone. *)
Notice(r, x, token) ==
  [result |-> "taken", timer |-> x,
   value |-> (CHOOSE e \in Resolved(r, x, token) : TRUE).value]
CallWith(notice) == called' = [notice EXCEPT !.result = "called"]

\* Mutant of invoke: the callback resolved by launch is taken as it was
invokeQueued(c) ==
  LET j == callback[c].job
      e == jobs[j]
      notice == [result |-> "taken", timer |-> e[1], value |-> made[e[1]].value]
  IN /\ ~exited /\ callback[c].pc = "start"
     /\ jobs' = [jobs EXCEPT ![j] = <<0, 0>>]
     /\ callback' = [callback EXCEPT ![c] = [pc |-> "call", job |-> 0, notice |-> notice]]
     /\ called' = notice
     /\ UNCHANGED <<pc, frame, book, cursor, values, callbacks, clocks, DISPATCHER,
                    receiver, service, program, fates>>

invoke(c) ==
  LET j == callback[c].job
      e == jobs[j]
      notice == Notice(callbacks, e[1], e[2])
  IN /\ ~exited /\ callback[c].pc = "start"
     /\ jobs' = [jobs EXCEPT ![j] = <<0, 0>>]
     /\ \/ /\ resolve(callbacks, e[1], e[2]) = "Ok" /\ called' = notice
           /\ callback' = [callback EXCEPT ![c] =
                             [pc |-> "call", job |-> 0, notice |-> notice]]
        \/ /\ resolve(callbacks, e[1], e[2]) # "Ok" /\ Quiet
           /\ callback' = [callback EXCEPT ![c] = [NoCallback EXCEPT !.pc = "run"]]
     /\ UNCHANGED <<pc, frame, book, cursor, values, callbacks, clocks, DISPATCHER,
                    receiver, service, program, fates>>

invoke_call(c) ==
  /\ ~exited /\ callback[c].pc = "call" /\ CallWith(callback[c].notice)
  /\ callback' = [callback EXCEPT ![c] = [NoCallback EXCEPT !.pc = "run"]]
  /\ UNCHANGED <<pc, frame, local, DISPATCHER, receiver, service, program, fates>>

(* signal_info::prepare: the handler's siginfo of a timer's signal, taken   *)
(* by a thread that is not inside an operation on timers.                   *)
prepare(t, x) ==
  LET result == resolve(values, x, made[x].token)
      notice == Notice(values, x, made[x].token)
  IN /\ ~exited /\ pc[t] = "idle"
     /\ x \in pending /\ made[x].kind \in {"signal", "default"}
     /\ pending' = pending \ {x}
     /\ \/ /\ result = "Ok" /\ called' = notice /\ Goto(t, "handler")
           /\ frame' = [frame EXCEPT ![t].notice = notice]
        \/ result = "StaleToken" /\ Quiet /\ UNCHANGED <<pc, frame>>
        \/ /\ result \notin {"Ok", "StaleToken"} /\ UNCHANGED <<pc, frame>>
           /\ called' = [NoCall EXCEPT !.result = "EIO"]
     /\ UNCHANGED <<runtime, made, held, armed, program, fates>>

(* The handler runs with the siginfo that was prepared.                     *)
deliver(t) ==
  /\ ~exited /\ pc[t] = "handler" /\ CallWith(frame[t].notice) /\ Goto(t, "idle")
  /\ frame' = [frame EXCEPT ![t] = NoFrame]
  /\ UNCHANGED <<runtime, service, program, fates>>

-----------------------------------------------------------------------------
(* The end of a thread, and of the process.                                 *)

thread_exit(t) ==
  /\ At(t, "idle") /\ Goto(t, "exited") /\ Asks("exit")
  /\ values' = retire_owner(values, t) /\ callbacks' = retire_owner(callbacks, t)
  /\ clocks' = clocks \ {t}
  /\ UNCHANGED <<frame, book, cursor, jobs, DISPATCHER, receiver, callback, service,
                 program, process, exited>>

callback_exit(c) ==
  /\ ~exited /\ callback[c].pc = "run" /\ Quiet
  /\ callback' = [callback EXCEPT ![c].pc = "exited"]
  /\ UNCHANGED <<pc, frame, local, DISPATCHER, receiver, service, program, fates>>

(* thread_lifecycle::capture: no thread is being created or is pinned.      *)
Frozen == \A t \in Threads : ~frame[t].reference
Alone == /\ \A t \in Threads : ~Running(t)
         /\ \A c \in Callbacks : callback[c].pc \notin {"start", "call", "run"}
         /\ receiver.pc # "init"
\* Mutant of finish_if_last_application: the receiver counts as a thread
finish_if_lastCountsReceiver ==
  IF receiver.pc \in {"none", "init"}
    THEN UNCHANGED exited
    ELSE Frozen /\ UNCHANGED exited

finish_if_last_application ==
  IF receiver.pc \in {"none", "init"}
    THEN UNCHANGED exited
    ELSE Frozen /\ exited' = Alone

finish_thread(t) ==
  /\ At(t, "exited") /\ Goto(t, "gone") /\ finish_if_last_application
  /\ UNCHANGED <<frame, runtime, service, program, menu, process>>

finish_callback(c) ==
  /\ ~exited /\ callback[c].pc = "exited" /\ Quiet
  /\ callback' = [callback EXCEPT ![c] = NoCallback] /\ finish_if_last_application
  /\ UNCHANGED <<pc, frame, local, DISPATCHER, receiver, service, program, menu,
                 process>>

(* The child of a fork has this thread only, and none of the timers.        *)
fork_child(t) ==
  /\ At(t, "idle") /\ Frozen /\ Asks("fork")
  /\ process' = process + 1
  /\ pc' = [u \in Threads |-> IF u = t THEN "idle" ELSE "gone"]
  /\ frame' = [u \in Threads |-> NoFrame]
  /\ values' = clear_for_fork(values) /\ callbacks' = clear_for_fork(callbacks)
  /\ book' = [s \in TimerSlots |-> Free] /\ cursor' = 1
  /\ jobs' = [s \in TimerSlots |-> <<0, 0>>] /\ clocks' = {}
  /\ DISPATCHER' = 0 /\ receiver' = NoReceiver
  /\ callback' = [c \in Callbacks |-> NoCallback]
  /\ held' = {} /\ armed' = {} /\ pending' = {}
  /\ UNCHANGED <<made, program, exited>>

-----------------------------------------------------------------------------
begin(t) ==
  \/ \E kind \in menu.kinds, clock \in menu.clocks : guarded(t, "create", kind, clock, 0)
  \/ \E op \in {"delete", "settime", "gettime"}, x \in known :
        guarded(t, op, "none", Process, x)

Next ==
  \/ \E t \in Threads :
       \/ begin(t) \/ retry_cleanup(t) \/ retry_done(t) \/ timer_create(t)
       \/ \E answered \in BOOLEAN : retry_delete(t, answered) \/ timer_delete(t, answered)
       \/ timer_delete_retire(t) \/ timer_delete_callback(t)
       \/ timer_settime(t) \/ timer_gettime(t)
       \/ \E u \in Threads : pthread_getcpuclockid(t, u)
       \/ thread_exit(t) \/ finish_thread(t) \/ observe_exit(t) \/ fork_child(t)
       \/ (\E x \in DOMAIN made : prepare(t, x)) \/ deliver(t)
  \/ \E x \in DOMAIN made : expire(x) \/ timer_wait_callback(x)
  \/ \E ok \in BOOLEAN : dispatch(ok)
  \/ launch \/ launch_create
  \/ \E c \in Callbacks : invoke(c) \/ invoke_call(c) \/ callback_exit(c) \/ finish_callback(c)

Spec == Init /\ [][Next]_vars

-----------------------------------------------------------------------------
(* No timer the process has learned of is forgotten: as long as the service *)
(* has it, the program has its id, or a timer_create is still at work on    *)
(* it, or the cleanup book owes its deletion; a reserved slot has its       *)
(* creation and a slot being retried its retrier; and the process owes no   *)
(* deletion of a timer of its parent.                                       *)
Owes(t) == IF frame[t].retry # 0 THEN {frame[t].retry} ELSE {}
Creates(t) == IF frame[t].op = "create" /\ frame[t].phase = 1 THEN {frame[t].id} ELSE {}
TimersAccounted ==
  /\ \A x \in held : \/ x \in known \/ ~made[x].told
                     \/ \E t \in Threads : x \in Owes(t) \cup Creates(t)
                     \/ \E s \in TimerSlots : book[s] = Pending(x)
  /\ \A s \in TimerSlots : book[s].tag \in {"Reserved", "Retrying"} =>
       \E t \in Threads : frame[t].slot = s
  /\ \A s \in TimerSlots : book[s].tag = "Pending" => made[book[s].id].process = process

(* A notification is taken only for a timer that is not deleted and whose   *)
(* thread has not ended.  Between the copy and the call the timer may go:   *)
(* signal_info.rs says of the two that "if snapshot won, its copied value   *)
(* remains deliverable".  What is passed on even then is the value the      *)
(* timer was created with, and never a notification of the parent's; and a  *)
(* signal of a timer is never taken for a malformed one.                    *)
NotificationsCurrent ==
  LET timer == made[called.timer]
  IN /\ called.result # "EIO"
     /\ called.result \in {"taken", "called"} =>
          called.value = timer.value /\ timer.process = process
     /\ called.result = "taken" =>
          /\ called.timer \notin deleted
          /\ timer.owner \in Threads => Running(timer.owner)

(* The receiver does not keep the process alive once its last application  *)
(* thread has left, and the process does not end under one that has not.    *)
LastThreadEndsProcess ==
  /\ exited => Alone
  /\ (/\ \A t \in Threads : pc[t] = "gone"
      /\ \A c \in Callbacks : callback[c].pc = "none"
      /\ receiver.pc \notin {"none", "init"}) => exited
=============================================================================
