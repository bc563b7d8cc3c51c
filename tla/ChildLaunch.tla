---------------------------- MODULE ChildLaunch ----------------------------
(***************************************************************************)
(* fork and posix_spawn from the service preparation to the publication of *)
(* the child: clone_registered_process_owned (its parent side),            *)
(* spawn_with_resources, spawn_resources.rs, spawn_output.rs,              *)
(* fork_policy.rs, child_cleanup.rs, child_startup.rs, startup_stream.rs.  *)
(*                                                                         *)
(* One thread makes the calls 1..MaxCalls.  The number of a call names its *)
(* child, the child's ProcessHandle and the service's preparation token.   *)
(* Requests to the POSIX service form a queue; a request may get lost, and *)
(* the caller may be told of a failure before or after the service acts.   *)
(***************************************************************************)
EXTENDS Integers, Sequences, FiniteSets

CONSTANTS MaxCalls,
          MaxQueue,        \* requests that wait at the service
          TransportEsrch   \* the transport itself may fail with ESRCH

ASSUME CallsAssumption == MaxCalls \in Nat /\ MaxQueue \in Nat

VARIABLES
  n, op, pc,          \* the call, "fork" or "spawn", and the parent's place in it
  token,              \* Preparation::token
  child,              \* Resources::child: none, or whether registration was tried
  cleanup,            \* Cleanup: the stages confirmed
  handle,             \* calls whose ProcessHandle the parent holds
  reply,              \* of the request the parent waits for
  outcome,            \* of every call
  queue, tokens, registered,   \* the service
  process, revision, doomed,   \* the kernel's view of the children
  streams,            \* the startup and the exec-status stream of this call
  unanswered          \* history: preparations whose reply was lost

parent == <<n, op, pc, token, child, cleanup, handle, outcome>>
rpc == <<reply, queue>>
service == <<tokens, registered, unanswered>>
kernel == <<process, revision, doomed>>
vars == <<parent, rpc, service, kernel, streams>>

Calls == 1..MaxCalls

\* A stream: what was written, and which ends are open ("pw" is the parent's
\* writing end, "cr" the child's reading end).
Closed == [data |-> "none", ends |-> {}]
Pair == [data |-> "none", ends |-> {"pr", "pw"}]
Streams == {"startup", "status"}
NoStreams == [s \in Streams |-> Closed]

Init ==
  /\ n = 0 /\ op = "fork" /\ pc = "idle"
  /\ token = FALSE /\ child = "none"
  /\ cleanup = [exit |-> FALSE, reclaimed |-> FALSE]
  /\ handle = {}
  /\ reply = "none" /\ queue = <<>>
  /\ outcome = [c \in Calls |-> "none"]
  /\ tokens = {} /\ registered = {} /\ unanswered = {}
  /\ process = [c \in Calls |-> "none"] /\ revision = [c \in Calls |-> 0] /\ doomed = {}
  /\ streams = NoStreams

-----------------------------------------------------------------------------
(* The POSIX service and the path to it.                                   *)

\* A request goes out; the parent waits at the same place for its reply.
Call(request) ==
  /\ reply = "none" /\ Len(queue) < MaxQueue
  /\ queue' = Append(queue, [op |-> request, call |-> n])
  /\ reply' = "pending"

Awaited == reply = "pending" /\ Len(queue) = 1

Result(request) ==
  CASE request.op = "prepare" -> "ok"
    [] request.op \in {"commit", "cancel"} -> IF request.call \in tokens THEN "ok" ELSE "ESRCH"
    [] request.op = "abort" -> IF request.call \in registered THEN "ok" ELSE "ESRCH"

\* The service takes the oldest request.  Nobody may be left to hear of it.
Serve(answered) ==
  /\ queue # <<>>
  /\ LET request == Head(queue) IN
     /\ tokens' = IF request.op = "prepare" THEN tokens \union {request.call}
                  ELSE IF request.op = "abort" THEN tokens ELSE tokens \ {request.call}
     /\ registered' =
          CASE request.op = "commit" /\ request.call \in tokens -> registered \union {request.call}
            [] request.op = "abort" -> registered \ {request.call}
            [] OTHER -> registered
     /\ reply' = CASE Awaited /\ answered -> Result(request)
                   [] Awaited /\ ~answered -> "fail"
                   [] OTHER -> reply
     /\ unanswered' = IF request.op = "prepare" /\ ~(Awaited /\ answered)
                      THEN unanswered \union {request.call} ELSE unanswered
  /\ queue' = Tail(queue)
  /\ UNCHANGED <<parent, kernel, streams>>

\* The call fails: the request was lost, or is still on its way.
TransportFails ==
  /\ reply = "pending"
  /\ reply' \in {"fail"} \union (IF TransportEsrch THEN {"transportESRCH"} ELSE {})
  /\ queue' \in {queue, SubSeq(queue, 1, Len(queue) - 1)}
  /\ UNCHANGED <<parent, service, kernel, streams>>

Answered == reply \notin {"none", "pending"}

-----------------------------------------------------------------------------
(* The calling thread, up to the child's registration.                     *)

Goto(label) == pc' = label

\* Resources::new, Resources::for_fork: the streams exist before the scope.
begin(operation) ==
  /\ pc = "idle" /\ n < MaxCalls
  /\ n' = n + 1 /\ op' = operation
  /\ streams' = [s \in Streams |-> IF s = "startup" \/ operation = "spawn" THEN Pair ELSE Closed]
  /\ Goto("prepare")
  /\ UNCHANGED <<token, child, cleanup, handle, outcome, rpc, service, kernel>>

prepare_fork ==
  /\ pc = "prepare" /\ Call("prepare")
  /\ UNCHANGED <<parent, service, kernel, streams>>

prepared ==
  /\ pc = "prepare" /\ Answered
  /\ reply' = "none"
  /\ token' = (reply = "ok")
  /\ Goto(IF reply = "ok" THEN "capture" ELSE "drop")
  /\ UNCHANGED <<n, op, child, cleanup, handle, outcome, queue, service, kernel, streams>>

\* Handle capture, image capture and ProcessCreate, with delivery deferred.
\* The child's ends of the streams are copies of the parent's.
Inherited(s) == IF s.ends = {} THEN s ELSE [s EXCEPT !.ends = @ \union {"cr", "cw"}]

create ==
  /\ pc = "capture"
  /\ process' = [process EXCEPT ![n] = "stopped"]
  /\ streams' = [s \in Streams |-> Inherited(streams[s])]
  /\ handle' = handle \union {n}
  /\ child' = "unregistered"
  /\ Goto("created")
  /\ UNCHANGED <<n, op, token, cleanup, outcome, rpc, service, revision, doomed>>

create_fails ==
  /\ pc = "capture"
  /\ Goto("drop")
  /\ UNCHANGED <<n, op, token, child, cleanup, handle, outcome, rpc, service, kernel, streams>>

Cleanup(registration_attempted) == [exit |-> FALSE, reclaimed |-> ~registration_attempted]

\* cleanup_failed_child and then the return of the error.
Fail == Goto("cleanup") /\ cleanup' = Cleanup(child = "registered")

\* ProcessHandleStatus gives the PID, or fails.
status_fails ==
  /\ pc = "created" /\ Fail
  /\ UNCHANGED <<n, op, token, child, handle, outcome, rpc, service, kernel, streams>>

\* Mutant of track_child: the attempt is not recorded before the request.
track_childLate == UNCHANGED child

\* The attempt is recorded before the request goes out.
track_child == child' = "registered"

attempt ==
  /\ pc = "created"
  /\ track_child
  /\ Goto("commit")
  /\ UNCHANGED <<n, op, token, cleanup, handle, outcome, rpc, service, kernel, streams>>

commit_fork ==
  /\ pc = "commit" /\ Call("commit")
  /\ UNCHANGED <<parent, service, kernel, streams>>

\* Mutant of Committed: a lost reply passes for a registration.
CommittedOrLost == reply \in {"ok", "fail"}

Committed == reply = "ok"

committed ==
  /\ pc = "commit" /\ Answered
  /\ reply' = "none"
  /\ IF Committed
     THEN token' = FALSE /\ Goto("resume") /\ UNCHANGED cleanup
     ELSE Fail /\ UNCHANGED token
  /\ UNCHANGED <<n, op, child, handle, outcome, queue, service, kernel, streams>>

\* ProcessHandleResume.  A child that was killed meanwhile cannot resume.
resume ==
  /\ pc = "resume"
  /\ \/ /\ process[n] = "stopped"
        /\ process' = [process EXCEPT ![n] = "startup"]
        /\ Goto("startup") /\ UNCHANGED cleanup
     \/ Fail /\ UNCHANGED process
  /\ UNCHANGED <<n, op, token, child, handle, outcome, rpc, service, revision, doomed, streams>>

-----------------------------------------------------------------------------
(* Waiting for the child's two messages.                                   *)

\* Mutant of close_writer: the parent keeps its own writing end.
close_writerNot(s) == streams' = streams

\* A reader drops its own writing end first: only then does it see the
\* stream end when the child does.
close_writer(s) == streams' = [streams EXCEPT ![s].ends = @ \ {"pw"}]

close_reader(s) == streams' = [streams EXCEPT ![s].ends = @ \ {"pr"}]

Complete(s) == streams[s].data \in {"ok", "error"}
EndOfStream(s) == streams[s].ends \cap {"pw", "cw"} = {}

wait(s, from, to) ==
  /\ pc = from /\ close_writer(s)
  /\ Goto(to)
  /\ UNCHANGED <<n, op, token, child, cleanup, handle, outcome, rpc, service, kernel>>

startup_wait == wait("startup", "startup", "startupRead")

\* child_startup::receive: only the complete packet 0 is readiness.
receive ==
  /\ pc = "startupRead" /\ (Complete("startup") \/ EndOfStream("startup"))
  /\ close_reader("startup")
  /\ IF streams["startup"].data = "ok"
     THEN Goto(IF op = "fork" THEN "finish" ELSE "status") /\ UNCHANGED cleanup
     ELSE Fail
  /\ UNCHANGED <<n, op, token, child, handle, outcome, rpc, service, kernel>>

status_wait == wait("status", "status", "statusRead")

\* exec_status: an empty stream that ended is success, for the moment.
exec_status ==
  /\ pc = "statusRead" /\ (Complete("status") \/ EndOfStream("status"))
  /\ close_reader("status")
  /\ Goto(IF streams["status"].data = "none" THEN "publish" ELSE "drop")
  /\ UNCHANGED <<n, op, token, child, cleanup, handle, outcome, rpc, service, kernel>>

-----------------------------------------------------------------------------
(* Publication, failure and abandonment.                                   *)

\* finish_fork: the handle is discarded and the PID returned in one piece.
finish_fork ==
  /\ pc = "finish"
  /\ handle' = handle \ {n} /\ child' = "none"
  /\ outcome' = [outcome EXCEPT ![n] = "pid"]
  /\ Goto("drop")
  /\ UNCHANGED <<n, op, token, cleanup, rpc, service, kernel, streams>>

\* Only committed image metadata proves that the child's exec succeeded.
Replaced == revision[n] # 0

\* spawn_output::publish; the PID may not reach the caller's memory.
publish ==
  /\ pc = "publish"
  /\ \/ /\ Replaced
        /\ handle' = handle \ {n} /\ child' = "none"
        /\ outcome' = [outcome EXCEPT ![n] = "pid"]
        /\ Goto("drop") /\ UNCHANGED cleanup
     \/ Fail /\ UNCHANGED <<handle, child, outcome>>
  /\ UNCHANGED <<n, op, token, rpc, service, kernel, streams>>

\* A signal handler or a cancel abandons the call where delivery is open.
\* The request in flight stays at the service.
Open == {"created", "commit", "resume", "startup", "startupRead", "finish",
         "status", "statusRead", "publish"}

abandon ==
  /\ pc \in Open
  /\ reply' = "none"
  /\ Goto("drop")
  /\ UNCHANGED <<n, op, token, child, cleanup, handle, outcome, queue, service, kernel, streams>>

\* Resources::drop: the streams first, then the preparation, then the child.
drop ==
  /\ pc = "drop"
  /\ streams' = [s \in Streams |-> [streams[s] EXCEPT !.ends = @ \ {"pr", "pw"}]]
  /\ Goto("cancel")
  /\ UNCHANGED <<n, op, token, child, cleanup, handle, outcome, rpc, service, kernel>>

\* Preparation::drop repeats the cancellation until it is confirmed.
cancel_fork ==
  /\ pc = "cancel" /\ token /\ Call("cancel")
  /\ UNCHANGED <<parent, service, kernel, streams>>

canceled ==
  /\ pc = "cancel" /\ token /\ Answered
  /\ reply' = "none"
  /\ token' = (reply \notin {"ok", "ESRCH"})
  /\ UNCHANGED <<n, op, pc, child, cleanup, handle, outcome, queue, service, kernel, streams>>

dropped ==
  /\ pc = "cancel" /\ ~token
  /\ IF child # "none"
     THEN Fail /\ UNCHANGED outcome
     ELSE /\ Goto("idle") /\ UNCHANGED cleanup
          /\ outcome' = [outcome EXCEPT ![n] = IF @ = "none" THEN "failed" ELSE @]
  /\ UNCHANGED <<n, op, token, child, handle, rpc, service, kernel, streams>>

\* Cleanup::retry, one stage at a time; a stage that fails is tried again.
confirm_exit ==
  /\ pc = "cleanup" /\ ~cleanup.exit
  /\ IF process[n] = "exited"
     THEN cleanup' = [cleanup EXCEPT !.exit = TRUE] /\ UNCHANGED doomed
     ELSE doomed' = doomed \union {n} /\ UNCHANGED cleanup
  /\ UNCHANGED <<n, op, pc, token, child, handle, outcome, rpc, service, process, revision, streams>>

abort_launched_child ==
  /\ pc = "cleanup" /\ cleanup.exit /\ ~cleanup.reclaimed /\ Call("abort")
  /\ UNCHANGED <<parent, service, kernel, streams>>

\* map_posix_client_error makes one ESRCH of the service's and the transport's.
reclaimed ==
  /\ pc = "cleanup" /\ cleanup.exit /\ ~cleanup.reclaimed /\ Answered
  /\ reply' = "none"
  /\ cleanup' = [cleanup EXCEPT !.reclaimed = reply \in {"ok", "ESRCH", "transportESRCH"}]
  /\ UNCHANGED <<n, op, pc, token, child, handle, outcome, queue, service, kernel, streams>>

close ==
  /\ pc = "cleanup" /\ cleanup.exit /\ cleanup.reclaimed
  /\ handle' = handle \ {n}
  /\ child' = "none"
  /\ Goto("drop")
  /\ UNCHANGED <<n, op, token, cleanup, outcome, rpc, service, kernel, streams>>

-----------------------------------------------------------------------------
(* The child.                                                              *)

Alive(c) == process[c] \notin {"none", "exited"}

ChildEnds(c, ss) ==
  IF c = n THEN [s \in Streams |-> [ss[s] EXCEPT !.ends = @ \ {"cr", "cw"}]] ELSE ss

Becomes(c, state) == process' = [process EXCEPT ![c] = state]

\* The child dies: of a signal, of exit, or terminated by the cleanup.
die(c) ==
  /\ Alive(c)
  /\ Becomes(c, "exited")
  /\ streams' = ChildEnds(c, streams)
  /\ UNCHANGED <<parent, rpc, service, revision, doomed>>

\* CloneStartup::send, child_startup::send and report_spawn_error: a packet
\* of four bytes, which a death may cut short.  A child nobody listens to
\* gives up.
send(c, s, from, data, to) ==
  LET heard == "pr" \in streams[s].ends IN
  /\ c = n /\ process[c] = from
  /\ \/ heard /\ streams' = [streams EXCEPT ![s].data = "part"] /\ UNCHANGED process
     \/ /\ streams' = [streams EXCEPT ![s].ends = @ \ {"cr", "cw"},
                                      ![s].data = IF heard THEN data ELSE @]
        /\ Becomes(c, IF heard THEN to ELSE "failing")
  /\ UNCHANGED <<parent, rpc, service, revision, doomed>>

\* The copied runtime is rebuilt: ready, or an error and exit.
ready(c) == send(c, "startup", "startup", "ok", IF op = "fork" THEN "running" ELSE "setup")
fail(c) == send(c, "startup", "startup", "error", "failing")

\* Attributes, file actions, exec: an error is reported, success closes the
\* stream with the old image.
report_spawn_error(c) == send(c, "status", "setup", "error", "failing")

exec(c) ==
  /\ c = n /\ process[c] = "setup"
  /\ Becomes(c, "running")
  /\ revision' = [revision EXCEPT ![c] = 1]
  /\ streams' = ChildEnds(c, streams)
  /\ UNCHANGED <<parent, rpc, service, doomed>>

-----------------------------------------------------------------------------
Parent ==
  \/ prepare_fork \/ prepared \/ create \/ create_fails \/ status_fails \/ attempt
  \/ commit_fork \/ committed \/ resume \/ startup_wait \/ receive \/ status_wait \/ exec_status
  \/ finish_fork \/ publish \/ drop \/ cancel_fork \/ canceled \/ dropped
  \/ confirm_exit \/ abort_launched_child \/ reclaimed \/ close

Child(c) == ready(c) \/ fail(c) \/ report_spawn_error(c) \/ exec(c)

Next ==
  \/ \E operation \in {"fork", "spawn"} : begin(operation)
  \/ Parent
  \/ abandon
  \/ \E answered \in BOOLEAN : Serve(answered)
  \/ TransportFails
  \/ \E c \in Calls : Child(c) \/ die(c)

Spec == Init /\ [][Next]_vars

\* A request or its reply is lost.
Lossy == TransportFails \/ (Awaited /\ Serve(FALSE))

\* The calling thread runs; the service takes every request and the transport
\* does not fail forever; a child in startup or setup runs, and a child that
\* was terminated or is exiting dies.
Fairness ==
  /\ WF_vars(Parent)
  /\ WF_vars(\E answered \in BOOLEAN : Serve(answered))
  /\ <>[][~Lossy]_vars
  /\ \A c \in Calls : /\ WF_vars(Child(c))
                      /\ WF_vars((c \in doomed \/ process[c] = "failing") /\ die(c))

FairSpec == Spec /\ Fairness

TypeOK ==
  /\ n \in 0..MaxCalls /\ op \in {"fork", "spawn"}
  /\ pc \in Open \union {"idle", "prepare", "capture", "drop", "cancel", "cleanup"}
  /\ token \in BOOLEAN /\ child \in {"none", "unregistered", "registered"}
  /\ cleanup \in [exit : BOOLEAN, reclaimed : BOOLEAN]
  /\ handle \subseteq Calls /\ doomed \subseteq Calls
  /\ reply \in {"none", "pending", "ok", "ESRCH", "fail", "transportESRCH"}
  /\ queue \in Seq([op : {"prepare", "commit", "cancel", "abort"}, call : Calls])
  /\ outcome \in [Calls -> {"none", "pid", "failed"}]
  /\ tokens \subseteq Calls /\ registered \subseteq Calls /\ unanswered \subseteq Calls
  /\ process \in [Calls -> {"none", "stopped", "startup", "setup", "running", "failing", "exited"}]
  /\ revision \in [Calls -> 0..1]
  /\ streams \in [Streams -> [data : {"none", "part", "ok", "error"},
                               ends : SUBSET {"pr", "pw", "cr", "cw"}]]

\* What the parent still holds of the call that is over.
NothingHeld(c) ==
  /\ c \notin handle
  /\ c \in tokens => c \in unanswered
  /\ \A s \in Streams : c = n => streams[s].ends = {}

\* A fork or posix_spawn that failed or was abandoned, wherever it stopped and
\* whatever the service did with requests whose reply was lost, leaves no live
\* child, no registration (and no request that could still make one), no
\* ProcessHandle, no stream and no preparation (cleanup_failed_child, the
\* drops of Resources, CloneStartup and Preparation).
FailureLeavesNothing ==
  \A c \in Calls : outcome[c] = "failed" /\ (c = n => pc = "idle") =>
    /\ NothingHeld(c)
    /\ ~Alive(c)
    /\ c \notin registered
    /\ \A i \in DOMAIN queue : queue[i] = [op |-> "commit", call |-> c] => c \notin tokens

\* A child runs only once the service has installed its POSIX state, although
\* the commit's reply may be lost (the creator keeps it stopped until then).
RunsRegistered ==
  \A c \in Calls : process[c] \in {"startup", "setup", "running"} => c \in registered

\* A PID is returned only for a registered child that nobody terminated and
\* that got as far as promised: a forked child has reported a complete
\* startup, a spawned one runs its new image, not the copied one.  Nothing
\* else of the call is left.
PidIsAChild ==
  \A c \in Calls : outcome[c] = "pid" /\ (c = n => pc = "idle") =>
    /\ NothingHeld(c)
    /\ c \in registered /\ c \notin doomed
    /\ process[c] \in {"running", "exited"}
    /\ c = n /\ op = "spawn" => revision[c] = 1

\* What fork and posix_spawn report is true: a failure left nothing, a PID is a
\* child as promised.
OutcomeIsTrue == FailureLeavesNothing /\ PidIsAChild

\* Every call returns: a child that dies without a word ends the wait for it,
\* and lost replies only delay the cleanup.
CallEnds == pc # "idle" ~> pc = "idle"
=============================================================================
