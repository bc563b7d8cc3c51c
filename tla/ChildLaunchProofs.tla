------------------------- MODULE ChildLaunchProofs -------------------------
(***************************************************************************)
(* A child runs only while the service has its registration, and what fork *)
(* and posix_spawn report is true, for every number of calls and every     *)
(* length of the service's queue.                                          *)
(***************************************************************************)
EXTENDS ChildLaunch, TLAPS

Request == [op : {"prepare", "commit", "cancel", "abort"}, call : Calls]

\* The request the parent sends at each place where it calls the service.
Asks == [prepare |-> "prepare", commit |-> "commit", cancel |-> "cancel", cleanup |-> "abort"]

\* The parent waits for a reply only where it asked for something it still
\* needs, and the request it waits for is the youngest one in the queue.
Needs ==
  /\ pc \in DOMAIN Asks
  /\ pc = "cancel" => token
  /\ pc = "cleanup" => cleanup.exit /\ ~cleanup.reclaimed

WaitsForLast ==
  /\ reply # "none" => Needs
  /\ reply = "pending" => /\ queue # <<>>
                          /\ queue[Len(queue)] = [op |-> Asks[pc], call |-> n]

\* Calls are numbered, and children come with their call.
Numbered ==
  /\ pc # "idle" => n \in Calls
  /\ \A c \in Calls : c > n => process[c] = "none"
  /\ pc \in {"prepare", "capture"} => process[n] = "none"

\* The service is asked to abort a child only once its exit is confirmed.
AbortsTheDead ==
  /\ \A i \in DOMAIN queue : queue[i].op = "abort" => process[queue[i].call] = "exited"
  /\ pc = "cleanup" /\ cleanup.exit => process[n] = "exited"

\* A commit that succeeded registered the child; only its death undoes that.
Registers ==
  pc = "resume" \/ (pc = "commit" /\ reply = "ok") => n \in registered \/ process[n] = "exited"

IInv == TypeOK /\ WaitsForLast /\ Numbered /\ AbortsTheDead /\ Registers /\ RunsRegistered

USE DEF Calls

-----------------------------------------------------------------------------
LEMMA InitIInv == Init => IInv
<1> SUFFICES ASSUME Init PROVE IInv
  BY Zenon
<1>1. n \in 0..MaxCalls /\ queue \in Seq(Request)
  BY CallsAssumption DEF Init
<1>2. /\ outcome \in [Calls -> {"none", "pid", "failed"}]
      /\ process \in [Calls -> {"none", "stopped", "startup", "setup", "running", "failing", "exited"}]
      /\ revision \in [Calls -> 0..1]
      /\ streams \in [Streams -> [data : {"none", "part", "ok", "error"},
                                  ends : SUBSET {"pr", "pw", "cr", "cw"}]]
  BY DEF Init, NoStreams, Closed
<1>3. TypeOK
  BY <1>1, <1>2, Zenon DEF Init, TypeOK, Request
<1>4. QED
  BY <1>3 DEF Init, IInv, WaitsForLast, Numbered, AbortsTheDead, Registers, RunsRegistered

\* A sequence without its last element, as TransportFails leaves the queue.
LEMMA WithoutLast ==
  ASSUME NEW R, NEW q \in Seq(R), NEW m \in Nat, m < Len(q)
  PROVE  /\ SubSeq(q, 1, m) \in Seq(R)
         /\ Len(SubSeq(q, 1, m)) = m
         /\ \A i \in 1..m : SubSeq(q, 1, m)[i] = q[i]
  OBVIOUS

\* The service's queue after each of the two ways it can shrink.
LEMMA QueueSteps ==
  ASSUME TypeOK
  PROVE /\ \A i \in DOMAIN queue : queue[i].call \in Calls
        /\ queue # <<>> => /\ Head(queue) \in Request
                           /\ Head(queue) = queue[1]
                           /\ Tail(queue) \in Seq(Request)
                           /\ Len(queue) \in Nat \ {0}
                           /\ Len(Tail(queue)) = Len(queue) - 1
                           /\ \A i \in 1..(Len(queue) - 1) : Tail(queue)[i] = queue[i + 1]
                           /\ SubSeq(queue, 1, Len(queue) - 1) \in Seq(Request)
                           /\ Len(SubSeq(queue, 1, Len(queue) - 1)) = Len(queue) - 1
                           /\ \A i \in 1..(Len(queue) - 1) :
                                SubSeq(queue, 1, Len(queue) - 1)[i] = queue[i]
<1>1. queue \in Seq(Request)
  BY Zenon DEF TypeOK, Request
<1>2. \A i \in DOMAIN queue : queue[i].call \in Calls
  <2>1. \A i \in DOMAIN queue : queue[i] \in Request
    BY <1>1
  <2>2. QED
    BY <2>1, Zenon DEF Request
<1>3. ASSUME queue # <<>>
      PROVE  /\ Head(queue) \in Request
             /\ Head(queue) = queue[1]
             /\ Tail(queue) \in Seq(Request)
             /\ Len(queue) \in Nat \ {0}
             /\ Len(Tail(queue)) = Len(queue) - 1
             /\ \A i \in 1..(Len(queue) - 1) : Tail(queue)[i] = queue[i + 1]
  BY <1>1, <1>3
<1>4. ASSUME queue # <<>>
      PROVE  /\ SubSeq(queue, 1, Len(queue) - 1) \in Seq(Request)
             /\ Len(SubSeq(queue, 1, Len(queue) - 1)) = Len(queue) - 1
             /\ \A i \in 1..(Len(queue) - 1) : SubSeq(queue, 1, Len(queue) - 1)[i] = queue[i]
  <2>1. Len(queue) - 1 \in Nat /\ Len(queue) - 1 < Len(queue)
    BY <1>1, <1>3, <1>4
  <2>2. QED
    BY <1>1, <2>1, WithoutLast, Zenon
<1>5. QED
  BY <1>2, <1>3, <1>4, Zenon

-----------------------------------------------------------------------------
\* A request that goes out is the youngest; an abort is about a dead child.
LEMMA CallStep ==
  ASSUME IInv, NEW q \in {"prepare", "commit", "cancel", "abort"},
         Call(q), Needs, Asks[pc] = q,
         q = "abort" => process[n] = "exited",
         UNCHANGED <<parent, service, kernel, streams>>
  PROVE  IInv'
<1>1. n \in Calls /\ TypeOK
  BY Zenon DEF IInv, Numbered, Needs, Asks
<1>2. /\ queue' \in Seq(Request) /\ Len(queue') = Len(queue) + 1
      /\ queue'[Len(queue')] = [op |-> q, call |-> n]
      /\ \A i \in DOMAIN queue' : \/ i \in DOMAIN queue /\ queue'[i] = queue[i]
                                  \/ queue'[i] = [op |-> q, call |-> n]
  <2>1. queue \in Seq(Request) /\ [op |-> q, call |-> n] \in Request
    BY <1>1, Zenon DEF TypeOK, Request
  <2>2. QED
    BY <2>1 DEF Call
<1>3. TypeOK'
  BY <1>1, <1>2 DEF TypeOK, Call, Request, parent, service, kernel
<1>4. WaitsForLast'
  BY <1>2 DEF WaitsForLast, Needs, Call, parent
<1>5. Numbered' /\ Registers' /\ RunsRegistered'
  BY Zenon DEF IInv, Numbered, Registers, RunsRegistered, Call, parent, service, kernel
<1>6. AbortsTheDead'
  BY <1>2 DEF IInv, AbortsTheDead, parent, kernel
<1>7. QED
  BY <1>3, <1>4, <1>5, <1>6, Zenon DEF IInv

\* The service acts on its oldest request.
LEMMA ServeStep ==
  ASSUME IInv, NEW answered \in BOOLEAN, Serve(answered)
  PROVE  IInv'
<1> DEFINE r == Head(queue)
<1>1. TypeOK /\ queue # <<>> /\ queue' = Tail(queue) /\ UNCHANGED <<parent, kernel, streams>>
  BY Zenon DEF IInv, Serve
<1>2. /\ r \in Request /\ r = queue[1]
      /\ Len(queue) \in Nat \ {0}
      /\ queue' \in Seq(Request) /\ Len(queue') = Len(queue) - 1
      /\ \A i \in 1..(Len(queue) - 1) : queue'[i] = queue[i + 1]
  BY <1>1, QueueSteps, Zenon
<1>3. Result(r) \in {"ok", "ESRCH"}
  BY <1>2, Zenon DEF Result, Request
<1>4. /\ registered' \subseteq Calls
      /\ \A c \in registered : c \notin registered' => r.op = "abort" /\ r.call = c
      /\ r.op = "commit" /\ Result(r) = "ok" => r.call \in registered'
  BY <1>1, <1>2, Zenon DEF Serve, TypeOK, Request, Result
<1>5. /\ tokens' \subseteq Calls /\ unanswered' \subseteq Calls
  BY <1>1, <1>2, Zenon DEF Serve, TypeOK, Request
<1>6. reply' = reply \/ (Awaited /\ reply' = "fail") \/ (Awaited /\ reply' = Result(r))
  BY Zenon DEF Serve
<1>7. TypeOK'
  BY <1>1, <1>2, <1>3, <1>4, <1>5, <1>6 DEF TypeOK, Request, parent, kernel
<1>8. r.op = "abort" => process[r.call] = "exited"
  BY <1>1, <1>2 DEF IInv, AbortsTheDead, TypeOK
<1>9. AbortsTheDead'
  <2>1. \A i \in DOMAIN queue' : i + 1 \in DOMAIN queue /\ queue'[i] = queue[i + 1]
    BY <1>1, <1>2 DEF TypeOK
  <2>2. QED
    BY <1>1, <2>1, Zenon DEF IInv, AbortsTheDead, parent, kernel
<1>10. RunsRegistered'
  BY <1>1, <1>4, <1>8, Zenon DEF IInv, RunsRegistered, kernel
<1>11. Awaited => r = [op |-> Asks[pc], call |-> n]
  BY <1>1, <1>2, Zenon DEF Awaited, IInv, WaitsForLast
<1>12. WaitsForLast'
  <2>1. reply' = "pending" => reply = "pending" /\ ~Awaited
    <3>1. CASE Awaited
      BY <3>1, <1>3, Zenon DEF Serve
    <3>2. CASE ~Awaited
      BY <3>2, Zenon DEF Serve
    <3>3. QED
      BY <3>1, <3>2, Zenon
  <2>2. reply' = "pending" => Len(queue) > 1
    BY <2>1, <1>2 DEF Awaited
  <2>3. reply' = "pending" => queue' # <<>> /\ queue'[Len(queue')] = queue[Len(queue)]
    BY <2>2, <1>2
  <2>4. reply' # "none" => reply # "none"
    BY <1>6, Zenon DEF Awaited
  <2>5. QED
    BY <1>1, <2>1, <2>3, <2>4, Zenon DEF IInv, WaitsForLast, Needs, parent
<1>13. Numbered'
  BY <1>1, Zenon DEF IInv, Numbered, parent, kernel
<1>14. Registers'
  <2>1. ASSUME pc = "commit", reply' = "ok", reply # "ok" PROVE n \in registered'
    <3>1. Awaited /\ Result(r) = "ok"
      BY <1>6, <2>1, Zenon
    <3>2. r.op = "commit" /\ r.call = n
      BY <1>11, <2>1, <3>1 DEF Asks
    <3>3. QED
      BY <1>4, <3>1, <3>2, Zenon
  <2>2. ASSUME n \in Calls, n \in registered PROVE n \in registered' \/ process[n] = "exited"
    BY <1>4, <1>8, <2>2, Zenon
  <2>3. pc \in {"commit", "resume"} => n \in Calls
    BY Zenon DEF IInv, Numbered
  <2>4. QED
    BY <1>1, <2>1, <2>2, <2>3, Zenon DEF IInv, Registers, parent, kernel
<1>15. QED
  BY <1>7, <1>9, <1>10, <1>12, <1>13, <1>14, Zenon DEF IInv

\* A request is lost, or its caller stops waiting for it.
LEMMA LossStep ==
  ASSUME IInv, TransportFails
  PROVE  IInv'
<1>1. TypeOK /\ queue # <<>> /\ UNCHANGED <<parent, service, kernel, streams>>
  BY Zenon DEF IInv, WaitsForLast, TransportFails
<1>2. queue' \in Seq(Request) /\ \A i \in DOMAIN queue' : i \in DOMAIN queue /\ queue'[i] = queue[i]
  <2>1. queue \in Seq(Request)
    BY <1>1, Zenon DEF TypeOK, Request
  <2>2. CASE queue' = queue
    BY <2>1, <2>2, Zenon
  <2>3. CASE queue' = SubSeq(queue, 1, Len(queue) - 1)
    BY <1>1, <2>1, <2>3, QueueSteps
  <2>4. QED
    BY <2>2, <2>3, Zenon DEF TransportFails
<1>3. reply' \in {"fail", "transportESRCH"} /\ reply = "pending"
  BY Zenon DEF TransportFails
<1>4. TypeOK'
  BY <1>1, <1>2, <1>3 DEF TypeOK, Request, parent, service, kernel
<1>5. WaitsForLast' /\ Numbered' /\ Registers' /\ RunsRegistered'
  BY <1>1, <1>3, Zenon DEF IInv, WaitsForLast, Needs, Numbered, Registers, RunsRegistered, parent, service, kernel
<1>6. AbortsTheDead'
  BY <1>1, <1>2 DEF IInv, AbortsTheDead, parent, kernel
<1>7. QED
  BY <1>4, <1>5, <1>6, Zenon DEF IInv

-----------------------------------------------------------------------------
\* A step of the parent that leaves the service and the children alone, ends
\* its wait for a reply or has none, and does not go where a call goes out.
LEMMA QuietStep ==
  ASSUME IInv, TypeOK',
         UNCHANGED <<n, queue, service, process>>,
         reply' = "none",
         pc' \notin {"prepare", "capture"},
         pc' # "idle" => n \in Calls,
         pc' = "cleanup" /\ cleanup'.exit => process[n] = "exited",
         pc' = "resume" => pc = "commit" /\ reply = "ok"
  PROVE  IInv'
<1>1. WaitsForLast'
  BY Zenon DEF WaitsForLast
<1>2. Numbered' /\ RunsRegistered'
  BY Zenon DEF IInv, Numbered, RunsRegistered, service
<1>3. AbortsTheDead'
  BY Zenon DEF IInv, AbortsTheDead
<1>4. Registers'
  BY Zenon DEF IInv, Registers, service
<1>5. QED
  BY <1>1, <1>2, <1>3, <1>4, Zenon DEF IInv

\* A step of a child that is running only if it was before, or dies.
LEMMA ChildStep ==
  ASSUME IInv, TypeOK', NEW c \in Calls,
         UNCHANGED <<parent, rpc, service>>,
         process[c] \notin {"none", "exited"},
         \/ process' = process
         \/ \E p \in {"exited", "failing"} : process' = [process EXCEPT ![c] = p]
         \/ /\ process[c] \in {"startup", "setup"}
            /\ \E p \in {"setup", "running"} : process' = [process EXCEPT ![c] = p]
  PROVE  IInv'
<1>1. process \in [Calls -> {"none", "stopped", "startup", "setup", "running", "failing", "exited"}]
      /\ n \in 0..MaxCalls
  BY Zenon DEF IInv, TypeOK
<1>2. \A d \in Calls : /\ process[d] \in {"none", "exited"} => process'[d] = process[d]
                       /\ process'[d] \in {"startup", "setup", "running"} =>
                            process[d] \in {"startup", "setup", "running"}
  BY <1>1, Zenon
<1>3. WaitsForLast'
  BY Zenon DEF IInv, WaitsForLast, Needs, parent, rpc
<1>4. Numbered'
  BY <1>1, <1>2, Zenon DEF IInv, Numbered, parent
<1>5. AbortsTheDead'
  <2>1. \A i \in DOMAIN queue : queue[i].call \in Calls
    BY QueueSteps, Zenon DEF IInv
  <2>2. pc = "cleanup" => n \in Calls
    BY Zenon DEF IInv, Numbered
  <2>3. QED
    BY <1>2, <2>1, <2>2 DEF IInv, AbortsTheDead, parent, rpc
<1>6. Registers'
  <2>1. pc \in {"resume", "commit"} => n \in Calls
    BY Zenon DEF IInv, Numbered
  <2>2. QED
    BY <1>2, <2>1, Zenon DEF IInv, Registers, parent, rpc, service
<1>7. RunsRegistered'
  BY <1>2, Zenon DEF IInv, RunsRegistered, service
<1>8. QED
  BY <1>3, <1>4, <1>5, <1>6, <1>7, Zenon DEF IInv

-----------------------------------------------------------------------------
Stream == [data : {"none", "part", "ok", "error"}, ends : SUBSET {"pr", "pw", "cr", "cw"}]

\* Closing ends of a stream, or writing to it, leaves streams.
LEMMA StreamTypes ==
  ASSUME TypeOK
  PROVE  /\ \A s \in Streams, e \in SUBSET {"pr", "pw", "cr", "cw"} :
              [streams EXCEPT ![s].ends = @ \ e] \in [Streams -> Stream]
         /\ \A e \in SUBSET {"pr", "pw", "cr", "cw"} :
              [s \in Streams |-> [streams[s] EXCEPT !.ends = @ \ e]] \in [Streams -> Stream]
         /\ \A s \in Streams : Inherited(streams[s]) \in Stream
         /\ \A s \in Streams, d \in {"none", "part", "ok", "error"} :
              /\ [streams EXCEPT ![s].data = d] \in [Streams -> Stream]
              /\ [streams EXCEPT ![s].ends = @ \ {"cr", "cw"},
                                 ![s].data = IF "pr" \in streams[s].ends THEN d ELSE @]
                   \in [Streams -> Stream]
         /\ \A c \in Calls : ChildEnds(c, streams) \in [Streams -> Stream]
<1>1. streams \in [Streams -> Stream] /\ \A s \in Streams : streams[s] \in Stream
  BY Zenon DEF TypeOK, Stream
<1>2. ASSUME NEW t \in Stream, NEW e \in SUBSET {"pr", "pw", "cr", "cw"},
             NEW d \in {"none", "part", "ok", "error"}
      PROVE  /\ [t EXCEPT !.ends = @ \ e] \in Stream
             /\ [t EXCEPT !.ends = @ \union e] \in Stream
             /\ [t EXCEPT !.data = d] \in Stream
             /\ t.data \in {"none", "part", "ok", "error"}
             /\ [t EXCEPT !.ends = @ \ {"cr", "cw"}] \in Stream
  BY Zenon DEF Stream
<1>3. ASSUME NEW s \in Streams, NEW t \in Stream
      PROVE  [streams EXCEPT ![s] = t] \in [Streams -> Stream]
  BY <1>1, Zenon
<1>4. ASSUME NEW s \in Streams, NEW d \in {"none", "part", "ok", "error"}
      PROVE  [streams EXCEPT ![s].ends = @ \ {"cr", "cw"},
                             ![s].data = IF "pr" \in streams[s].ends THEN d ELSE @]
               \in [Streams -> Stream]
  <2> DEFINE u == [streams[s] EXCEPT !.ends = @ \ {"cr", "cw"},
                                     !.data = IF "pr" \in streams[s].ends THEN d ELSE @]
  <2>1. u \in Stream
    BY <1>1, Zenon DEF Stream
  <2>2. [streams EXCEPT ![s].ends = @ \ {"cr", "cw"},
                        ![s].data = IF "pr" \in streams[s].ends THEN d ELSE @]
          = [streams EXCEPT ![s] = u]
    BY <1>1, Zenon
  <2>3. QED
    BY <1>3, <2>1, <2>2, Zenon
<1>5. \A c \in Calls : ChildEnds(c, streams) \in [Streams -> Stream]
  BY <1>1, <1>2, Zenon DEF ChildEnds
<1>6. QED
  BY <1>1, <1>2, <1>3, <1>4, <1>5, Zenon DEF Inherited

\* The stages of the cleanup are confirmed one by one.
LEMMA CleanupTypes ==
  ASSUME TypeOK
  PROVE  /\ [cleanup EXCEPT !.exit = TRUE] \in [exit : BOOLEAN, reclaimed : BOOLEAN]
         /\ \A b \in BOOLEAN :
              /\ [cleanup EXCEPT !.reclaimed = b] \in [exit : BOOLEAN, reclaimed : BOOLEAN]
              /\ [cleanup EXCEPT !.reclaimed = b].exit = cleanup.exit
         /\ Cleanup(child = "registered") \in [exit : BOOLEAN, reclaimed : BOOLEAN]
         /\ ~Cleanup(child = "registered").exit
BY Zenon DEF TypeOK, Cleanup

LEMMA StepIInv == IInv /\ [Next]_vars => IInv'
<1> SUFFICES ASSUME IInv, [Next]_vars PROVE IInv'
  BY Zenon
<1> USE DEF parent, rpc, service, kernel, Goto, Fail
<1>1. /\ TypeOK
      /\ pc # "idle" => n \in Calls
      /\ reply # "none" => Needs
      /\ Cleanup(child = "registered") \in [exit : BOOLEAN, reclaimed : BOOLEAN]
      /\ ~Cleanup(child = "registered").exit
  BY CleanupTypes, Zenon DEF IInv, Numbered, WaitsForLast
<1>2. CASE prepare_fork
  BY <1>2, CallStep, Zenon DEF prepare_fork, Needs, Asks
<1>3. CASE commit_fork
  BY <1>3, CallStep, Zenon DEF commit_fork, Needs, Asks
<1>4. CASE cancel_fork
  BY <1>4, CallStep, Zenon DEF cancel_fork, Needs, Asks
<1>5. CASE abort_launched_child
  <2>1. process[n] = "exited"
    BY <1>5, Zenon DEF abort_launched_child, IInv, AbortsTheDead
  <2>2. QED
    BY <1>5, <2>1, CallStep, Zenon DEF abort_launched_child, Needs, Asks
<1>6. ASSUME NEW answered \in BOOLEAN, Serve(answered) PROVE IInv'
  BY <1>6, ServeStep, Zenon
<1>7. CASE TransportFails
  BY <1>7, LossStep, Zenon
<1>8. CASE create_fails
  <2>1. TypeOK'
    BY <1>1, <1>8 DEF TypeOK, create_fails, Open
  <2>2. QED
    BY <1>1, <1>8, <2>1, QuietStep, Zenon DEF create_fails, Needs, Asks, Open, TypeOK
<1>9. CASE status_fails
  <2>1. TypeOK'
    BY <1>1, <1>9, Zenon DEF TypeOK, status_fails, Open
  <2>2. QED
    BY <1>1, <1>9, <2>1, QuietStep, Zenon DEF status_fails, Needs, Asks, Open, TypeOK
<1>10. CASE attempt
  <2>1. TypeOK'
    BY <1>1, <1>10, Zenon DEF TypeOK, attempt, track_child, Open
  <2>2. QED
    BY <1>1, <1>10, <2>1, QuietStep, Zenon DEF attempt, track_child, Needs, Asks, Open, TypeOK
<1>11. CASE committed
  <2>1. TypeOK'
    BY <1>1, <1>11, Zenon DEF TypeOK, committed, Committed, Answered, Open
  <2>2. QED
    BY <1>1, <1>11, <2>1, QuietStep, Zenon DEF committed, Committed, Answered, Needs, Asks, Open, TypeOK
<1>12. CASE startup_wait
  <2>1. streams' \in [Streams -> Stream]
    BY <1>12, StreamTypes, <1>1, Zenon DEF startup_wait, wait, close_writer, Streams
  <2>2. TypeOK'
    BY <1>1, <1>12, <2>1 DEF TypeOK, startup_wait, wait, close_writer, Stream, Open
  <2>3. QED
    BY <1>1, <1>12, <2>2, QuietStep, Zenon DEF startup_wait, wait, close_writer, Needs, Asks, Open, TypeOK
<1>13. CASE receive
  <2>1. streams' \in [Streams -> Stream]
    BY <1>13, StreamTypes, <1>1, Zenon DEF receive, close_reader, Streams
  <2>2. TypeOK'
    BY <1>1, <1>13, <2>1 DEF TypeOK, receive, close_reader, Stream, Open
  <2>3. QED
    BY <1>1, <1>13, <2>2, QuietStep, Zenon DEF receive, close_reader, Needs, Asks, Open, TypeOK
<1>14. CASE status_wait
  <2>1. streams' \in [Streams -> Stream]
    BY <1>14, StreamTypes, <1>1, Zenon DEF status_wait, wait, close_writer, Streams
  <2>2. TypeOK'
    BY <1>1, <1>14, <2>1 DEF TypeOK, status_wait, wait, close_writer, Stream, Open
  <2>3. QED
    BY <1>1, <1>14, <2>2, QuietStep, Zenon DEF status_wait, wait, close_writer, Needs, Asks, Open, TypeOK
<1>15. CASE exec_status
  <2>1. streams' \in [Streams -> Stream]
    BY <1>15, StreamTypes, <1>1, Zenon DEF exec_status, close_reader, Streams
  <2>2. TypeOK'
    BY <1>1, <1>15, <2>1 DEF TypeOK, exec_status, close_reader, Stream, Open
  <2>3. QED
    BY <1>1, <1>15, <2>2, QuietStep, Zenon DEF exec_status, close_reader, Needs, Asks, Open, TypeOK
<1>16. CASE finish_fork
  <2>1. TypeOK'
    BY <1>1, <1>16, Zenon DEF TypeOK, finish_fork, Open
  <2>2. QED
    BY <1>1, <1>16, <2>1, QuietStep, Zenon DEF finish_fork, Needs, Asks, Open, TypeOK
<1>17. CASE publish
  <2>1. TypeOK'
    BY <1>1, <1>17, Zenon DEF TypeOK, publish, Open
  <2>2. QED
    BY <1>1, <1>17, <2>1, QuietStep, Zenon DEF publish, Needs, Asks, Open, TypeOK
<1>18. CASE abandon
  <2>1. TypeOK'
    BY <1>1, <1>18, Zenon DEF TypeOK, abandon, Open
  <2>2. QED
    BY <1>1, <1>18, <2>1, QuietStep, Zenon DEF abandon, Needs, Asks, Open, TypeOK
<1>19. CASE drop
  <2>1. streams' \in [Streams -> Stream]
    BY <1>19, StreamTypes, <1>1, Zenon DEF drop, Streams
  <2>2. TypeOK'
    BY <1>1, <1>19, <2>1 DEF TypeOK, drop, Stream, Open
  <2>3. QED
    BY <1>1, <1>19, <2>2, QuietStep, Zenon DEF drop, Needs, Asks, Open, TypeOK
<1>20. CASE canceled
  <2>1. TypeOK'
    BY <1>1, <1>20, Zenon DEF TypeOK, canceled, Answered, Open
  <2>2. QED
    BY <1>1, <1>20, <2>1, QuietStep, Zenon DEF canceled, Answered, Needs, Asks, Open, TypeOK
<1>21. CASE dropped
  <2>1. TypeOK'
    BY <1>1, <1>21 DEF TypeOK, dropped, Open
  <2>2. QED
    BY <1>1, <1>21, <2>1, QuietStep, Zenon DEF dropped, Needs, Asks, Open, TypeOK
<1>22. CASE confirm_exit
  <2>1. cleanup' \in [exit : BOOLEAN, reclaimed : BOOLEAN]
    BY <1>1, <1>22, CleanupTypes, Zenon DEF confirm_exit, TypeOK
  <2>2. cleanup'.exit => process[n] = "exited"
    BY <1>22, Zenon DEF confirm_exit
  <2>3. TypeOK'
    BY <1>1, <1>22, <2>1 DEF TypeOK, confirm_exit, Open
  <2>4. QED
    BY <1>1, <1>22, <2>2, <2>3, QuietStep, Zenon DEF confirm_exit, Needs, Asks
<1>23. CASE reclaimed
  <2>1. /\ cleanup' \in [exit : BOOLEAN, reclaimed : BOOLEAN]
        /\ cleanup'.exit = cleanup.exit
    <3> DEFINE b == reply \in {"ok", "ESRCH", "transportESRCH"}
    <3>1. b \in BOOLEAN /\ cleanup' = [cleanup EXCEPT !.reclaimed = b]
      BY <1>23 DEF reclaimed
    <3> HIDE DEF b
    <3>2. QED
      BY <1>1, <3>1, CleanupTypes, Zenon
  <2>2. cleanup'.exit => process[n] = "exited"
    BY <1>23, <2>1, Zenon DEF reclaimed, IInv, AbortsTheDead
  <2>3. TypeOK'
    BY <1>1, <1>23, <2>1, Zenon DEF TypeOK, reclaimed, Answered, Open
  <2>4. QED
    BY <1>1, <1>23, <2>2, <2>3, QuietStep, Zenon DEF reclaimed, Answered, Needs, Asks
<1>24. CASE close
  <2>1. TypeOK'
    BY <1>1, <1>24, Zenon DEF TypeOK, close, Open
  <2>2. QED
    BY <1>1, <1>24, <2>1, QuietStep, Zenon DEF close, Needs, Asks, Open, TypeOK
<1>25. ASSUME NEW operation \in {"fork", "spawn"}, begin(operation) PROVE IInv'
  <2>1. streams' \in [Streams -> Stream]
    BY <1>25, Zenon DEF begin, Pair, Closed, Stream
  <2>2. TypeOK'
    BY <1>1, <1>25, <2>1, CallsAssumption DEF TypeOK, begin, Stream, Open
  <2>3. reply = "none"
    BY <1>1, <1>25, Zenon DEF begin, Needs, Asks
  <2>4. n' \in Calls /\ n' > n
    BY <1>1, <1>25, CallsAssumption DEF begin, TypeOK
  <2>5. WaitsForLast' /\ Registers' /\ RunsRegistered'
    BY <1>25, <2>3, Zenon DEF begin, IInv, WaitsForLast, Registers, RunsRegistered
  <2>6. Numbered'
    BY <1>25, <1>1, <2>4 DEF begin, IInv, Numbered, TypeOK
  <2>7. AbortsTheDead'
    BY <1>25, Zenon DEF begin, IInv, AbortsTheDead
  <2>8. QED
    BY <2>2, <2>5, <2>6, <2>7, Zenon DEF IInv
<1>26. CASE prepared
  <2>1. TypeOK'
    BY <1>1, <1>26, Zenon DEF TypeOK, prepared, Open
  <2>2. WaitsForLast' /\ Registers' /\ RunsRegistered'
    BY <1>26, Zenon DEF prepared, IInv, WaitsForLast, Registers, RunsRegistered
  <2>3. Numbered' /\ AbortsTheDead'
    BY <1>26, Zenon DEF prepared, IInv, Numbered, AbortsTheDead
  <2>4. QED
    BY <2>1, <2>2, <2>3, Zenon DEF IInv
<1>27. CASE create
  <2>1. streams' \in [Streams -> Stream]
    BY <1>27, StreamTypes, <1>1, Zenon DEF create
  <2>2. /\ n \in Calls /\ process[n] = "none" /\ reply = "none"
        /\ process' = [process EXCEPT ![n] = "stopped"]
    BY <1>1, <1>27, Zenon DEF create, IInv, Numbered, Needs, Asks
  <2>3. TypeOK'
    BY <1>1, <1>27, <2>1, <2>2 DEF TypeOK, create, Stream, Open
  <2>4. \A c \in Calls : process'[c] = IF c = n THEN "stopped" ELSE process[c]
    BY <1>1, <2>2, Zenon DEF TypeOK
  <2>5. WaitsForLast' /\ Registers' /\ RunsRegistered'
    BY <1>27, <2>2, <2>4, Zenon DEF create, IInv, WaitsForLast, Registers, RunsRegistered
  <2>6. Numbered'
    BY <1>27, <1>1, <2>2, <2>4 DEF create, IInv, Numbered, TypeOK
  <2>7. AbortsTheDead'
    <3>1. \A i \in DOMAIN queue : queue[i].call \in Calls
      BY <1>1, QueueSteps, Zenon
    <3>2. QED
      BY <1>27, <2>2, <2>4, <3>1, Zenon DEF create, IInv, AbortsTheDead
  <2>8. QED
    BY <2>3, <2>5, <2>6, <2>7, Zenon DEF IInv
<1>28. CASE resume
  <2>1. n \in Calls /\ reply = "none" /\ (n \in registered \/ process[n] = "exited")
    BY <1>1, <1>28, Zenon DEF resume, IInv, Registers, Needs, Asks
  <2>2. TypeOK'
    BY <1>1, <1>28, <2>1 DEF TypeOK, resume, Open
  <2>3. CASE UNCHANGED process /\ Fail
    BY <1>1, <1>28, <2>1, <2>2, <2>3, QuietStep, Zenon DEF resume
  <2>4. CASE /\ process[n] = "stopped" /\ pc' = "startup"
             /\ process' = [process EXCEPT ![n] = "startup"] /\ UNCHANGED cleanup
    <3>1. \A c \in Calls : process'[c] = IF c = n THEN "startup" ELSE process[c]
      BY <1>1, <2>4, Zenon DEF TypeOK
    <3>2. WaitsForLast' /\ Registers' /\ RunsRegistered'
      BY <1>28, <2>1, <2>4, <3>1, Zenon DEF resume, IInv, WaitsForLast, Registers, RunsRegistered
    <3>3. Numbered'
      BY <1>28, <1>1, <2>1, <2>4, <3>1 DEF resume, IInv, Numbered, TypeOK
    <3>4. AbortsTheDead'
      <4>1. \A i \in DOMAIN queue : queue[i].call \in Calls
        BY <1>1, QueueSteps, Zenon
      <4>2. QED
        BY <1>28, <2>1, <2>4, <3>1, <4>1 DEF resume, IInv, AbortsTheDead
    <3>5. QED
      BY <2>2, <3>2, <3>3, <3>4, Zenon DEF IInv
  <2>5. QED
    BY <1>28, <2>3, <2>4, Zenon DEF resume
<1>29. ASSUME NEW c \in Calls, die(c) PROVE IInv'
  <2>1. streams' \in [Streams -> Stream]
    BY <1>1, <1>29, StreamTypes, Zenon DEF die
  <2>2. TypeOK'
    BY <1>1, <1>29, <2>1 DEF TypeOK, die, Becomes, Stream
  <2>3. QED
    BY <1>29, <2>2, ChildStep, Zenon DEF die, Becomes, Alive
<1>30. ASSUME NEW c \in Calls, exec(c) PROVE IInv'
  <2>1. streams' \in [Streams -> Stream]
    BY <1>1, <1>30, StreamTypes, Zenon DEF exec
  <2>2. TypeOK'
    BY <1>1, <1>30, <2>1 DEF TypeOK, exec, Becomes, Stream
  <2>3. QED
    BY <1>30, <2>2, ChildStep, Zenon DEF exec, Becomes
<1>31. ASSUME NEW c \in Calls, NEW s \in Streams, NEW from \in {"startup", "setup"},
             NEW data \in {"ok", "error"}, NEW to \in {"setup", "running", "failing"},
             send(c, s, from, data, to)
      PROVE  IInv'
  <2>1. streams' \in [Streams -> Stream]
    <3>1. /\ [streams EXCEPT ![s].data = "part"] \in [Streams -> Stream]
          /\ [streams EXCEPT ![s].ends = @ \ {"cr", "cw"},
                             ![s].data = IF "pr" \in streams[s].ends THEN data ELSE @]
               \in [Streams -> Stream]
      BY <1>1, StreamTypes, Zenon
    <3>2. \/ streams' = [streams EXCEPT ![s].data = "part"]
          \/ streams' = [streams EXCEPT ![s].ends = @ \ {"cr", "cw"},
                             ![s].data = IF "pr" \in streams[s].ends THEN data ELSE @]
      BY <1>31, Zenon DEF send
    <3>3. QED
      BY ONLY <3>1, <3>2, Zenon
  <2>2. \/ process' = process
        \/ \E p \in {"setup", "running", "failing"} : process' = [process EXCEPT ![c] = p]
    BY <1>31, Zenon DEF send, Becomes
  <2>3. UNCHANGED <<parent, rpc, service, revision, doomed>>
    BY <1>31, Zenon DEF send
  <2>4. TypeOK'
    BY <1>1, <2>1, <2>2, <2>3 DEF TypeOK, Stream
  <2>5. QED
    BY <1>31, <2>2, <2>3, <2>4, ChildStep, Zenon DEF send
<1>32. ASSUME NEW c \in Calls, Child(c) PROVE IInv'
  BY <1>32, <1>30, <1>31, Zenon DEF Child, ready, fail, report_spawn_error, Streams
<1>33. CASE UNCHANGED vars
  <2>1. UNCHANGED <<parent, rpc, service, kernel, streams>>
    BY <1>33, Zenon DEF vars
  <2>2. TypeOK' /\ WaitsForLast' /\ Numbered'
    BY <1>1, <2>1 DEF IInv, TypeOK, WaitsForLast, Needs, Numbered
  <2>3. AbortsTheDead' /\ Registers' /\ RunsRegistered'
    BY <2>1, Zenon DEF IInv, AbortsTheDead, Registers, RunsRegistered
  <2>4. QED
    BY <2>2, <2>3, Zenon DEF IInv
<1>34. QED
  BY <1>2, <1>3, <1>4, <1>5, <1>6, <1>7, <1>8, <1>9, <1>10, <1>11, <1>12,
     <1>13, <1>14, <1>15, <1>16, <1>17, <1>18, <1>19, <1>20, <1>21, <1>22, <1>23,
     <1>24, <1>25, <1>26, <1>27, <1>28, <1>29, <1>30, <1>32, <1>33, Zenon DEF Next, Parent

\* For every number of calls and every queue bound, whatever requests and
\* replies are lost: a child that runs user code is one the POSIX service has
\* registered (commit_fork before ProcessHandleResume; abort_launched_child
\* only after the confirmed exit).
THEOREM LaunchedChildIsRegistered == Spec => []RunsRegistered
<1>1. IInv => RunsRegistered
  BY Zenon DEF IInv
<1>2. QED
  BY InitIInv, StepIInv, <1>1, PTL DEF Spec

-----------------------------------------------------------------------------
(* What fork and posix_spawn report is true, unless the transport's own     *)
(* ESRCH passes for the service's.                                          *)

Ended == {"none", "exited"}
Launched == {"running", "exited"}

\* The requests that wait at the service.
Asked == {queue[i] : i \in DOMAIN queue}

\* Nothing has registered the child of call c, and nothing will.
Unregistrable(c) == c \notin registered /\ [op |-> "commit", call |-> c] \notin Asked

\* The service answers a request only when no other waits behind or before it,
\* so that an answer also tells that no earlier request is still to come.
AnswersAreCurrent ==
  /\ reply # "transportESRCH"
  /\ reply \in {"ok", "ESRCH"} =>
       /\ Asked = {}
       /\ pc \in {"commit", "cancel"} => n \notin tokens
       /\ pc = "cleanup" => n \notin registered

\* A preparation the service knows is the one the parent holds, or one whose
\* reply was lost.
TokensHeld ==
  /\ pc \in {"idle", "prepare"} => ~token
  /\ \A c \in tokens : \/ c \in unanswered
                       \/ c = n /\ (token \/ (pc = "prepare" /\ reply = "ok"))

\* Resources::child and the handle come and go together.
ChildHeld ==
  /\ handle \subseteq {n} /\ (child = "none" => handle = {})
  /\ pc \in {"idle", "prepare", "capture"} => child = "none"
  /\ pc \in Open \union {"cleanup"} => child # "none"
  /\ pc = "commit" => child = "registered"

\* A call has no outcome before its child is published or it is over.
Decided ==
  /\ \A c \in Calls : c > n => outcome[c] = "none"
  /\ pc \notin {"idle", "drop", "cancel"} => outcome[n] = "none"
  /\ \A c \in Calls : outcome[c] = "failed" /\ c = n => pc = "idle"
  /\ \A c \in Calls : outcome[c] = "pid" /\ c = n => child = "none"
  /\ \A c \in Calls : c < n \/ (c = n /\ pc = "idle") => outcome[c] # "none"

\* Who holds which ends of the streams.
StreamsHeld ==
  /\ pc \in {"cancel", "idle"} => \A s \in Streams : streams[s].ends \cap {"pr", "pw"} = {}
  /\ op = "fork" => streams["status"].ends = {}
  /\ n \in Calls /\ process[n] \in {"none", "running", "exited"} =>
       \A s \in Streams : streams[s].ends \cap {"cr", "cw"} = {}

\* What the parent has been told of its child's progress is so.
Progress ==
  /\ n \in Calls /\ op = "fork" /\ streams["startup"].data = "ok" => process[n] \in Launched
  /\ pc = "finish" => op = "fork" /\ process[n] \in Launched
  /\ \A c \in Calls : revision[c] # 0 => process[c] \in Launched

\* A call that cannot have made a registration, or has made sure of its end.
Unlaunched(c) ==
  \/ outcome[c] = "failed"
  \/ c > n
  \/ c = n /\ outcome[c] = "none" /\ child # "registered"

Unregistered ==
  /\ \A c \in Calls : Unlaunched(c) => Unregistrable(c)
  /\ pc = "cleanup" /\ cleanup.reclaimed => Unregistrable(n)

\* A call without a child that did not return a PID has none that lives.
Childless ==
  \A c \in Calls :
    outcome[c] = "failed" \/ (c = n /\ outcome[c] = "none" /\ child = "none") => process[c] \in Ended

\* A call that is bound to fail.  Only its child is terminated and aborted.
Failing(c) ==
  \/ outcome[c] = "failed"
  \/ /\ c = n /\ outcome[c] = "none"
     /\ pc = "cleanup" \/ (pc \in {"drop", "cancel"} /\ child = "none")

OnlyFailingAborted ==
  /\ \A c \in doomed : Failing(c)
  /\ \A r \in Asked : r.op = "abort" => Failing(r.call)

\* A registration that succeeded stays until the call fails.
Registered == {"resume", "startup", "startupRead", "status", "statusRead", "finish", "publish"}

StaysRegistered ==
  /\ pc \in Registered \/ (pc = "commit" /\ reply = "ok") => n \in registered
  /\ \A c \in Calls : outcome[c] = "pid" => c \in registered

\* A published child has done what its call promised.
Published ==
  \A c \in Calls : outcome[c] = "pid" =>
    process[c] \in Launched /\ (c = n /\ op = "spawn" => revision[c] = 1)

OInv ==
  /\ IInv
  /\ AnswersAreCurrent /\ TokensHeld /\ ChildHeld /\ Decided /\ StreamsHeld /\ Progress
  /\ Unregistered /\ Childless /\ OnlyFailingAborted /\ StaysRegistered /\ Published

-----------------------------------------------------------------------------
LEMMA TypeFacts ==
  ASSUME IInv
  PROVE  /\ n \in 0..MaxCalls /\ MaxCalls \in Nat
         /\ pc # "idle" => n \in Calls
         /\ outcome \in [Calls -> {"none", "pid", "failed"}]
         /\ process \in [Calls -> {"none", "stopped", "startup", "setup", "running", "failing", "exited"}]
         /\ revision \in [Calls -> 0..1]
         /\ streams \in [Streams -> Stream]
         /\ doomed \subseteq Calls /\ tokens \subseteq Calls /\ registered \subseteq Calls
  BY CallsAssumption, Zenon DEF IInv, TypeOK, Numbered, Stream

\* The requests that wait, after each change of the queue.
LEMMA AskedTypes ==
  ASSUME IInv
  PROVE  /\ Asked \subseteq Request
         /\ queue # <<>> => Head(queue) \in Asked
<1>1. queue \in Seq(Request)
  BY Zenon DEF IInv, TypeOK, Request
<1>2. QED
  BY <1>1 DEF Asked

LEMMA AskedGrows ==
  ASSUME IInv, NEW q \in {"prepare", "commit", "cancel", "abort"}, Call(q), n \in Calls
  PROVE  Asked' = Asked \union {[op |-> q, call |-> n]}
<1> DEFINE r == [op |-> q, call |-> n]
<1>1. queue \in Seq(Request) /\ r \in Request /\ queue' = Append(queue, r)
  BY Zenon DEF IInv, TypeOK, Request, Call
<1> HIDE DEF r
<1>2. /\ DOMAIN queue' = 1..(Len(queue) + 1) /\ DOMAIN queue = 1..Len(queue) /\ Len(queue) \in Nat
      /\ queue'[Len(queue) + 1] = r
      /\ \A i \in 1..Len(queue) : queue'[i] = queue[i]
  BY <1>1
<1>3. QED
  BY <1>2 DEF Asked, r

LEMMA AskedShrinks ==
  ASSUME IInv, queue # <<>>,
         queue' \in {queue, Tail(queue), SubSeq(queue, 1, Len(queue) - 1)}
  PROVE  /\ Asked' \subseteq Asked
         /\ Len(queue) = 1 /\ queue' = Tail(queue) => Asked' = {}
<1>1. queue \in Seq(Request) /\ Len(queue) \in Nat \ {0} /\ DOMAIN queue = 1..Len(queue)
  BY DEF IInv, TypeOK, Request
<1>2. CASE queue' = queue /\ queue' # Tail(queue)
  BY <1>2, Zenon DEF Asked
<1>3. CASE queue' = Tail(queue)
  <2>1. DOMAIN queue' = 1..(Len(queue) - 1) /\ \A i \in 1..(Len(queue) - 1) : queue'[i] = queue[i + 1]
    BY <1>1, <1>3
  <2>2. \A i \in DOMAIN queue' : i + 1 \in DOMAIN queue /\ queue'[i] = queue[i + 1]
    BY <1>1, <2>1
  <2>3. Asked' \subseteq Asked
    BY <2>2, Zenon DEF Asked
  <2>4. Len(queue) = 1 => Asked' = {}
    BY <2>1 DEF Asked
  <2>5. QED
    BY <2>3, <2>4, Zenon
<1>4. CASE queue' = SubSeq(queue, 1, Len(queue) - 1)
  <2>1. DOMAIN queue' = 1..(Len(queue) - 1) /\ \A i \in 1..(Len(queue) - 1) : queue'[i] = queue[i]
    BY <1>1, <1>4, WithoutLast
  <2>2. Asked' \subseteq Asked
    BY <1>1, <2>1 DEF Asked
  <2>3. Len(queue) = 1 => Asked' = {}
    BY <2>1 DEF Asked
  <2>4. QED
    BY <2>2, <2>3, Zenon
<1>5. QED
  BY <1>2, <1>3, <1>4, Zenon

-----------------------------------------------------------------------------
\* The service takes a request: what it answers, and what it may change.
LEMMA ServeEffects ==
  ASSUME IInv, NEW answered \in BOOLEAN, Serve(answered)
  PROVE  /\ UNCHANGED <<parent, kernel, streams>>
         /\ Asked' \subseteq Asked
         /\ \A c \in registered' : c \in registered \/ [op |-> "commit", call |-> c] \in Asked
         /\ \A c \in registered : c \in registered' \/ [op |-> "abort", call |-> c] \in Asked
         /\ \A c \in tokens' : c \in tokens \/ c \in unanswered' \/ (c = n /\ pc = "prepare" /\ reply' = "ok")
         /\ unanswered \subseteq unanswered'
         /\ reply' # reply => /\ reply' \in {"fail", "ok", "ESRCH"}
                              /\ Asked' = {}
                              /\ pc \in {"commit", "cancel"} => n \notin tokens'
                              /\ pc = "cleanup" => n \notin registered'
                              /\ pc = "commit" /\ reply' = "ok" => n \in registered'
<1> DEFINE r == Head(queue)
<1>1. /\ queue # <<>> /\ queue' = Tail(queue)
      /\ UNCHANGED <<parent, kernel, streams>>
  BY Zenon DEF Serve
<1>2. /\ r \in Asked /\ r \in Request
      /\ Asked' \subseteq Asked /\ (Len(queue) = 1 => Asked' = {})
  BY <1>1, AskedTypes, AskedShrinks, Zenon
<1>3. r = [op |-> r.op, call |-> r.call] /\ r.op \in {"prepare", "commit", "cancel", "abort"}
  BY <1>2, Zenon DEF Request
<1>4. /\ tokens' = IF r.op = "prepare" THEN tokens \union {r.call}
                   ELSE IF r.op = "abort" THEN tokens ELSE tokens \ {r.call}
      /\ registered' = CASE r.op = "commit" /\ r.call \in tokens -> registered \union {r.call}
                         [] r.op = "abort" -> registered \ {r.call}
                         [] OTHER -> registered
      /\ unanswered' = IF r.op = "prepare" /\ ~(Awaited /\ answered)
                       THEN unanswered \union {r.call} ELSE unanswered
  BY Zenon DEF Serve
<1>5. Awaited => Len(queue) = 1 /\ r.op = Asks[pc] /\ r.call = n /\ pc \in DOMAIN Asks
  <2>1. Awaited => /\ Len(queue) = 1 /\ queue[Len(queue)] = [op |-> Asks[pc], call |-> n]
                   /\ pc \in DOMAIN Asks
    BY Zenon DEF Awaited, IInv, WaitsForLast, Needs
  <2>2. r = queue[1]
    BY <1>1 DEF IInv, TypeOK
  <2>3. QED
    BY <2>1, <2>2
<1>6. /\ ~Awaited => reply' = reply
      /\ Awaited /\ answered => reply' = Result(r)
      /\ Awaited /\ ~answered => reply' = "fail"
  BY Zenon DEF Serve
<1>7. /\ Result(r) \in {"ok", "ESRCH"}
      /\ r.op = "prepare" => Result(r) = "ok"
      /\ r.op = "commit" => (Result(r) = "ok" <=> r.call \in tokens)
  BY <1>3, Zenon DEF Result
<1> HIDE DEF r
<1>8. /\ \A c \in registered' : c \in registered \/ [op |-> "commit", call |-> c] \in Asked
      /\ \A c \in registered : c \in registered' \/ [op |-> "abort", call |-> c] \in Asked
  BY <1>2, <1>3, <1>4, Zenon
<1>9. /\ \A c \in tokens' : c \in tokens \/ c \in unanswered' \/ (c = n /\ pc = "prepare" /\ reply' = "ok")
      /\ unanswered \subseteq unanswered'
  <2>1. Awaited /\ r.op = "prepare" => pc = "prepare" /\ r.call = n
    BY <1>5 DEF Asks
  <2>2. QED
    BY <1>4, <1>6, <1>7, <2>1, Zenon
<1>10. ASSUME Awaited
       PROVE  /\ reply' \in {"fail", "ok", "ESRCH"}
              /\ Asked' = {}
              /\ pc \in {"commit", "cancel"} => n \notin tokens'
              /\ pc = "cleanup" => n \notin registered'
              /\ pc = "commit" /\ reply' = "ok" => n \in registered'
  <2>1. pc = "commit" => r.op = "commit"
    BY <1>5, <1>10 DEF Asks
  <2>2. pc = "cancel" => r.op = "cancel"
    BY <1>5, <1>10 DEF Asks
  <2>3. pc = "cleanup" => r.op = "abort"
    BY <1>5, <1>10 DEF Asks
  <2>4. reply' \in {"fail", "ok", "ESRCH"} /\ Asked' = {}
    BY <1>2, <1>5, <1>6, <1>7, <1>10, Zenon
  <2>5. QED
    BY <1>4, <1>5, <1>6, <1>7, <1>10, <2>1, <2>2, <2>3, <2>4, Zenon
<1>11. QED
  BY <1>1, <1>2, <1>6, <1>8, <1>9, <1>10, Zenon

LEMMA ServeKeeps ==
  ASSUME OInv, NEW answered \in BOOLEAN, Serve(answered)
  PROVE  OInv'
<1> USE DEF parent, kernel
<1>1. IInv /\ IInv'
  BY ServeStep, Zenon DEF OInv
<1>2. /\ UNCHANGED <<parent, kernel, streams>>
      /\ Asked' \subseteq Asked
      /\ \A c \in registered' : c \in registered \/ [op |-> "commit", call |-> c] \in Asked
      /\ \A c \in registered : c \in registered' \/ [op |-> "abort", call |-> c] \in Asked
      /\ \A c \in tokens' : c \in tokens \/ c \in unanswered' \/ (c = n /\ pc = "prepare" /\ reply' = "ok")
      /\ unanswered \subseteq unanswered'
      /\ reply' # reply => /\ reply' \in {"fail", "ok", "ESRCH"}
                           /\ Asked' = {}
                           /\ pc \in {"commit", "cancel"} => n \notin tokens'
                           /\ pc = "cleanup" => n \notin registered'
                           /\ pc = "commit" /\ reply' = "ok" => n \in registered'
  BY <1>1, ServeEffects, Zenon
<1>3. \A c : Unregistrable(c) => Unregistrable(c)'
  BY <1>2, Zenon DEF Unregistrable
<1>4. \A c \in registered : ~Failing(c) => c \in registered'
  BY <1>2, Zenon DEF OInv, OnlyFailingAborted
<1>5. reply \notin {"ok", "ESRCH"}
  <2>1. queue # <<>>
    BY Zenon DEF Serve
  <2>2. QED
    BY <1>1, <2>1, AskedTypes, Zenon DEF OInv, AnswersAreCurrent
<1>6. AnswersAreCurrent'
  BY <1>2, <1>5, Zenon DEF OInv, AnswersAreCurrent
<1>7. TokensHeld'
  BY <1>2, <1>5, Zenon DEF OInv, TokensHeld
<1>8. ChildHeld' /\ Decided' /\ StreamsHeld' /\ Progress' /\ Childless' /\ Published'
  BY <1>2 DEF OInv, ChildHeld, Decided, StreamsHeld, Progress, Childless, Published
<1>9. Unregistered'
  BY <1>2, <1>3, Zenon DEF OInv, Unregistered, Unlaunched
<1>10. OnlyFailingAborted'
  BY <1>2, Zenon DEF OInv, OnlyFailingAborted, Failing
<1>11. StaysRegistered'
  <2>1. pc \in Registered \/ pc = "commit" => n \in Calls /\ ~Failing(n)
    BY <1>1, TypeFacts, Zenon DEF OInv, Decided, Failing, Registered
  <2>2. \A c \in Calls : outcome[c] = "pid" => ~Failing(c)
    BY Zenon DEF Failing
  <2>3. QED
    BY <1>2, <1>4, <2>1, <2>2, Zenon DEF OInv, StaysRegistered
<1>12. QED
  BY <1>1, <1>6, <1>7, <1>8, <1>9, <1>10, <1>11, Zenon DEF OInv

\* A request gets lost, or its caller is told of a failure.
LEMMA LossKeeps ==
  ASSUME OInv, ~TransportEsrch, TransportFails
  PROVE  OInv'
<1> USE DEF parent, service, kernel
<1>1. /\ IInv /\ IInv' /\ UNCHANGED <<parent, service, kernel, streams>>
      /\ reply = "pending" /\ reply' = "fail" /\ Asked' \subseteq Asked
  <2>1. IInv /\ IInv' /\ UNCHANGED <<parent, service, kernel, streams>>
    BY LossStep, Zenon DEF OInv, TransportFails
  <2>2. reply = "pending" /\ reply' = "fail"
    BY Zenon DEF TransportFails
  <2>3. queue # <<>>
    BY <2>2, Zenon DEF OInv, IInv, WaitsForLast
  <2>4. queue' \in {queue, Tail(queue), SubSeq(queue, 1, Len(queue) - 1)}
    BY Zenon DEF TransportFails
  <2>5. QED
    BY <2>1, <2>2, <2>3, <2>4, AskedShrinks, Zenon
<1>2. AnswersAreCurrent' /\ TokensHeld' /\ ChildHeld' /\ Decided' /\ StreamsHeld'
  BY <1>1 DEF OInv, AnswersAreCurrent, TokensHeld, ChildHeld, Decided, StreamsHeld
<1>3. Unregistered'
  <2>1. \A c : Unregistrable(c) => Unregistrable(c)'
    BY <1>1, Zenon DEF Unregistrable
  <2>2. QED
    BY <1>1, <2>1, Zenon DEF OInv, Unregistered, Unlaunched
<1>4. OnlyFailingAborted'
  BY <1>1, Zenon DEF OInv, OnlyFailingAborted, Failing
<1>5. Progress' /\ Childless' /\ StaysRegistered' /\ Published'
  BY <1>1, Zenon DEF OInv, Progress, Childless, StaysRegistered, Published
<1>6. QED
  BY <1>1, <1>2, <1>3, <1>4, <1>5, Zenon DEF OInv

\* The parent asks: only what it owes the service, and a commit only for a
\* child it keeps track of.
LEMMA CallKeeps ==
  ASSUME OInv, IInv', NEW q \in {"prepare", "commit", "cancel", "abort"}, Call(q),
         q = "commit" => pc = "commit", q = "abort" => pc = "cleanup" /\ ~cleanup.reclaimed,
         pc # "idle", UNCHANGED <<parent, service, kernel, streams>>
  PROVE  OInv'
<1> USE DEF parent, service, kernel
<1>1. /\ IInv /\ n \in Calls
      /\ reply = "none" /\ reply' = "pending"
      /\ Asked' = Asked \union {[op |-> q, call |-> n]}
  <2>1. IInv /\ n \in Calls
    BY TypeFacts, Zenon DEF OInv
  <2>2. QED
    BY <2>1, AskedGrows, Zenon DEF Call
<1>2. AnswersAreCurrent' /\ TokensHeld' /\ ChildHeld' /\ Decided' /\ StreamsHeld'
  BY <1>1 DEF OInv, AnswersAreCurrent, TokensHeld, ChildHeld, Decided, StreamsHeld
<1>3. Unregistered'
  <2>1. \A c : Unregistrable(c) => Unregistrable(c)' \/ (q = "commit" /\ c = n)
    BY <1>1, Zenon DEF Unregistrable
  <2>2. q = "commit" => ~Unlaunched(n) /\ pc # "cleanup"
    BY <1>1, Zenon DEF OInv, ChildHeld, Decided, Unlaunched, TypeOK, IInv
  <2>3. QED
    BY <1>1, <2>1, <2>2, Zenon DEF OInv, Unregistered, Unlaunched
<1>4. OnlyFailingAborted'
  <2>1. q = "abort" => Failing(n)
    BY <1>1, Zenon DEF OInv, Decided, Failing
  <2>2. \A c : Failing(c) => Failing(c)'
    BY Zenon DEF Failing
  <2>3. \A r \in Asked' : r \in Asked \/ (r.op = q /\ r.call = n)
    BY <1>1
  <2>4. QED
    BY <2>1, <2>2, <2>3, Zenon DEF OInv, OnlyFailingAborted
<1>5. Progress' /\ Childless' /\ StaysRegistered' /\ Published'
  BY <1>1, Zenon DEF OInv, Progress, Childless, StaysRegistered, Published
<1>6. QED
  BY <1>1, <1>2, <1>3, <1>4, <1>5, Zenon DEF OInv

-----------------------------------------------------------------------------
\* What a step of a child does to its process, its image and its streams.
ChildEffect ==
  /\ UNCHANGED <<parent, rpc, service, doomed>>
  /\ \A d \in Calls : /\ process[d] \in Ended => process'[d] = process[d]
                      /\ process[d] \in Launched => process'[d] \in Launched
                      /\ revision[d] # 0 => revision'[d] = revision[d]
                      /\ revision'[d] # revision[d] => process'[d] \in Launched
  /\ \A s \in Streams : streams'[s].ends \subseteq streams[s].ends
  /\ n \in Calls /\ op = "fork" /\ streams'["startup"].data = "ok" /\ streams["startup"].data # "ok" =>
       process'[n] \in Launched
  /\ n \in Calls /\ process'[n] \in {"none", "running", "exited"} /\ process[n] # process'[n] =>
       \A s \in Streams : streams'[s].ends \cap {"cr", "cw"} = {}

LEMMA ChildKeeps ==
  ASSUME OInv, IInv', ChildEffect
  PROVE  OInv'
<1> USE DEF parent, rpc, service
<1>1. UNCHANGED <<parent, rpc, service, doomed>> /\ Asked' = Asked
  BY Zenon DEF ChildEffect, Asked
<1>2. AnswersAreCurrent' /\ TokensHeld' /\ ChildHeld' /\ Decided'
  BY <1>1, Zenon DEF OInv, AnswersAreCurrent, TokensHeld, ChildHeld, Decided
<1>3. Unregistered' /\ OnlyFailingAborted' /\ StaysRegistered'
  BY <1>1, Zenon DEF OInv, Unregistered, Unregistrable, Unlaunched, OnlyFailingAborted, Failing, StaysRegistered
<1>4. StreamsHeld'
  <2>1. \A s \in Streams : streams'[s].ends \subseteq streams[s].ends
    BY Zenon DEF ChildEffect
  <2>2. /\ pc \in {"cancel", "idle"} => \A s \in Streams : streams'[s].ends \cap {"pr", "pw"} = {}
        /\ op = "fork" => streams'["status"].ends = {}
    BY <2>1, Zenon DEF OInv, StreamsHeld, Streams
  <2>3. n \in Calls /\ process'[n] \in {"none", "running", "exited"} =>
          \A s \in Streams : streams'[s].ends \cap {"cr", "cw"} = {}
    <3>1. CASE process'[n] = process[n]
      BY <2>1, <3>1, Zenon DEF OInv, StreamsHeld
    <3>2. CASE process'[n] # process[n]
      BY <3>2, Zenon DEF ChildEffect
    <3>3. QED
      BY <3>1, <3>2, Zenon
  <2>4. QED
    BY <1>1, <2>2, <2>3, Zenon DEF StreamsHeld
<1>5. Childless'
  BY <1>1, Zenon DEF OInv, Childless, ChildEffect
<1>6. Published'
  BY <1>1 DEF OInv, Published, ChildEffect
<1>7. Progress'
  <2>1. pc = "finish" => n \in Calls
    BY TypeFacts, Zenon DEF OInv
  <2>2. QED
    BY <1>1, <2>1, Zenon DEF OInv, Progress, ChildEffect
<1>8. QED
  BY <1>1, <1>2, <1>3, <1>4, <1>5, <1>6, <1>7, Zenon DEF OInv

\* Death closes the child's ends, success of exec the old image's.
LEMMA ImageEnds ==
  ASSUME IInv, NEW c \in Calls, streams' = ChildEnds(c, streams)
  PROVE  /\ \A s \in Streams : /\ streams'[s].ends \subseteq streams[s].ends
                               /\ streams'[s].data = streams[s].data
                               /\ c = n => streams'[s].ends \cap {"cr", "cw"} = {}
<1>1. \A s \in Streams : streams[s] \in Stream
  BY TypeFacts, Zenon
<1>2. ASSUME NEW t \in Stream
      PROVE  /\ [t EXCEPT !.ends = @ \ {"cr", "cw"}].ends = t.ends \ {"cr", "cw"}
             /\ [t EXCEPT !.ends = @ \ {"cr", "cw"}].data = t.data
  BY Zenon DEF Stream
<1>3. CASE c = n
  <2>1. \A s \in Streams : streams'[s] = [streams[s] EXCEPT !.ends = @ \ {"cr", "cw"}]
    BY <1>3, Zenon DEF ChildEnds
  <2>2. QED
    BY <1>1, <1>2, <2>1, Zenon
<1>4. CASE c # n
  BY <1>4, Zenon DEF ChildEnds
<1>5. QED
  BY <1>3, <1>4, Zenon

LEMMA DieKeeps ==
  ASSUME OInv, IInv', NEW c \in Calls, die(c)
  PROVE  OInv'
<1>1. UNCHANGED <<parent, rpc, service, revision, doomed>> /\ process[c] \notin Ended
  BY Zenon DEF die, Alive, Ended
<1>2. \A d \in Calls : process'[d] = IF d = c THEN "exited" ELSE process[d]
  BY TypeFacts, Zenon DEF die, Becomes, OInv
<1>3. \A s \in Streams : /\ streams'[s].ends \subseteq streams[s].ends
                         /\ streams'[s].data = streams[s].data
                         /\ c = n => streams'[s].ends \cap {"cr", "cw"} = {}
  BY ImageEnds, Zenon DEF die, OInv
<1>4. ChildEffect
  BY <1>1, <1>2, <1>3, Zenon DEF ChildEffect, Ended, Launched, Streams
<1>5. QED
  BY <1>4, ChildKeeps, Zenon

LEMMA ExecKeeps ==
  ASSUME OInv, IInv', NEW c \in Calls, exec(c)
  PROVE  OInv'
<1>1. UNCHANGED <<parent, rpc, service, doomed>> /\ process[c] = "setup"
  BY Zenon DEF exec
<1>2. \A d \in Calls : process'[d] = IF d = c THEN "running" ELSE process[d]
  BY TypeFacts, Zenon DEF exec, Becomes, OInv
<1>3. \A d \in Calls : revision'[d] = IF d = c THEN 1 ELSE revision[d]
  BY TypeFacts, Zenon DEF exec, OInv
<1>4. \A s \in Streams : /\ streams'[s].ends \subseteq streams[s].ends
                         /\ streams'[s].data = streams[s].data
                         /\ c = n => streams'[s].ends \cap {"cr", "cw"} = {}
  BY ImageEnds, Zenon DEF exec, OInv
<1>5. revision[c] = 0
  BY <1>1, TypeFacts, Zenon DEF OInv, Progress, Launched
<1>6. ChildEffect
  BY <1>1, <1>2, <1>3, <1>4, <1>5, Zenon DEF ChildEffect, Ended, Launched, Streams
<1>7. QED
  BY <1>6, ChildKeeps, Zenon

\* A message of the child, whole or in part.
LEMMA SendKeeps ==
  ASSUME OInv, IInv', NEW c \in Calls, NEW s \in Streams, NEW from \in {"startup", "setup"},
         NEW data \in {"ok", "error"}, NEW to \in {"setup", "running", "failing"},
         send(c, s, from, data, to),
         data = "ok" => s = "startup" /\ to = (IF op = "fork" THEN "running" ELSE "setup"),
         data # "ok" => to = "failing"
  PROVE  OInv'
<1>1. /\ UNCHANGED <<parent, rpc, service, revision, doomed>>
      /\ c = n /\ process[c] = from
  BY Zenon DEF send
<1>2. streams \in [Streams -> Stream] /\ streams[s] \in Stream
  BY TypeFacts, Zenon DEF OInv
<1>3. CASE /\ streams' = [streams EXCEPT ![s].data = "part"]
           /\ UNCHANGED process
  <2>1. \A u \in Streams : /\ streams'[u].ends = streams[u].ends
                           /\ streams'[u].data \in {streams[u].data, "part"}
    BY <1>2, <1>3, Zenon DEF Stream
  <2>2. ChildEffect
    BY <1>1, <1>3, <2>1, Zenon DEF ChildEffect, Streams
  <2>3. QED
    BY <2>2, ChildKeeps, Zenon
<1>4. ASSUME NEW heard \in BOOLEAN,
             streams' = [streams EXCEPT ![s].ends = @ \ {"cr", "cw"},
                                        ![s].data = IF heard THEN data ELSE @],
             process' = [process EXCEPT ![c] = IF heard THEN to ELSE "failing"]
      PROVE  OInv'
  <2>1. \A u \in Streams :
          /\ streams'[u].ends = IF u = s THEN streams[u].ends \ {"cr", "cw"} ELSE streams[u].ends
          /\ streams'[u].data = IF u = s /\ heard THEN data ELSE streams[u].data
    BY <1>2, <1>4, Zenon DEF Stream
  <2>2. \A d \in Calls : process'[d] = IF d = c THEN (IF heard THEN to ELSE "failing") ELSE process[d]
    BY <1>4, TypeFacts, Zenon DEF OInv
  <2>3. process'[n] = "running" => \A u \in Streams : streams'[u].ends \cap {"cr", "cw"} = {}
    <3>1. process'[n] = "running" => op = "fork" /\ s = "startup"
      BY <1>1, <2>2, Zenon
    <3>2. QED
      BY <2>1, <3>1, Zenon DEF OInv, StreamsHeld, Streams
  <2>4. ChildEffect
    BY <1>1, <2>1, <2>2, <2>3, Zenon DEF ChildEffect, Ended, Launched, Streams
  <2>5. QED
    BY <2>4, ChildKeeps, Zenon
<1>5. QED
  BY <1>3, <1>4, Zenon DEF send, Becomes

LEMMA ChildStepKeeps ==
  ASSUME OInv, IInv', NEW c \in Calls, Child(c)
  PROVE  OInv'
<1>1. CASE ready(c)
  BY <1>1, SendKeeps, Zenon DEF ready, Streams
<1>2. CASE fail(c)
  BY <1>2, SendKeeps, Zenon DEF fail, Streams
<1>3. CASE report_spawn_error(c)
  BY <1>3, SendKeeps, Zenon DEF report_spawn_error, Streams
<1>4. QED
  BY <1>1, <1>2, <1>3, ExecKeeps, Zenon DEF Child

-----------------------------------------------------------------------------
(* The parent's own steps.                                                 *)
Outset == prepared \/ create \/ create_fails \/ status_fails \/ attempt \/ committed \/ resume
Waiting == startup_wait \/ receive \/ status_wait \/ exec_status \/ finish_fork \/ publish \/ abandon
Ending == drop \/ canceled \/ dropped \/ confirm_exit \/ reclaimed \/ close
Begin == \E operation \in {"fork", "spawn"} : begin(operation)
Local == Outset \/ Waiting \/ Ending \/ Begin

\* The parent does not wait for a reply after a step of its own, and leaves the
\* service alone.
LEMMA LocalFrame ==
  ASSUME OInv, Local
  PROVE  reply' = "none" /\ UNCHANGED <<queue, service>>
<1> USE DEF rpc, service, kernel, Open
<1>1. reply # "none" => /\ pc \in DOMAIN Asks
                        /\ pc = "cancel" => token
                        /\ pc = "cleanup" => cleanup.exit /\ ~cleanup.reclaimed
  BY Zenon DEF OInv, IInv, WaitsForLast, Needs
<1> USE DEF Asks
<1>2. CASE Outset
  BY <1>2, <1>1, Zenon
       DEF IInv, Outset, prepared, create, create_fails, status_fails, attempt, track_child, committed,
           Committed, Answered, resume, Goto, Fail
<1>3. CASE Waiting
  BY <1>3, <1>1, Zenon
       DEF IInv, Waiting, startup_wait, receive, status_wait, exec_status, finish_fork, publish, abandon,
           wait, Goto, Fail
<1>4. CASE Ending
  BY <1>4, <1>1, Zenon
       DEF IInv, Ending, drop, canceled, Answered, dropped, confirm_exit, reclaimed, close, Goto, Fail
<1>5. CASE Begin
  BY <1>5, <1>1, Zenon DEF IInv, Begin, begin, Goto
<1>6. QED
  BY <1>2, <1>3, <1>4, <1>5, Zenon DEF Local

LEMMA LocalTokens ==
  ASSUME OInv, Local
  PROVE  TokensHeld'
<1> USE DEF rpc, service, kernel, Open
<1>1. CASE Outset
  <2>1. CASE prepared
    BY <2>1, Zenon DEF OInv, AnswersAreCurrent, TokensHeld, prepared, Answered, Goto, Fail
  <2>2. CASE create
    BY <2>2, Zenon DEF OInv, AnswersAreCurrent, TokensHeld, create, Goto, Fail
  <2>3. CASE create_fails
    BY <2>3, Zenon DEF OInv, AnswersAreCurrent, TokensHeld, create_fails, Goto, Fail
  <2>4. CASE status_fails
    BY <2>4, Zenon DEF OInv, AnswersAreCurrent, TokensHeld, status_fails, Goto, Fail
  <2>5. CASE attempt
    BY <2>5, Zenon DEF OInv, AnswersAreCurrent, TokensHeld, attempt, track_child, Goto, Fail
  <2>6. CASE committed
    BY <2>6, Zenon DEF OInv, AnswersAreCurrent, TokensHeld, committed, Committed, Answered, Goto, Fail
  <2>7. CASE resume
    BY <2>7, Zenon DEF OInv, AnswersAreCurrent, TokensHeld, resume, Goto, Fail
  <2>8. QED
    BY <1>1, <2>1, <2>2, <2>3, <2>4, <2>5, <2>6, <2>7, Zenon DEF Outset
<1>2. CASE Waiting
  BY <1>2
       DEF OInv, AnswersAreCurrent, TokensHeld, Waiting, startup_wait, receive, status_wait, exec_status,
           finish_fork, publish, abandon, wait, Goto, Fail
<1>3. CASE Ending
  <2>1. CASE drop
    BY <2>1, Zenon DEF OInv, AnswersAreCurrent, TokensHeld, drop, Goto, Fail
  <2>2. CASE canceled
    BY <2>2, Zenon DEF OInv, AnswersAreCurrent, TokensHeld, canceled, Answered, Goto, Fail
  <2>3. CASE dropped
    BY <2>3, Zenon DEF OInv, AnswersAreCurrent, TokensHeld, dropped, Goto, Fail
  <2>4. CASE confirm_exit
    BY <2>4, Zenon DEF OInv, AnswersAreCurrent, TokensHeld, confirm_exit, Goto, Fail
  <2>5. CASE reclaimed
    BY <2>5, Zenon DEF OInv, AnswersAreCurrent, TokensHeld, reclaimed, Goto, Fail
  <2>6. CASE close
    BY <2>6, Zenon DEF OInv, AnswersAreCurrent, TokensHeld, close, Goto, Fail
  <2>7. QED
    BY <1>3, <2>1, <2>2, <2>3, <2>4, <2>5, <2>6, Zenon DEF Ending
<1>4. CASE Begin
  BY <1>4 DEF OInv, AnswersAreCurrent, TokensHeld, Begin, begin, Goto
<1>5. QED
  BY <1>1, <1>2, <1>3, <1>4, Zenon DEF Local

LEMMA LocalChild ==
  ASSUME OInv, Local
  PROVE  ChildHeld'
<1> USE DEF rpc, service, kernel, Open
<1>1. CASE Outset
  BY <1>1, Zenon
       DEF OInv, ChildHeld, Outset, prepared, create, create_fails, status_fails, attempt, track_child,
           committed, Committed, Answered, resume, Goto, Fail
<1>2. CASE Waiting
  BY <1>2, Zenon
       DEF OInv, ChildHeld, Waiting, startup_wait, receive, status_wait, exec_status, finish_fork,
           publish, abandon, wait, Goto, Fail
<1>3. CASE Ending
  BY <1>3, Zenon
       DEF OInv, ChildHeld, Ending, drop, canceled, Answered, dropped, confirm_exit, reclaimed, close,
           Goto, Fail
<1>4. CASE Begin
  BY <1>4, Zenon DEF OInv, ChildHeld, Begin, begin, Goto
<1>5. QED
  BY <1>1, <1>2, <1>3, <1>4, Zenon DEF Local

LEMMA LocalDecided ==
  ASSUME OInv, Local
  PROVE  Decided'
<1> USE DEF rpc, service, kernel, Open
<1>1. /\ IInv /\ n \in 0..MaxCalls /\ MaxCalls \in Nat /\ (pc # "idle" => n \in Calls)
      /\ outcome \in [Calls -> {"none", "pid", "failed"}]
  BY TypeFacts, Zenon DEF OInv
<1>2. CASE Outset
  BY <1>2, <1>1, Zenon
       DEF OInv, ChildHeld, Decided, Outset, prepared, create, create_fails, status_fails, attempt,
           track_child, committed, Committed, Answered, resume, Goto, Fail
<1>3. CASE Waiting
  BY <1>3, <1>1, Zenon
       DEF OInv, ChildHeld, Decided, Waiting, startup_wait, receive, status_wait, exec_status,
           finish_fork, publish, abandon, wait, Goto, Fail
<1>4. CASE Ending
  BY <1>4, <1>1
       DEF OInv, ChildHeld, Decided, Ending, drop, canceled, Answered, dropped, confirm_exit, reclaimed,
           close, Goto, Fail
<1>5. CASE Begin
  BY <1>5, <1>1 DEF OInv, ChildHeld, Decided, Begin, begin, Goto
<1>6. QED
  BY <1>2, <1>3, <1>4, <1>5, Zenon DEF Local

\* A call that is bound to fail stays so.
LEMMA LocalFailing ==
  ASSUME OInv, Local
  PROVE  \A c \in Calls : Failing(c) => Failing(c)'
<1> USE DEF rpc, service, kernel, Open
<1>1. /\ IInv /\ n \in 0..MaxCalls /\ MaxCalls \in Nat /\ (pc # "idle" => n \in Calls)
      /\ outcome \in [Calls -> {"none", "pid", "failed"}]
  BY TypeFacts, Zenon DEF OInv
<1>2. CASE Outset
  BY <1>2, <1>1, Zenon
       DEF OInv, ChildHeld, Decided, Failing, Outset, prepared, create, create_fails, status_fails,
           attempt, track_child, committed, Committed, Answered, resume, Goto, Fail
<1>3. CASE Waiting
  BY <1>3, <1>1, Zenon
       DEF OInv, ChildHeld, Decided, Failing, Waiting, startup_wait, receive, status_wait, exec_status,
           finish_fork, publish, abandon, wait, Goto, Fail
<1>4. CASE Ending
  BY <1>4, <1>1, Zenon
       DEF OInv, ChildHeld, Decided, Failing, Ending, drop, canceled, Answered, dropped, confirm_exit,
           reclaimed, close, Goto, Fail
<1>5. CASE Begin
  BY <1>5, <1>1, Zenon DEF OInv, ChildHeld, Decided, Failing, Begin, begin, Goto
<1>6. QED
  BY <1>2, <1>3, <1>4, <1>5, Zenon DEF Local

\* A call comes to be without a registration only where it had none, or where
\* the cleanup has reclaimed it.
LEMMA LocalUnlaunched ==
  ASSUME OInv, Local
  PROVE  \A c \in Calls : Unlaunched(c)' => Unlaunched(c) \/ (c = n /\ pc = "cleanup" /\ cleanup.reclaimed)
<1> USE DEF rpc, service, kernel, Open
<1>1. /\ IInv /\ n \in 0..MaxCalls /\ MaxCalls \in Nat /\ (pc # "idle" => n \in Calls)
      /\ outcome \in [Calls -> {"none", "pid", "failed"}]
  BY TypeFacts, Zenon DEF OInv
<1>2. CASE Outset
  BY <1>2, <1>1, Zenon
       DEF OInv, ChildHeld, Decided, Unlaunched, Outset, prepared, create, create_fails, status_fails,
           attempt, track_child, committed, Committed, Answered, resume, Goto, Fail
<1>3. CASE Waiting
  BY <1>3, <1>1
       DEF OInv, ChildHeld, Decided, Unlaunched, Waiting, startup_wait, receive, status_wait,
           exec_status, finish_fork, publish, abandon, wait, Goto, Fail
<1>4. CASE Ending
  BY <1>4, <1>1, Zenon
       DEF OInv, ChildHeld, Decided, Unlaunched, Ending, drop, canceled, Answered, dropped, confirm_exit,
           reclaimed, close, Goto, Fail
<1>5. CASE Begin
  BY <1>5, <1>1 DEF OInv, ChildHeld, Decided, Unlaunched, Begin, begin, Goto
<1>6. QED
  BY <1>2, <1>3, <1>4, <1>5, Zenon DEF Local

LEMMA LocalStays ==
  ASSUME OInv, Local
  PROVE  StaysRegistered'
<1> USE DEF rpc, service, kernel, Open
<1>1. /\ IInv /\ n \in 0..MaxCalls /\ MaxCalls \in Nat /\ (pc # "idle" => n \in Calls)
      /\ outcome \in [Calls -> {"none", "pid", "failed"}]
  BY TypeFacts, Zenon DEF OInv
<1>2. CASE Outset
  <2>1. CASE prepared
    BY <2>1, <1>1, Zenon DEF OInv, StaysRegistered, Registered, prepared, Answered, Goto, Fail
  <2>2. CASE create
    BY <2>2, <1>1, Zenon DEF OInv, StaysRegistered, Registered, create, Goto, Fail
  <2>3. CASE create_fails
    BY <2>3, <1>1, Zenon DEF OInv, StaysRegistered, Registered, create_fails, Goto, Fail
  <2>4. CASE status_fails
    BY <2>4, <1>1, Zenon DEF OInv, StaysRegistered, Registered, status_fails, Goto, Fail
  <2>5. CASE attempt
    BY <2>5, <1>1, LocalFrame, Zenon DEF OInv, StaysRegistered, Registered, attempt, track_child, Goto, Fail
  <2>6. CASE committed
    BY <2>6, <1>1, Zenon DEF OInv, StaysRegistered, Registered, committed, Committed, Answered, Goto, Fail
  <2>7. CASE resume
    BY <2>7, <1>1, Zenon DEF OInv, StaysRegistered, Registered, resume, Goto, Fail
  <2>8. QED
    BY <1>2, <2>1, <2>2, <2>3, <2>4, <2>5, <2>6, <2>7, Zenon DEF Outset
<1>3. CASE Waiting
  BY <1>3, <1>1, Zenon
       DEF OInv, StaysRegistered, Registered, Waiting, startup_wait, receive, status_wait, exec_status,
           finish_fork, publish, abandon, wait, Goto, Fail
<1>4. CASE Ending
  BY <1>4, <1>1, Zenon
       DEF OInv, StaysRegistered, Registered, Ending, drop, canceled, Answered, dropped, confirm_exit,
           reclaimed, close, Goto, Fail
<1>5. CASE Begin
  BY <1>5, <1>1, Zenon DEF OInv, StaysRegistered, Registered, Begin, begin, Goto
<1>6. QED
  BY <1>2, <1>3, <1>4, <1>5, Zenon DEF Local

\* A PID is returned for a child that started up, or that runs its new image.
LEMMA LocalPublished ==
  ASSUME OInv, Local
  PROVE  \A c \in Calls : outcome'[c] = "pid" =>
           \/ outcome[c] = "pid"
           \/ c = n /\ pc \in {"finish", "publish"} /\ (pc = "publish" => revision[n] # 0)
<1> USE DEF rpc, service, kernel, Open
<1>1. /\ IInv /\ n \in 0..MaxCalls /\ MaxCalls \in Nat /\ (pc # "idle" => n \in Calls)
      /\ outcome \in [Calls -> {"none", "pid", "failed"}]
  BY TypeFacts, Zenon DEF OInv
<1>2. CASE Outset
  BY <1>2, <1>1, Zenon
       DEF OInv, Replaced, Outset, prepared, create, create_fails, status_fails, attempt, track_child,
           committed, Committed, Answered, resume, Goto, Fail
<1>3. CASE Waiting
  BY <1>3, <1>1, Zenon
       DEF OInv, Replaced, Waiting, startup_wait, receive, status_wait, exec_status, finish_fork,
           publish, abandon, wait, Goto, Fail
<1>4. CASE Ending
  BY <1>4, <1>1, Zenon
       DEF OInv, Replaced, Ending, drop, canceled, Answered, dropped, confirm_exit, reclaimed, close,
           Goto, Fail
<1>5. CASE Begin
  BY <1>5, <1>1, Zenon DEF OInv, Replaced, Begin, begin, Goto
<1>6. QED
  BY <1>2, <1>3, <1>4, <1>5, Zenon DEF Local

\* The parent only closes its ends of the streams, except where it makes them
\* and where a child copies them.
LEMMA LocalEnds ==
  ASSUME OInv, Local, ~create, ~Begin
  PROVE  /\ \A s \in Streams : /\ streams'[s].ends \subseteq streams[s].ends
                               /\ streams'[s].data = streams[s].data
                               /\ drop => streams'[s].ends \cap {"pr", "pw"} = {}
         /\ pc' \in {"cancel", "idle"} => pc = "cancel" \/ drop
         /\ UNCHANGED <<n, op>>
<1>1. streams \in [Streams -> Stream] /\ \A s \in Streams : streams[s] \in Stream
  BY TypeFacts, Zenon DEF OInv
<1>2. ASSUME NEW t \in Stream, NEW e \in SUBSET {"pr", "pw"}
      PROVE  /\ [t EXCEPT !.ends = @ \ e].ends = t.ends \ e
             /\ [t EXCEPT !.ends = @ \ e].data = t.data
  BY Zenon DEF Stream
<1>3. ASSUME NEW u \in Streams, NEW e \in SUBSET {"pr", "pw"},
             streams' = [streams EXCEPT ![u].ends = @ \ e]
      PROVE  \A s \in Streams : /\ streams'[s].ends \subseteq streams[s].ends
                                /\ streams'[s].data = streams[s].data
  <2>1. \A s \in Streams : streams'[s] = IF s = u THEN [streams[s] EXCEPT !.ends = @ \ e] ELSE streams[s]
    BY <1>1, <1>3, Zenon
  <2>2. ASSUME NEW s \in Streams
        PROVE  /\ streams'[s].ends \in {streams[s].ends, streams[s].ends \ e}
               /\ streams'[s].data = streams[s].data
    <3>1. streams[s] \in Stream
      BY <1>1, Zenon
    <3>2. QED
      BY <2>1, <3>1, Zenon DEF Stream
  <2>3. QED
    BY <2>2, Zenon
<1>4. CASE drop
  <2>1. \A s \in Streams : streams'[s] = [streams[s] EXCEPT !.ends = @ \ {"pr", "pw"}]
    BY <1>4, Zenon DEF drop
  <2>2. UNCHANGED <<n, op>>
    BY <1>4, Zenon DEF drop
  <2>3. ASSUME NEW s \in Streams
        PROVE  /\ streams'[s].ends = streams[s].ends \ {"pr", "pw"}
               /\ streams'[s].data = streams[s].data
    <3>1. streams[s] \in Stream
      BY <1>1, Zenon
    <3>2. QED
      BY <2>1, <3>1, Zenon DEF Stream
  <2>4. QED
    BY <1>4, <2>2, <2>3, Zenon
<1>5. CASE startup_wait \/ status_wait
  <2>1. \E u \in Streams : streams' = [streams EXCEPT ![u].ends = @ \ {"pw"}]
    BY <1>5, Zenon DEF startup_wait, status_wait, wait, close_writer, Streams
  <2>2. pc' \notin {"cancel", "idle"} /\ UNCHANGED <<n, op>> /\ ~drop
    BY <1>5, Zenon DEF startup_wait, status_wait, wait, Goto, drop
  <2>3. QED
    BY <1>3, <2>1, <2>2
<1>6. CASE receive \/ exec_status
  <2>1. \E u \in Streams : streams' = [streams EXCEPT ![u].ends = @ \ {"pr"}]
    BY <1>6, Zenon DEF receive, exec_status, close_reader, Streams
  <2>2. pc' \notin {"cancel", "idle"} /\ UNCHANGED <<n, op>> /\ ~drop
    BY <1>6, Zenon DEF receive, exec_status, Goto, Fail, drop
  <2>3. QED
    BY <1>3, <2>1, <2>2
<1>7. CASE prepared \/ create_fails \/ status_fails \/ attempt \/ committed \/ resume
  BY <1>7, Zenon DEF prepared, create_fails, status_fails, attempt, committed, resume, Goto, Fail, drop
<1>8. CASE finish_fork \/ publish \/ abandon \/ canceled \/ dropped \/ confirm_exit \/ reclaimed \/ close
  BY <1>8, Zenon DEF finish_fork, publish, abandon, Open, canceled, dropped, confirm_exit, reclaimed, close,
              Goto, Fail, drop
<1>9. QED
  BY <1>4, <1>5, <1>6, <1>7, <1>8, Zenon DEF Local, Outset, Waiting, Ending

\* The parent makes a child and lets it start; it does nothing else to it.
LEMMA LocalProcess ==
  ASSUME OInv, Local
  PROVE  /\ UNCHANGED revision
         /\ \/ UNCHANGED process
            \/ /\ n \in Calls /\ process[n] \in {"none", "stopped"}
               /\ \E p \in {"stopped", "startup"} :
                    \A c \in Calls : process'[c] = IF c = n THEN p ELSE process[c]
               /\ UNCHANGED <<n, op>> /\ child' # "none" /\ outcome[n] = "none"
               /\ pc' # "finish" /\ outcome' = outcome
<1> USE DEF kernel
<1>1. CASE create
  <2>1. /\ n \in Calls /\ process' = [process EXCEPT ![n] = "stopped"] /\ process[n] = "none"
        /\ outcome[n] = "none"
    BY <1>1, TypeFacts, Zenon DEF create, OInv, IInv, Numbered, Decided
  <2>2. \A c \in Calls : process'[c] = IF c = n THEN "stopped" ELSE process[c]
    BY <2>1, TypeFacts, Zenon DEF OInv
  <2>3. QED
    BY <1>1, <2>1, <2>2, Zenon DEF create, Goto
<1>2. CASE resume
  <2>1. CASE UNCHANGED process
    BY <1>2, <2>1, Zenon DEF resume
  <2>2. CASE process[n] = "stopped" /\ process' = [process EXCEPT ![n] = "startup"] /\ Goto("startup")
    <3>1. n \in Calls /\ child # "none" /\ outcome[n] = "none"
      BY <1>2, TypeFacts, Zenon DEF resume, OInv, ChildHeld, Decided, Open
    <3>2. \A c \in Calls : process'[c] = IF c = n THEN "startup" ELSE process[c]
      BY <2>2, <3>1, TypeFacts, Zenon DEF OInv
    <3>3. QED
      BY <1>2, <2>2, <3>1, <3>2, Zenon DEF resume, Goto
  <2>3. QED
    BY <1>2, <2>1, <2>2, Zenon DEF resume
<1>3. CASE Outset /\ ~create /\ ~resume
  BY <1>3, Zenon DEF Outset, prepared, create_fails, status_fails, attempt, committed
<1>4. CASE Waiting
  BY <1>4, Zenon DEF Waiting, startup_wait, receive, status_wait, exec_status, finish_fork, publish, abandon, wait
<1>5. CASE Ending \/ Begin
  BY <1>5, Zenon DEF Ending, drop, canceled, dropped, confirm_exit, reclaimed, close, Begin, begin
<1>6. QED
  BY <1>1, <1>2, <1>3, <1>4, <1>5, Zenon DEF Local

LEMMA LocalStreams ==
  ASSUME OInv, Local
  PROVE  StreamsHeld'
<1>1. CASE create
  <2>1. /\ n \in Calls /\ UNCHANGED <<n, op>> /\ pc' = "created"
        /\ process'[n] = "stopped"
        /\ streams' = [s \in Streams |-> Inherited(streams[s])]
    BY <1>1, TypeFacts, Zenon DEF create, OInv, Goto
  <2>2. streams'["status"] = Inherited(streams["status"])
    BY <2>1, Zenon DEF Streams
  <2>3. streams["status"].ends = {} => streams'["status"].ends = {}
    BY <2>2, Zenon DEF Inherited
  <2>4. QED
    BY <2>1, <2>3, Zenon DEF OInv, StreamsHeld
<1>2. ASSUME NEW operation \in {"fork", "spawn"}, begin(operation) PROVE StreamsHeld'
  <2>1. /\ op' = operation /\ pc' = "prepare"
        /\ streams' = [s \in Streams |-> IF s = "startup" \/ operation = "spawn" THEN Pair ELSE Closed]
    BY <1>2, Zenon DEF begin, Goto
  <2>2. \A s \in Streams : streams'[s].ends \subseteq {"pr", "pw"}
    BY <2>1, Zenon DEF Pair, Closed
  <2>3. operation = "fork" => streams'["status"].ends = {}
    BY <2>1, Zenon DEF Closed, Streams
  <2>4. QED
    BY <2>1, <2>2, <2>3, Zenon DEF StreamsHeld
<1>3. CASE ~create /\ ~Begin
  <2>1. /\ \A s \in Streams : /\ streams'[s].ends \subseteq streams[s].ends
                              /\ drop => streams'[s].ends \cap {"pr", "pw"} = {}
        /\ pc' \in {"cancel", "idle"} => pc = "cancel" \/ drop
        /\ UNCHANGED <<n, op>>
    BY <1>3, LocalEnds, Zenon
  <2>2. n \in Calls /\ process'[n] \in {"none", "running", "exited"} => process'[n] = process[n]
    BY <2>1, LocalProcess, Zenon
  <2>3. pc' \in {"cancel", "idle"} => \A s \in Streams : streams'[s].ends \cap {"pr", "pw"} = {}
    BY <2>1, Zenon DEF OInv, StreamsHeld
  <2>4. op' = "fork" => streams'["status"].ends = {}
    BY <2>1, Zenon DEF OInv, StreamsHeld, Streams
  <2>5. n' \in Calls /\ process'[n'] \in {"none", "running", "exited"} =>
          \A s \in Streams : streams'[s].ends \cap {"cr", "cw"} = {}
    BY <2>1, <2>2, Zenon DEF OInv, StreamsHeld
  <2>6. QED
    BY <2>3, <2>4, <2>5, Zenon DEF StreamsHeld
<1>4. QED
  BY <1>1, <1>2, <1>3, Zenon DEF Begin

LEMMA LocalProgress ==
  ASSUME OInv, Local
  PROVE  Progress'
<1>1. \A c \in Calls : revision'[c] # 0 => process'[c] \in Launched
  BY LocalProcess, Zenon DEF OInv, Progress, Launched
<1>2. CASE Begin
  <2>1. pc' = "prepare" /\ streams'["startup"].data = "none"
    BY <1>2 DEF Begin, begin, Goto, Pair, Streams
  <2>2. QED
    BY <1>1, <2>1, Zenon DEF Progress
<1>3. CASE ~Begin
  <2>1. UNCHANGED <<n, op>> /\ streams'["startup"].data = streams["startup"].data
    <3>1. CASE create
      BY <3>1, TypeFacts, Zenon DEF create, Inherited, Streams, Stream, OInv
    <3>2. CASE ~create
      BY <1>3, <3>2, LocalEnds, Zenon DEF Streams
    <3>3. QED
      BY <3>1, <3>2, Zenon
  <2>2. n \in Calls /\ process[n] \in Launched => process'[n] \in Launched
    BY LocalProcess, Zenon DEF Launched
  <2>3. pc' = "finish" => op = "fork" /\ streams["startup"].data = "ok" /\ n \in Calls
    <3>1. pc' = "finish" => receive
      BY <1>3, Zenon DEF Local, Outset, Waiting, Ending, prepared, create, create_fails, status_fails, attempt,
                  committed, resume, startup_wait, status_wait, wait, exec_status, finish_fork, publish,
                  abandon, drop, canceled, dropped, confirm_exit, reclaimed, close, Goto, Fail
    <3>2. QED
      BY <3>1, TypeFacts, Zenon DEF receive, Goto, Fail, OInv
  <2>4. QED
    BY <1>1, <2>1, <2>2, <2>3, Zenon DEF OInv, Progress
<1>4. QED
  BY <1>2, <1>3, Zenon

\* A call gives its child up only once that is dead, or never had one.
LEMMA LocalChildless ==
  ASSUME OInv, Local
  PROVE  \A c \in Calls :
           outcome'[c] = "failed" \/ (c = n' /\ outcome'[c] = "none" /\ child' = "none") =>
             process[c] \in Ended
<1> USE DEF rpc, service, kernel, Open
<1>1. /\ IInv /\ n \in 0..MaxCalls /\ MaxCalls \in Nat /\ (pc # "idle" => n \in Calls)
      /\ outcome \in [Calls -> {"none", "pid", "failed"}]
      /\ \A c \in Calls : c > n => process[c] \in Ended
      /\ pc = "cleanup" /\ cleanup.exit => process[n] \in Ended
  BY TypeFacts, Zenon DEF OInv, IInv, Numbered, AbortsTheDead, Ended
<1>2. CASE Outset
  BY <1>2, <1>1, Zenon
       DEF OInv, ChildHeld, Decided, Childless, Outset, prepared, create, create_fails, status_fails,
           attempt, track_child, committed, Committed, Answered, resume, Goto, Fail
<1>3. CASE Waiting
  BY <1>3, <1>1, Zenon
       DEF OInv, ChildHeld, Decided, Childless, Waiting, startup_wait, receive, status_wait, exec_status,
           finish_fork, publish, abandon, wait, Goto, Fail
<1>4. CASE Ending
  BY <1>4, <1>1, Zenon
       DEF OInv, ChildHeld, Decided, Childless, Ending, drop, canceled, Answered, dropped, confirm_exit,
           reclaimed, close, Goto, Fail
<1>5. CASE Begin
  BY <1>5, <1>1 DEF OInv, ChildHeld, Decided, Childless, Begin, begin, Goto
<1>6. QED
  BY <1>2, <1>3, <1>4, <1>5, Zenon DEF Local

LEMMA LocalPublishes ==
  ASSUME OInv, Local
  PROVE  Published'
<1>1. ASSUME NEW c \in Calls, outcome'[c] = "pid"
      PROVE  process[c] \in Launched /\ outcome'[c] # "none" /\ (c = n' /\ op' = "spawn" => revision[c] = 1)
  <2>1. CASE outcome[c] = "pid"
    <3>1. c = n' => n' = n /\ op' = op
      <4>1. CASE Begin
        BY <2>1, <4>1, TypeFacts DEF Begin, begin, OInv, Decided
      <4>2. CASE create
        BY <4>2, Zenon DEF create
      <4>3. CASE ~Begin /\ ~create
        BY <4>3, LocalEnds, Zenon
      <4>4. QED
        BY <4>1, <4>2, <4>3, Zenon
    <3>2. QED
      BY <1>1, <2>1, <3>1, Zenon DEF OInv, Published
  <2>2. CASE c = n /\ pc = "finish"
    <3>1. op' = op
      BY <2>2, LocalEnds, Zenon DEF create, Begin, begin
    <3>2. QED
      BY <1>1, <2>2, <3>1, Zenon DEF OInv, Progress
  <2>3. CASE c = n /\ pc = "publish" /\ revision[n] # 0
    <3>1. revision[c] \in {0, 1}
      BY TypeFacts DEF OInv
    <3>2. QED
      BY <1>1, <2>3, <3>1, Zenon DEF OInv, Progress
  <2>4. QED
    BY <1>1, <2>1, <2>2, <2>3, LocalPublished, Zenon
<1>2. ASSUME NEW c \in Calls, process[c] \in Launched PROVE process'[c] \in Launched
  BY <1>2, LocalProcess, Zenon DEF Launched
<1>3. revision' = revision
  BY LocalProcess, Zenon
<1>4. QED
  BY <1>1, <1>2, <1>3, Zenon DEF Published

\* The cleanup counts a registration as reclaimed when none was tried, or when
\* the service has said so: then no commit is still on its way.
LEMMA LocalReclaimed ==
  ASSUME OInv, Local, pc' = "cleanup", cleanup'.reclaimed
  PROVE  n' = n /\ Unregistrable(n)
<1>1. /\ IInv /\ cleanup \in [exit : BOOLEAN, reclaimed : BOOLEAN]
      /\ outcome \in [Calls -> {"none", "pid", "failed"}] /\ (pc # "idle" => n \in Calls)
  BY TypeFacts, Zenon DEF OInv, IInv, TypeOK
<1>2. CASE Fail /\ pc \in Open \union {"cancel"} /\ child # "none" /\ n' = n
  <2>1. child # "registered"
    BY <1>2, Zenon DEF Fail, Cleanup
  <2>2. n \in Calls /\ outcome[n] = "none"
    BY <1>1, <1>2, Zenon DEF OInv, Decided, Open
  <2>3. QED
    BY <1>2, <2>1, <2>2, Zenon DEF OInv, Unregistered, Unlaunched
<1>3. CASE confirm_exit
  <2>1. cleanup.reclaimed /\ pc = "cleanup" /\ n' = n
    BY <1>1, <1>3, Zenon DEF confirm_exit
  <2>2. QED
    BY <2>1, Zenon DEF OInv, Unregistered
<1>4. CASE reclaimed
  <2>1. reply \in {"ok", "ESRCH"} /\ pc = "cleanup" /\ n' = n
    <3>1. cleanup'.reclaimed = (reply \in {"ok", "ESRCH", "transportESRCH"})
      BY <1>1, <1>4, Zenon DEF reclaimed
    <3>2. QED
      BY <1>4, <3>1, Zenon DEF reclaimed, OInv, AnswersAreCurrent
  <2>2. QED
    BY <2>1, Zenon DEF OInv, AnswersAreCurrent, Unregistrable
<1>5. \/ confirm_exit \/ reclaimed
      \/ Fail /\ pc \in Open \union {"cancel"} /\ child # "none" /\ n' = n
  <2>1. pc \in Open => child # "none"
    BY Zenon DEF OInv, ChildHeld
  <2>2. CASE Outset
    BY <2>1, <2>2, Zenon DEF Outset, prepared, create, create_fails, status_fails, attempt, committed, resume,
                      Goto, Open
  <2>3. CASE Waiting
    BY <2>1, <2>3, Zenon DEF Waiting, startup_wait, receive, status_wait, exec_status, finish_fork, publish,
                      abandon, wait, Goto, Open
  <2>4. CASE Ending
    BY <2>4, Zenon DEF Ending, drop, canceled, dropped, close, Goto
  <2>5. CASE Begin
    BY <2>5, Zenon DEF Begin, begin, Goto
  <2>6. QED
    BY <2>2, <2>3, <2>4, <2>5, Zenon DEF Local
<1>6. QED
  BY <1>2, <1>3, <1>4, <1>5, Zenon

LEMMA LocalKeeps ==
  ASSUME OInv, IInv', Local
  PROVE  OInv'
<1>1. reply' = "none" /\ UNCHANGED <<queue, service>>
  BY LocalFrame, Zenon
<1>2. Asked' = Asked /\ \A c : Unregistrable(c)' <=> Unregistrable(c)
  BY <1>1, Zenon DEF Asked, Unregistrable, service
<1>3. AnswersAreCurrent'
  BY <1>1, Zenon DEF AnswersAreCurrent
<1>4. Unregistered'
  <2>1. \A c \in Calls : Unlaunched(c)' => Unregistrable(c)'
    BY <1>2, LocalUnlaunched, Zenon DEF OInv, Unregistered
  <2>2. ASSUME pc' = "cleanup", cleanup'.reclaimed PROVE Unregistrable(n)'
    <3>1. n' = n /\ Unregistrable(n)
      BY <2>2, LocalReclaimed, Zenon
    <3>2. QED
      BY <1>1, <1>2, <3>1, Zenon DEF Unregistrable, service
  <2>3. QED
    BY <2>1, <2>2, Zenon DEF Unregistered
<1>5. OnlyFailingAborted'
  <2>1. \A c \in doomed' :
          c \in doomed \/ (c = n /\ pc = "cleanup" /\ pc' = "cleanup" /\ n' = n /\ outcome' = outcome)
    BY DEF Local, Outset, Waiting, Ending, Begin, prepared, create, create_fails, status_fails, attempt,
           committed, resume, startup_wait, status_wait, wait, receive, exec_status, finish_fork, publish,
           abandon, drop, canceled, dropped, confirm_exit, reclaimed, close, begin, kernel
  <2>2. pc = "cleanup" => n \in Calls /\ Failing(n)
    BY TypeFacts, Zenon DEF OInv, Decided, Failing
  <2>3. \A c \in doomed' : Failing(c)'
    BY <2>1, <2>2, LocalFailing, TypeFacts, Zenon DEF OInv, OnlyFailingAborted
  <2>4. \A r \in Asked' : r.op = "abort" => Failing(r.call)'
    BY <1>2, LocalFailing, AskedTypes, Zenon DEF OInv, OnlyFailingAborted, Request
  <2>5. QED
    BY <2>3, <2>4, Zenon DEF OnlyFailingAborted
<1>6. Childless'
  <2>1. ASSUME NEW c \in Calls,
               outcome'[c] = "failed" \/ (c = n' /\ outcome'[c] = "none" /\ child' = "none")
        PROVE  process'[c] \in Ended
    <3>1. process[c] \in Ended
      BY <2>1, LocalChildless, Zenon
    <3>2. process'[c] = process[c]
      BY <2>1, LocalProcess, Zenon
    <3>3. QED
      BY <3>1, <3>2, Zenon
  <2>2. QED
    BY <2>1, Zenon DEF Childless
<1>7. Published'
  BY LocalPublishes, Zenon
<1>8. QED
  BY <1>3, <1>4, <1>5, <1>6, <1>7, LocalTokens, LocalChild, LocalDecided, LocalStreams, LocalProgress,
     LocalStays, Zenon
     DEF OInv

-----------------------------------------------------------------------------
LEMMA InitOInv == Init => OInv
<1> SUFFICES ASSUME Init PROVE OInv
  BY Zenon
<1>1. IInv /\ Asked = {}
  BY InitIInv DEF Init, Asked
<1>2. AnswersAreCurrent /\ TokensHeld /\ ChildHeld /\ Decided /\ Progress
  BY CallsAssumption
       DEF Init, AnswersAreCurrent, TokensHeld, ChildHeld, Decided, Progress, Open, NoStreams, Closed,
           Streams
<1>3. StreamsHeld
  BY Zenon DEF Init, StreamsHeld, NoStreams, Closed, Streams
<1>4. Unregistered /\ Childless /\ OnlyFailingAborted /\ StaysRegistered /\ Published
  BY <1>1, Zenon
       DEF Init, Unregistered, Unregistrable, Childless, Ended, OnlyFailingAborted, StaysRegistered,
           Registered, Published
<1>5. QED
  BY <1>1, <1>2, <1>3, <1>4, Zenon DEF OInv

LEMMA StepOInv ==
  ASSUME ~TransportEsrch, OInv, [Next]_vars
  PROVE  OInv'
<1>1. IInv /\ IInv'
  BY StepIInv, Zenon DEF OInv
<1>2. CASE Local
  BY <1>1, <1>2, LocalKeeps, Zenon
<1>3. CASE prepare_fork \/ commit_fork \/ cancel_fork \/ abort_launched_child
  BY <1>1, <1>3, CallKeeps, Zenon DEF prepare_fork, commit_fork, cancel_fork, abort_launched_child
<1>4. CASE \E answered \in BOOLEAN : Serve(answered)
  BY <1>4, ServeKeeps, Zenon
<1>5. CASE TransportFails
  BY <1>5, LossKeeps, Zenon
<1>6. CASE \E c \in Calls : Child(c) \/ die(c)
  BY <1>1, <1>6, ChildStepKeeps, DieKeeps, Zenon
<1>7. CASE UNCHANGED vars
  <2>1. UNCHANGED <<n, op, pc, token, child, cleanup, handle, outcome, reply, queue, tokens, registered,
                    unanswered, process, revision, doomed, streams>>
    BY <1>7, Zenon DEF vars, parent, rpc, service, kernel
  <2>2. AnswersAreCurrent' /\ TokensHeld' /\ ChildHeld' /\ Decided' /\ StreamsHeld' /\ Progress'
    BY <2>1 DEF OInv, AnswersAreCurrent, Asked, TokensHeld, ChildHeld, Decided, StreamsHeld, Progress
  <2>3. Unregistered' /\ Childless' /\ OnlyFailingAborted' /\ StaysRegistered' /\ Published'
    BY <2>1 DEF OInv, Unregistered, Unregistrable, Unlaunched, Asked, Childless, OnlyFailingAborted,
                Failing, StaysRegistered, Published
  <2>4. QED
    BY <1>1, <2>2, <2>3, Zenon DEF OInv
<1>8. QED
  BY <1>2, <1>3, <1>4, <1>5, <1>6, <1>7, Zenon DEF Next, Parent, Local, Outset, Waiting, Ending, Begin

LEMMA OInvOutcome == OInv => OutcomeIsTrue
<1> SUFFICES ASSUME OInv PROVE OutcomeIsTrue
  BY Zenon
<1>1. ASSUME NEW c \in Calls, outcome[c] # "none", c = n => pc = "idle"
      PROVE  NothingHeld(c)
  <2>1. c \notin handle
    BY <1>1, Zenon DEF OInv, ChildHeld
  <2>2. c \in tokens => c \in unanswered
    BY <1>1, Zenon DEF OInv, TokensHeld
  <2>3. ASSUME NEW s \in Streams, c = n PROVE streams[s].ends = {}
    <3>1. streams[s].ends \cap {"pr", "pw"} = {}
      BY <1>1, <2>3, Zenon DEF OInv, StreamsHeld
    <3>2. process[n] \in {"none", "running", "exited"}
      BY <1>1, <2>3, TypeFacts, Zenon DEF OInv, Childless, Published, Ended, Launched
    <3>3. streams[s].ends \cap {"cr", "cw"} = {}
      BY <1>1, <2>3, <3>2, Zenon DEF OInv, StreamsHeld
    <3>4. streams[s].ends \subseteq {"pr", "pw", "cr", "cw"}
      BY TypeFacts, Zenon DEF OInv, Stream
    <3>5. QED
      BY <3>1, <3>3, <3>4, Zenon
  <2>4. QED
    BY <2>1, <2>2, <2>3, Zenon DEF NothingHeld
<1>2. FailureLeavesNothing
  <2>1. ASSUME NEW c \in Calls, outcome[c] = "failed"
        PROVE  ~Alive(c) /\ c \notin registered /\ [op |-> "commit", call |-> c] \notin Asked
    BY <2>1, Zenon DEF OInv, Childless, Ended, Alive, Unregistered, Unlaunched, Unregistrable
  <2>2. QED
    BY <1>1, <2>1, Zenon DEF FailureLeavesNothing, Asked
<1>3. PidIsAChild
  <2>1. ASSUME NEW c \in Calls, outcome[c] = "pid"
        PROVE  /\ c \in registered /\ c \notin doomed
               /\ process[c] \in {"running", "exited"}
               /\ c = n /\ op = "spawn" => revision[c] = 1
    BY <2>1, Zenon DEF OInv, StaysRegistered, OnlyFailingAborted, Failing, Published, Launched
  <2>2. QED
    BY <1>1, <2>1, Zenon DEF PidIsAChild
<1>4. QED
  BY <1>2, <1>3, Zenon DEF OutcomeIsTrue

\* What fork and posix_spawn report is true for every number of calls and every
\* queue bound, whatever requests and replies are lost, unless the transport's
\* own ESRCH passes for the service's: a failure leaves no child, registration,
\* handle, stream or preparation (cleanup_failed_child, the drops of Resources
\* and Preparation), a PID is a registered child as promised (finish_fork,
\* spawn_output::publish).
THEOREM ReportedOutcomeIsTrue ==
  ASSUME ~TransportEsrch
  PROVE  Spec => []OutcomeIsTrue
<1>1. OInv /\ [Next]_vars => OInv'
  BY StepOInv, Zenon
<1>2. QED
  BY InitOInv, OInvOutcome, <1>1, PTL DEF Spec
=============================================================================
