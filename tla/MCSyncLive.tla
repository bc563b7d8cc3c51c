------------------------------ MODULE MCSyncLive ------------------------------
(* Threads share one synchronisation object: a mutex, a barrier or a once      *)
(* control.  `object` is chosen at first and stays.                            *)
EXTENDS PthreadMutex

CONSTANTS Count, RESET_BOUND, MaxAborts,
          Objects   \* the objects that behaviours are about

VARIABLES object,
          entered, completed, departed, b_initialized, b_pc, ticket, expected,
          entryParked, completionParked,
          once_state, completions, aborts, o_pc, o_parked

barrier == <<entered, completed, departed, b_initialized, b_pc, ticket, expected,
             entryParked, completionParked>>
once == <<once_state, completions, aborts, o_pc, o_parked>>
allvars == <<object, vars, barrier, once>>

Barriers == INSTANCE PthreadBarrier WITH initialized <- b_initialized, pc <- b_pc

Onces == INSTANCE PthreadOnce WITH state <- once_state, pc <- o_pc, parked <- o_parked

InitAll ==
  /\ object \in Objects
  /\ Init /\ Barriers!Init /\ Onces!Init
  /\ object # "mutex" => kind = NORMAL

OnMutex(A) == object = "mutex" /\ A /\ UNCHANGED <<object, barrier, once>>
OnBarrier(A) == object = "barrier" /\ A /\ UNCHANGED <<object, vars, once>>
OnOnce(A) == object = "once" /\ A /\ UNCHANGED <<object, vars, barrier>>

NextAll == OnMutex(Next) \/ OnBarrier(Barriers!Next) \/ OnOnce(Onces!Next)

\* The fairness each of the three modules states for its object.
SpecAll ==
  /\ InitAll /\ [][NextAll]_allvars
  /\ \A t \in Threads :
       /\ WF_allvars(OnMutex(Internal(t))) /\ WF_allvars(OnMutex(unlock(t)))
       /\ WF_allvars(OnBarrier(Barriers!Internal(t)))
       /\ WF_allvars(OnOnce(Onces!Internal(t)))

\* See PthreadBarrier: nobody departs before the round is full.
NoEarlyRelease == Barriers!NoEarlyRelease

\* See PthreadBarrier: a full round ends, an exhausted range is reopened.
RoundsProceed == Barriers!RoundsProceed

\* See PthreadOnce: the routine runs to its end once.
InitializedOnce == Onces!InitializedOnce

\* See PthreadOnce: a call ends unless its thread was canceled.
CallReturns == Onces!CallReturns
=============================================================================
