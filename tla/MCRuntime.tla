------------------------------ MODULE MCRuntime ------------------------------
(* Two independent parts, of which a behaviour runs one, chosen at first: the  *)
(* creation, joining and reclamation of threads, and the timers of a process.  *)
EXTENDS Threads

CONSTANTS Parts,   \* the parts that behaviours are about
          Threads, Callbacks, Process, Capacity

VARIABLES part,
          m_pc, frame, book, cursor, values, callbacks, jobs, clocks,
          DISPATCHER, receiver, callback, made, held, armed, pending, known,
          deleted, called, m_menu, m_process, m_exited

timers == <<m_pc, frame, book, cursor, values, callbacks, jobs, clocks,
            DISPATCHER, receiver, callback, made, held, armed, pending, known,
            deleted, called, m_menu, m_process, m_exited>>

-----------------------------------------------------------------------------
\* Two threads are made besides the initial one; a thread is cancelled, one
\* is killed, or one forks.
MCMenus ==
  LET asks(c, x, k, f) == [create |-> c, cancel |-> x, kill |-> k, fork |-> f]
  IN  {asks(2, 1, 0, 0), asks(2, 0, 1, 0), asks(2, 0, 0, 1)}

\* Timers of threads that end and fork, on the clock of the process or of one
\* of two threads that nothing else tells apart; deletions owed; the receiver's
\* start; timers on another thread's clock.
TimerMenus ==
  LET ask(c, d, s, g, f, x) == [create |-> c, delete |-> d, settime |-> s, gettime |-> g,
                                fork |-> f, exit |-> x]
      asks(k, c, of) == [kinds |-> k, clocks |-> c, calls |-> of]
  IN  {asks({"default", "thread"}, {1, Process}, ask(1, 1, 1, 0, 1, 2)),
       asks({"none"}, {Process}, ask(2, 0, 0, 1, 1, 0)),
       asks({"thread"}, {Process}, ask(2, 0, 0, 0, 0, 0)),
       asks({"signal"}, Threads, ask(1, 0, 1, 0, 0, 1))}

Timer == INSTANCE Timers WITH
  Menus <- TimerMenus, pc <- m_pc, menu <- m_menu, process <- m_process, exited <- m_exited

-----------------------------------------------------------------------------
(* The variables of the parts a behaviour does not run are 0; the threads,     *)
(* whose definitions this module extends, stay in one initial state.           *)
TimersOff ==
  /\ m_pc = 0 /\ frame = 0 /\ book = 0 /\ cursor = 0 /\ values = 0
  /\ callbacks = 0 /\ jobs = 0 /\ clocks = 0 /\ DISPATCHER = 0
  /\ receiver = 0 /\ callback = 0 /\ made = 0 /\ held = 0 /\ armed = 0
  /\ pending = 0 /\ known = 0 /\ deleted = 0 /\ called = 0 /\ m_menu = 0
  /\ m_process = 0 /\ m_exited = 0

InitAll ==
  /\ part \in Parts
  /\ Init /\ (part # "threads" => menu.cancel = 1)
  /\ IF part = "timers" THEN Timer!Init ELSE TimersOff

NextAll ==
  \/ part = "threads" /\ Next /\ UNCHANGED <<part, timers>>
  \/ part = "timers" /\ Timer!Next /\ UNCHANGED <<part, vars>>

SpecAll == InitAll /\ [][NextAll]_<<part, vars, timers>>

\* See Timers: no timer the process has learned of is forgotten.
TimersAccounted == part = "timers" => Timer!TimersAccounted

\* See Timers: functions are called for current timers, with their values.
NotificationsCurrent == part = "timers" => Timer!NotificationsCurrent

\* See Timers: the receiver neither keeps the process alive nor ends it early.
LastThreadEndsProcess == part = "timers" => Timer!LastThreadEndsProcess
=============================================================================
