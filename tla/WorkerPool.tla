----------------------------- MODULE WorkerPool -----------------------------
(***************************************************************************)
(* libmilter's pool of worker threads (worker.c).                          *)
(*                                                                         *)
(* The listener hands accepted connections to mi_start_session; a          *)
(* controller thread polls the sessions that wait for a command; workers   *)
(* run mi_engine on the sessions that have one.  All threads share the     *)
(* list of sessions and two counters under one mutex, a condition variable *)
(* wakes idle workers, and a pipe wakes the controller.                    *)
(*                                                                         *)
(* A section of code between TASKMGR_LOCK and TASKMGR_UNLOCK is one step,  *)
(* cut where TASKMGR_COND_WAIT releases the mutex.  Stopping the milter is *)
(* not modelled here.                                                      *)
(***************************************************************************)
EXTENDS Integers, FiniteSets

CONSTANTS
  Sessions,   \* connections the listener accepts, each of them once
  Workers,    \* threads the system lets pmilter create
  min,        \* smfi_setworker's minimum, 0 for the default
  none        \* no session

MIN_WORKERS == 2
MIN_IDLE == 1

min_worker == IF min = 0 THEN MIN_WORKERS ELSE min

ASSUME PoolAssumption ==
  /\ IsFiniteSet(Workers)
  /\ min \in Nat
  /\ min_worker <= Cardinality(Workers)
  /\ none \notin Sessions

VARIABLES
  wstate,      \* ctx_wstate of each session, "absent" when not in the list
  sid,         \* ctx_sid: the order of the list
  id,          \* the next ctx_sid
  readable,    \* sessions whose socket has something to read
  pc,          \* where each thread is; "off" when there is none
  task,        \* the session each worker has, or none
  nb_workers,
  nb_idle,
  pipe,        \* something is in the event pipe
  rebuild_set,
  pfd,         \* sessions in the controller's poll set
  control,     \* where the controller is
  events       \* sessions poll reported that are still to be looked at

sessionVars == <<wstate, sid, id, readable>>
workerVars == <<pc, task, nb_workers, nb_idle>>
controlVars == <<rebuild_set, pfd, control, events>>
vars == <<wstate, sid, id, readable, pc, task, nb_workers, nb_idle, pipe,
          rebuild_set, pfd, control, events>>

SessionStates == {"absent", "READY_TO_RUN", "RUNNING", "READY_TO_WAIT", "WAITING",
                  "CLOSED"}

\* "new": created, not yet counted; "engine": in mi_engine; "look": about to
\* look for a task; "wait": blocked in TASKMGR_COND_WAIT; "woken": past the
\* wait, without the mutex yet.
WorkerPlaces == {"off", "new", "engine", "look", "wait", "woken"}

With(st) == {s \in Sessions : wstate[s] = st}

At(places) == {w \in Workers : pc[w] \in places}

\* mi_pool_controller_init
Init ==
  /\ wstate = [s \in Sessions |-> "absent"]
  /\ sid = [s \in Sessions |-> 0]
  /\ id = 0
  /\ readable = {}
  /\ \E crew \in SUBSET Workers :
       /\ Cardinality(crew) = min_worker
       /\ pc = [w \in Workers |-> IF w \in crew THEN "new" ELSE "off"]
  /\ task = [w \in Workers |-> none]
  /\ nb_workers = 0
  /\ nb_idle = 0
  /\ pipe = FALSE
  /\ rebuild_set = TRUE
  /\ pfd = {}
  /\ control = "prepare"
  /\ events = {}

-----------------------------------------------------------------------------
(***************************************************************************)
(* A session gets a thread: an idle worker is signalled, if nb_idle says   *)
(* there is one, otherwise a new one is created.  A signal wakes one       *)
(* blocked worker, if any is still blocked.  Without a thread to create    *)
(* LAUNCH_WORKER only logs the error.                                      *)
(***************************************************************************)

\* Fault: nobody is woken.
Signal_Lost == UNCHANGED pc

Signal ==
  IF At({"wait"}) = {} THEN UNCHANGED pc
  ELSE \E w \in At({"wait"}) : pc' = [pc EXCEPT ![w] = "woken"]

LAUNCH_WORKER(s) ==
  IF At({"off"}) = {} THEN UNCHANGED <<pc, task>>
  ELSE \E w \in At({"off"}) :
         /\ pc' = [pc EXCEPT ![w] = "new"]
         /\ task' = [task EXCEPT ![w] = s]

GiveThread(s) ==
  \/ /\ nb_idle > 0
     /\ wstate' = [wstate EXCEPT ![s] = "READY_TO_RUN"]
     /\ Signal
     /\ UNCHANGED task
  \/ /\ nb_idle = 0
     /\ wstate' = [wstate EXCEPT ![s] = "RUNNING"]
     /\ LAUNCH_WORKER(s)

mi_start_session(s) ==
  /\ wstate[s] = "absent"
  /\ sid' = [sid EXCEPT ![s] = id]
  /\ id' = id + 1
  /\ GiveThread(s)
  /\ UNCHANGED <<readable, nb_workers, nb_idle, pipe>>
  /\ UNCHANGED controlVars

\* The MTA sends a command, or hangs up.
Input(s) ==
  /\ wstate[s] \notin {"absent", "CLOSED"}
  /\ s \notin readable
  /\ readable' = readable \cup {s}
  /\ UNCHANGED <<wstate, sid, id, pipe>>
  /\ UNCHANGED workerVars
  /\ UNCHANGED controlVars

-----------------------------------------------------------------------------
(* mi_worker *)

Begin(w) ==
  /\ pc[w] = "new"
  /\ nb_workers' = nb_workers + 1
  /\ pc' = [pc EXCEPT ![w] = IF task[w] = none THEN "look" ELSE "engine"]
  /\ UNCHANGED <<task, nb_idle, pipe>>
  /\ UNCHANGED sessionVars
  /\ UNCHANGED controlVars

\* Fault: the controller is not told.
EngineContinues_Quietly(w) ==
  /\ pc[w] = "engine"
  /\ wstate' = [wstate EXCEPT ![task[w]] = "READY_TO_WAIT"]
  /\ readable' = readable \ {task[w]}
  /\ pc' = [pc EXCEPT ![w] = "look"]
  /\ task' = [task EXCEPT ![w] = none]
  /\ UNCHANGED <<sid, id, nb_workers, nb_idle, pipe>>
  /\ UNCHANGED controlVars

\* Fault: the session is still RUNNING.
EngineContinues_Running(w) ==
  /\ pc[w] = "engine"
  /\ readable' = readable \ {task[w]}
  /\ pipe' = TRUE
  /\ pc' = [pc EXCEPT ![w] = "look"]
  /\ task' = [task EXCEPT ![w] = none]
  /\ UNCHANGED <<wstate, sid, id, nb_workers, nb_idle>>
  /\ UNCHANGED controlVars

\* mi_engine has nothing more to read: the session goes back to the
\* controller.
EngineContinues(w) ==
  /\ pc[w] = "engine"
  /\ wstate' = [wstate EXCEPT ![task[w]] = "READY_TO_WAIT"]
  /\ readable' = readable \ {task[w]}
  /\ pipe' = TRUE
  /\ pc' = [pc EXCEPT ![w] = "look"]
  /\ task' = [task EXCEPT ![w] = none]
  /\ UNCHANGED <<sid, id, nb_workers, nb_idle>>
  /\ UNCHANGED controlVars

\* Fault: the context stays in the list, WKST_CLOSING.
EngineEnds_Listed(w) ==
  /\ pc[w] = "engine"
  /\ wstate' = [wstate EXCEPT ![task[w]] = "CLOSING"]
  /\ readable' = readable \ {task[w]}
  /\ pc' = [pc EXCEPT ![w] = "look"]
  /\ task' = [task EXCEPT ![w] = none]
  /\ UNCHANGED <<sid, id, nb_workers, nb_idle, pipe>>
  /\ UNCHANGED controlVars

\* mi_engine ended the session: mi_close_session.
EngineEnds(w) ==
  /\ pc[w] = "engine"
  /\ wstate' = [wstate EXCEPT ![task[w]] = "CLOSED"]
  /\ readable' = readable \ {task[w]}
  /\ pc' = [pc EXCEPT ![w] = "look"]
  /\ task' = [task EXCEPT ![w] = none]
  /\ UNCHANGED <<sid, id, nb_workers, nb_idle, pipe>>
  /\ UNCHANGED controlVars

\* GET_TASK_READY_TO_RUN: the first of the list.
FirstReady(s) ==
  /\ wstate[s] = "READY_TO_RUN"
  /\ \A t \in With("READY_TO_RUN") : sid[s] <= sid[t]

\* Fault: the task taken is still READY_TO_RUN for the next worker.
Take_Unmarked(w, s) ==
  /\ FirstReady(s)
  /\ task' = [task EXCEPT ![w] = s]
  /\ pc' = [pc EXCEPT ![w] = "engine"]
  /\ UNCHANGED wstate

Take(w, s) ==
  /\ FirstReady(s)
  /\ wstate' = [wstate EXCEPT ![s] = "RUNNING"]
  /\ task' = [task EXCEPT ![w] = s]
  /\ pc' = [pc EXCEPT ![w] = "engine"]

LookTakes(w) ==
  /\ pc[w] = "look"
  /\ \E s \in Sessions : Take(w, s)
  /\ UNCHANGED <<sid, id, readable, nb_workers, nb_idle, pipe>>
  /\ UNCHANGED controlVars

\* There are enough threads and enough idle ones: this one ends.
TooMany == nb_workers > min_worker /\ nb_idle > MIN_IDLE

\* Fault: a worker that ends is still counted.
LookQuits_Counted(w) ==
  /\ pc[w] = "look"
  /\ With("READY_TO_RUN") = {}
  /\ TooMany
  /\ pc' = [pc EXCEPT ![w] = "off"]
  /\ UNCHANGED <<task, nb_workers, nb_idle, pipe>>
  /\ UNCHANGED sessionVars
  /\ UNCHANGED controlVars

\* Fault: a worker that finds no task ends, however few there are.
LookQuits_Unchecked(w) ==
  /\ pc[w] = "look"
  /\ With("READY_TO_RUN") = {}
  /\ nb_workers' = nb_workers - 1
  /\ pc' = [pc EXCEPT ![w] = "off"]
  /\ UNCHANGED <<task, nb_idle, pipe>>
  /\ UNCHANGED sessionVars
  /\ UNCHANGED controlVars

LookQuits(w) ==
  /\ pc[w] = "look"
  /\ With("READY_TO_RUN") = {}
  /\ TooMany
  /\ nb_workers' = nb_workers - 1
  /\ pc' = [pc EXCEPT ![w] = "off"]
  /\ UNCHANGED <<task, nb_idle, pipe>>
  /\ UNCHANGED sessionVars
  /\ UNCHANGED controlVars

LookWaits(w) ==
  /\ pc[w] = "look"
  /\ With("READY_TO_RUN") = {}
  /\ ~TooMany
  /\ nb_idle' = nb_idle + 1
  /\ pc' = [pc EXCEPT ![w] = "wait"]
  /\ UNCHANGED <<task, nb_workers, pipe>>
  /\ UNCHANGED sessionVars
  /\ UNCHANGED controlVars

\* COND_TIMEOUT is over.
WaitTimesOut(w) ==
  /\ pc[w] = "wait"
  /\ pc' = [pc EXCEPT ![w] = "woken"]
  /\ UNCHANGED <<task, nb_workers, nb_idle, pipe>>
  /\ UNCHANGED sessionVars
  /\ UNCHANGED controlVars

\* The worker has the mutex again and looks for a task.
Wakes(w) ==
  /\ pc[w] = "woken"
  /\ nb_idle' = nb_idle - 1
  /\ \/ \E s \in Sessions : Take(w, s)
     \/ /\ With("READY_TO_RUN") = {}
        /\ pc' = [pc EXCEPT ![w] = "look"]
        /\ UNCHANGED <<wstate, task>>
  /\ UNCHANGED <<sid, id, readable, nb_workers, pipe>>
  /\ UNCHANGED controlVars

-----------------------------------------------------------------------------
(* mi_pool_controller *)

\* Fault: a session that a worker has is closed, too.
Prepare_Running ==
  /\ control = "prepare"
  /\ \E old \in SUBSET (With("WAITING") \cup With("RUNNING")) :
       LET waiting == (With("WAITING") \ old) \cup With("READY_TO_WAIT")
       IN  /\ wstate' = [s \in Sessions |->
                           IF s \in old THEN "CLOSED"
                           ELSE IF rebuild_set /\ s \in waiting THEN "WAITING"
                           ELSE wstate[s]]
           /\ readable' = readable \ old
           /\ pfd' = IF rebuild_set THEN waiting ELSE pfd
  /\ rebuild_set' = FALSE
  /\ control' = "poll"
  /\ UNCHANGED <<sid, id, pipe, events>>
  /\ UNCHANGED workerVars

\* Sessions that have waited for ctx_timeout seconds are closed, and the poll
\* set is made anew if rebuild_set says so.  If not, nfd (uninitialized in the
\* C code) has the value that is left in its place on the stack.
Prepare ==
  /\ control = "prepare"
  /\ \E old \in SUBSET With("WAITING") :
       LET waiting == (With("WAITING") \ old) \cup With("READY_TO_WAIT")
       IN  /\ wstate' = [s \in Sessions |->
                           IF s \in old THEN "CLOSED"
                           ELSE IF rebuild_set /\ s \in waiting THEN "WAITING"
                           ELSE wstate[s]]
           /\ readable' = readable \ old
           /\ pfd' = IF rebuild_set THEN waiting ELSE pfd
  /\ rebuild_set' = FALSE
  /\ control' = "poll"
  /\ UNCHANGED <<sid, id, pipe, events>>
  /\ UNCHANGED workerVars

\* Descriptors poll reports: readable ones, and those closed since (POLLNVAL).
Reported == {s \in pfd : s \in readable \/ wstate[s] = "CLOSED"}

PollTimesOut ==
  /\ control = "poll"
  /\ ~pipe /\ Reported = {}
  /\ control' = "prepare"
  /\ UNCHANGED <<rebuild_set, pfd, events, pipe>>
  /\ UNCHANGED sessionVars
  /\ UNCHANGED workerVars

\* EINTR, which poll returns only when it has no event to report.
PollInterrupted ==
  /\ control = "poll"
  /\ ~pipe /\ Reported = {}
  /\ rebuild_set' = TRUE
  /\ control' = "prepare"
  /\ UNCHANGED <<pfd, events, pipe>>
  /\ UNCHANGED sessionVars
  /\ UNCHANGED workerVars

\* Fault: the poll set is not made anew after events.
PollReports_Stale ==
  /\ control = "poll"
  /\ pipe \/ Reported # {}
  /\ events' = Reported
  /\ control' = IF pipe THEN "drain" ELSE "dispatch"
  /\ UNCHANGED <<rebuild_set, pfd, pipe>>
  /\ UNCHANGED sessionVars
  /\ UNCHANGED workerVars

PollReports ==
  /\ control = "poll"
  /\ pipe \/ Reported # {}
  /\ rebuild_set' = TRUE
  /\ events' = Reported
  /\ control' = IF pipe THEN "drain" ELSE "dispatch"
  /\ UNCHANGED <<pfd, pipe>>
  /\ UNCHANGED sessionVars
  /\ UNCHANGED workerVars

Drain ==
  /\ control = "drain"
  /\ pipe' = FALSE
  /\ control' = "dispatch"
  /\ UNCHANGED <<rebuild_set, pfd, events>>
  /\ UNCHANGED sessionVars
  /\ UNCHANGED workerVars

Dispatch(s) ==
  /\ control = "dispatch"
  /\ s \in events
  /\ \A t \in events : sid[s] <= sid[t]
  /\ \/ wstate[s] = "WAITING" /\ GiveThread(s)
     \/ wstate[s] # "WAITING" /\ UNCHANGED <<wstate, pc, task>>
  /\ events' = events \ {s}
  /\ UNCHANGED <<sid, id, readable, nb_workers, nb_idle, pipe, rebuild_set, pfd, control>>

DispatchDone ==
  /\ control = "dispatch"
  /\ events = {}
  /\ control' = "prepare"
  /\ UNCHANGED <<rebuild_set, pfd, events, pipe>>
  /\ UNCHANGED sessionVars
  /\ UNCHANGED workerVars

-----------------------------------------------------------------------------
Work(w) ==
  \/ Begin(w)
  \/ EngineContinues(w)
  \/ EngineEnds(w)
  \/ LookTakes(w)
  \/ LookQuits(w)
  \/ LookWaits(w)
  \/ Wakes(w)

Control ==
  \/ Prepare
  \/ PollTimesOut
  \/ PollInterrupted
  \/ PollReports
  \/ Drain
  \/ \E s \in Sessions : Dispatch(s)
  \/ DispatchDone

Next ==
  \/ \E s \in Sessions : mi_start_session(s)
  \/ \E s \in Sessions : Input(s)
  \/ \E w \in Workers : Work(w)
  \/ \E w \in Workers : WaitTimesOut(w)
  \/ Control

Spec == Init /\ [][Next]_vars

\* Every thread is scheduled, and mi_engine comes back from every session.
FairSpec ==
  /\ Spec
  /\ \A w \in Workers : WF_vars(Work(w)) /\ WF_vars(WaitTimesOut(w))
  /\ WF_vars(Control)

-----------------------------------------------------------------------------
\* The type of the pool's state.
TypeOK ==
  /\ wstate \in [Sessions -> SessionStates]
  /\ sid \in [Sessions -> Nat]
  /\ id \in Nat
  /\ readable \subseteq Sessions
  /\ pc \in [Workers -> WorkerPlaces]
  /\ task \in [Workers -> Sessions \cup {none}]
  /\ nb_workers \in Int
  /\ nb_idle \in Int
  /\ pipe \in BOOLEAN
  /\ rebuild_set \in BOOLEAN
  /\ pfd \subseteq Sessions
  /\ control \in {"prepare", "poll", "drain", "dispatch"}
  /\ events \subseteq Sessions

\* No session is forgotten by the controller: one that a worker handed back
\* has a byte in the pipe or a rebuild of the poll set coming, and one that
\* waits is polled.
NoLostWakeup ==
  /\ With("READY_TO_WAIT") # {} => pipe \/ rebuild_set
  /\ With("WAITING") \subseteq pfd

\* A session is run by one thread at a time, and the controller (which closes
\* WAITING sessions and dispatches them) never has one that a worker has.
OneWorkerPerSession ==
  \A w \in Workers : task[w] # none =>
    /\ wstate[task[w]] = "RUNNING"
    /\ \A v \in Workers : task[v] = task[w] => v = w

\* The counters the decisions are made on are right: nb_idle counts the
\* workers in the wait, nb_workers those that have started.
CountersExact ==
  /\ nb_idle = Cardinality(At({"wait", "woken"}))
  /\ nb_workers = Cardinality(At({"engine", "look", "wait", "woken"}))

\* No task waits while every worker sleeps: when a session is ready to run,
\* some worker is awake and will look for it, without waiting for
\* COND_TIMEOUT.
NoSleepOverWork ==
  With("READY_TO_RUN") # {} => At({"new", "engine", "look", "woken"}) # {}

\* The pool never shrinks below the configured minimum.
MinimumKept == Cardinality(Workers \ At({"off"})) >= min_worker

\* A session marked as running is run by a worker.
RunningHasWorker ==
  \A s \in With("RUNNING") : \E w \in Workers : task[w] = s

\* A session comes to be marked as running without a worker in one way only: no
\* thread could be created for it (LAUNCH_WORKER).
StrandedByThread ==
  [][RunningHasWorker /\ At({"off"}) # {} => RunningHasWorker']_vars

InEngine(s) == \E w \in Workers : task[w] = s /\ pc[w] = "engine"

PlaceOf(s) ==
  IF wstate[s] = "absent" THEN "absent"
  ELSE IF wstate[s] = "CLOSED" THEN "over"
  ELSE IF InEngine(s) THEN "engine"
  ELSE "pool"

Life == INSTANCE ConnectionLife
          WITH Connections <- Sessions, place <- [s \in Sessions |-> PlaceOf(s)]

\* The threads give each session the life of ConnectionLife: mi_engine runs it in
\* one thread at a time, the controller closes it only while none does, and a
\* session that is over is never run or closed again (worker.c).
KeepsLife == Life!LifeSpec

\* A session that was given to the idle workers is run, and so is every
\* session that has something to read.
ReadyIsRun ==
  \A s \in Sessions :
    \/ wstate[s] = "READY_TO_RUN"
    \/ wstate[s] \in {"READY_TO_WAIT", "WAITING"} /\ s \in readable
    ~> wstate[s] \in {"RUNNING", "CLOSED"}

=============================================================================
