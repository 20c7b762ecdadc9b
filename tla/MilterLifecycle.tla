-------------------------- MODULE MilterLifecycle ---------------------------
(***************************************************************************)
(* The life of the pmilter process: main (pmilter.c), smfi_main (main.c),  *)
(* the listener (listener.c), the thread that waits for signals (signal.c) *)
(* and, of the pool (worker.c), what depends on whether the milter runs or *)
(* stops.                                                                  *)
(*                                                                         *)
(* main and the listener are one thread, the signal thread another; they   *)
(* share MilterStop, which is read without a lock, the listening socket    *)
(* under L_Mutex, and M_Mutex.  L_Mutex is held while the listener waits   *)
(* for a connection, M_Mutex while mi_stop_milters closes the socket;      *)
(* everything else done under a lock is one step.  A mutex that was        *)
(* destroyed no longer excludes anybody.                                   *)
(*                                                                         *)
(* A connection is in the pool, in a worker's mi_engine, or over.  How the *)
(* pool gives it to a worker is the subject of WorkerPool.                 *)
(***************************************************************************)
EXTENDS Naturals

CONSTANTS
  Connections, \* clients, each of which connects once
  Signals,     \* the signals sent to the process: subset of AllSignals
  Faults,      \* calls that may fail: subset of AllFaults
  MAX_FAILS    \* MAX_FAILS_S, MAX_FAILS_A and MAX_FAILS_T, all the same

\* SIGHUP is handled like SIGTERM.
AllSignals == {"TERM", "INT"}

\* Failures the listener counts: of select or poll, of accept, of malloc and of
\* mi_start_session.
Counted == {"select", "accept", "malloc", "start"}

\* "postconfig" and "master_exit": the script fails; "control", "socket",
\* "controller", "crew": the signal thread, the socket, the controller or the
\* workers cannot be created; "exception": poll reports an error condition of
\* the socket; "sigwait" and "poll": the signal thread's sigwait, the
\* controller's poll fail until the thread gives up.
AllFaults == (Counted \ {"start"}) \cup
  {"postconfig", "master_exit", "control", "socket", "controller", "crew",
   "exception", "sigwait", "poll"}

CONT == 0
STOP == 1
ABRT == 2

ASSUME LifecycleAssumption ==
  /\ Signals \subseteq AllSignals
  /\ Faults \subseteq AllFaults
  /\ MAX_FAILS \in Nat \ {0}

VARIABLES
  pc,           \* where main is
  ret,          \* mi_listener's ret
  fails,        \* scnt, acnt, mcnt and tcnt
  client,       \* the connection accepted last
  signal,       \* where the signal thread is
  asked,        \* the signal it received, or "none"
  MilterStop,
  listenfd,     \* "none", "open", "closed"
  closes,       \* history: how often the socket was closed
  L_Mutex,      \* "free", "main" or "destroyed"
  M_Mutex,      \* "free", "main", "signal" or "destroyed"
  controller,   \* "none", "runs", "sweeps", "closes" (a session) or "gone"
  tm_signature, \* tm_signature = TM_SIGNATURE
  conn,         \* where each connection is
  late,         \* history: sessions started although MilterStop was set
  config        \* "live" or "freed"

mainVars == <<pc, ret, fails, client>>
signalVars == <<signal, asked>>
lockVars == <<MilterStop, listenfd, closes, L_Mutex, M_Mutex>>
poolVars == <<controller, tm_signature, conn, late>>
vars == <<pc, ret, fails, client, signal, asked, MilterStop, listenfd, closes,
          L_Mutex, M_Mutex, controller, tm_signature, conn, late, config>>

MainPlaces == {"postconfig", "control", "socket", "controller", "crew", "check", "lock",
               "select", "start", "add", "stop", "stopping", "closing", "destroy",
               "master_exit", "cleanup", "exit", "exited"}

Init ==
  /\ pc = "postconfig"
  /\ ret = "SUCCESS"
  /\ fails = [k \in Counted |-> 0]
  /\ client = "none"
  /\ signal = "none"
  /\ asked = "none"
  /\ MilterStop = CONT
  /\ listenfd = "none"
  /\ closes = 0
  /\ L_Mutex = "free"
  /\ M_Mutex = "free"
  /\ controller = "none"
  /\ tm_signature = FALSE
  /\ conn = [c \in Connections |-> "absent"]
  /\ late = 0
  /\ config = "live"

Alive == pc # "exited"

mi_stop == MilterStop

\* The pool's mutex is with the controller, which holds it while it looks for
\* old connections.
TaskmgrLocked == controller \in {"sweeps", "closes"}

-----------------------------------------------------------------------------
(* main and smfi_main up to the listener's loop *)

\* pmilter_postconfig_handler_run: exit(EX_SOFTWARE) when the script fails.
Postconfig ==
  /\ pc = "postconfig"
  /\ pc' \in {"control"} \cup {x \in {"exit"} : "postconfig" \in Faults}
  /\ UNCHANGED <<ret, fails, client, signalVars, lockVars, poolVars, config>>

\* mi_control_startup
Control ==
  /\ pc = "control"
  /\ \/ pc' = "socket" /\ signal' = "sigwait" /\ UNCHANGED ret
     \/ /\ "control" \in Faults
        /\ pc' = "master_exit" /\ ret' = "FAILURE" /\ UNCHANGED signal
  /\ UNCHANGED <<fails, client, asked, lockVars, poolVars, config>>

mi_opensocket ==
  /\ pc = "socket"
  /\ \/ pc' = "controller" /\ listenfd' = "open" /\ UNCHANGED ret
     \/ /\ "socket" \in Faults
        /\ pc' = "master_exit" /\ ret' = "FAILURE" /\ UNCHANGED listenfd
  /\ UNCHANGED <<fails, client, signalVars, MilterStop, closes, L_Mutex, M_Mutex, poolVars,
                 config>>

\* mi_pool_controller_init: the controller is created, and runs, before
\* tm_signature is set.  A failure leaves the socket open.
PoolController ==
  /\ pc = "controller"
  /\ \/ pc' = "crew" /\ controller' = "runs" /\ UNCHANGED ret
     \/ /\ "controller" \in Faults
        /\ pc' = "master_exit" /\ ret' = "FAILURE" /\ UNCHANGED controller
  /\ UNCHANGED <<fails, client, signalVars, lockVars, tm_signature, conn, late, config>>

Crew ==
  /\ pc = "crew"
  /\ tm_signature' = TRUE
  /\ \/ pc' = "check" /\ UNCHANGED ret
     \/ "crew" \in Faults /\ pc' = "master_exit" /\ ret' = "FAILURE"
  /\ UNCHANGED <<fails, client, signalVars, lockVars, controller, conn, late, config>>

-----------------------------------------------------------------------------
(* The loop of mi_listener *)

\* Fault: the loop does not look at MilterStop.
Check_Not ==
  /\ pc = "check"
  /\ pc' = "lock"
  /\ UNCHANGED <<ret, fails, client, signalVars, lockVars, poolVars, config>>

Check ==
  /\ pc = "check"
  /\ pc' = IF mi_stop = CONT THEN "lock" ELSE "closing"
  /\ UNCHANGED <<ret, fails, client, signalVars, lockVars, poolVars, config>>

\* Fault: the descriptor is not looked at again once the mutex is there.
Lock_Unchecked ==
  /\ pc = "lock"
  /\ pc' = "select" /\ L_Mutex' = "main"
  /\ UNCHANGED <<ret, fails, client, signalVars, MilterStop, listenfd, closes, M_Mutex,
                 poolVars, config>>

\* Fault: L_Mutex is kept when the descriptor is no longer valid.
Lock_Kept ==
  /\ pc = "lock"
  /\ \/ listenfd = "open" /\ pc' = "select" /\ UNCHANGED ret
     \/ listenfd # "open" /\ pc' = "stop" /\ ret' = "FAILURE"
  /\ L_Mutex' = "main"
  /\ UNCHANGED <<fails, client, signalVars, MilterStop, listenfd, closes, M_Mutex,
                 poolVars, config>>

\* Under L_Mutex: a descriptor that is no longer valid ends the listener.
Lock ==
  /\ pc = "lock"
  /\ \/ listenfd = "open" /\ pc' = "select" /\ L_Mutex' = "main" /\ UNCHANGED ret
     \/ /\ listenfd # "open"
        /\ pc' = "stop" /\ ret' = "FAILURE" /\ UNCHANGED L_Mutex
  /\ UNCHANGED <<fails, client, signalVars, MilterStop, listenfd, closes, M_Mutex,
                 poolVars, config>>

\* Fault: one failure more is tolerated.
Failed_More(k, f) ==
  /\ fails' = [f EXCEPT ![k] = @ + 1]
  /\ IF f[k] + 1 > MAX_FAILS
     THEN pc' = "stop" /\ ret' = "FAILURE"
     ELSE pc' = "check" /\ UNCHANGED ret

\* A counted failure: try again, or give up at the MAX_FAILSth.
Failed(k, f) ==
  /\ fails' = [f EXCEPT ![k] = @ + 1]
  /\ IF f[k] + 1 >= MAX_FAILS
     THEN pc' = "stop" /\ ret' = "FAILURE"
     ELSE pc' = "check" /\ UNCHANGED ret

\* The wait for a connection ends, and so does what is done under L_Mutex:
\* nothing happened (a time-out, EINTR, or an accept that may be tried again);
\* select failed; it reports an error condition; accept or malloc failed; or
\* there is a connection.
Select ==
  /\ pc = "select"
  /\ L_Mutex' = "free"
  /\ \/ /\ pc' = "check"
        /\ fails' \in {fails, [fails EXCEPT !["select"] = 0]}
        /\ UNCHANGED <<ret, client>>
     \/ /\ "select" \in Faults
        /\ Failed("select", fails)
        /\ UNCHANGED client
     \/ /\ "exception" \in Faults
        /\ pc' = "stop" /\ ret' = "FAILURE"
        /\ UNCHANGED <<fails, client>>
     \/ /\ "accept" \in Faults
        /\ Failed("accept", [fails EXCEPT !["select"] = 0])
        /\ UNCHANGED client
     \/ /\ "malloc" \in Faults
        /\ Failed("malloc", [fails EXCEPT !["select"] = 0, !["accept"] = 0])
        /\ UNCHANGED client
     \/ \E c \in Connections :
          /\ conn[c] = "absent"
          /\ client' = c
          /\ fails' = [fails EXCEPT !["select"] = 0, !["accept"] = 0, !["malloc"] = 0]
          /\ pc' = "start"
          /\ UNCHANGED ret
  /\ UNCHANGED <<signalVars, MilterStop, listenfd, closes, M_Mutex, poolVars, config>>

\* mi_start_session looks at tm_signature without the pool's mutex; on failure
\* the listener closes the connection.
StartSession ==
  /\ pc = "start"
  /\ \/ /\ tm_signature
        /\ pc' = "add"
        /\ UNCHANGED <<ret, fails, client, conn>>
     \/ /\ ~tm_signature
        /\ Failed("start", fails)
        /\ client' = "none"
        /\ conn' = [conn EXCEPT ![client] = "over"]
  /\ UNCHANGED <<signalVars, lockVars, controller, tm_signature, late, config>>

\* With the mutex it adds the session to the list and gives it to a worker.
AddSession ==
  /\ pc = "add"
  /\ ~TaskmgrLocked
  /\ conn' = [conn EXCEPT ![client] = "pool"]
  /\ client' = "none"
  /\ late' = IF MilterStop = CONT THEN late ELSE late + 1
  /\ fails' = [fails EXCEPT !["start"] = 0]
  /\ pc' = "check"
  /\ UNCHANGED <<ret, signalVars, lockVars, controller, tm_signature, config>>

-----------------------------------------------------------------------------
(* Stopping *)

\* Fault: the descriptor keeps its number.
mi_closener_Kept ==
  /\ L_Mutex \in {"free", "destroyed"}
  /\ closes' = IF listenfd = "open" THEN closes + 1 ELSE closes
  /\ UNCHANGED listenfd

mi_closener ==
  /\ L_Mutex \in {"free", "destroyed"}
  /\ IF listenfd = "open"
     THEN listenfd' = "closed" /\ closes' = closes + 1
     ELSE UNCHANGED <<listenfd, closes>>

\* Fault: the value is set whatever it was.
Raise_Set(v) == MilterStop' = v

\* mi_stop_milters under M_Mutex, before it closes the socket
Raise(v) == MilterStop' = IF MilterStop < v THEN v ELSE MilterStop

\* mi_listener gives up: mi_stop_milters(MILTER_ABRT), in two steps.
StopAbort ==
  /\ pc = "stop"
  /\ M_Mutex = "free"
  /\ Raise(ABRT)
  /\ M_Mutex' = "main"
  /\ pc' = "stopping"
  /\ UNCHANGED <<ret, fails, client, signalVars, listenfd, closes, L_Mutex, poolVars, config>>

StopCloses ==
  /\ pc = "stopping"
  /\ mi_closener
  /\ M_Mutex' = "free"
  /\ pc' = "destroy"
  /\ UNCHANGED <<ret, fails, client, signalVars, MilterStop, L_Mutex, poolVars, config>>

\* mi_listener was told to stop.
CloseListener ==
  /\ pc = "closing"
  /\ mi_closener
  /\ pc' = "destroy"
  /\ UNCHANGED <<ret, fails, client, signalVars, MilterStop, L_Mutex, M_Mutex, poolVars, config>>

DestroyMutex ==
  /\ pc = "destroy"
  /\ L_Mutex' = "destroyed"
  /\ pc' = "master_exit"
  /\ UNCHANGED <<ret, fails, client, signalVars, MilterStop, listenfd, closes, M_Mutex,
                 poolVars, config>>

\* pmilter_master_exit_handler_run, which exits when the script fails.
MasterExit ==
  /\ pc = "master_exit"
  /\ pc' \in {"cleanup"} \cup {x \in {"exit"} : "master_exit" \in Faults}
  /\ UNCHANGED <<ret, fails, client, signalVars, lockVars, poolVars, config>>

Cleanup ==
  /\ pc = "cleanup"
  /\ config' = "freed"
  /\ pc' = "exit"
  /\ UNCHANGED <<ret, fails, client, signalVars, lockVars, poolVars>>

\* exit runs mi_clean_signals and ends every thread.
Exit ==
  /\ pc = "exit"
  /\ M_Mutex' = "destroyed"
  /\ pc' = "exited"
  /\ UNCHANGED <<ret, fails, client, signalVars, MilterStop, listenfd, closes, L_Mutex,
                 poolVars, config>>

MainNext ==
  \/ Postconfig \/ Control \/ mi_opensocket \/ PoolController \/ Crew
  \/ Check \/ Lock \/ Select \/ StartSession \/ AddSession
  \/ StopAbort \/ StopCloses \/ CloseListener \/ DestroyMutex
  \/ MasterExit \/ Cleanup \/ Exit

-----------------------------------------------------------------------------
(* mi_signal_thread *)

\* Nobody has to send a signal.
Sigwait ==
  /\ Alive
  /\ signal = "sigwait"
  /\ asked' \in Signals \cup {x \in {"error"} : "sigwait" \in Faults}
  /\ signal' = "stop"
  /\ UNCHANGED <<mainVars, lockVars, poolVars, config>>

SignalStops ==
  /\ Alive
  /\ signal = "stop"
  /\ M_Mutex = "free"
  /\ Raise(IF asked = "TERM" THEN STOP ELSE ABRT)
  /\ M_Mutex' = "signal"
  /\ signal' = "stopping"
  /\ UNCHANGED <<mainVars, asked, listenfd, closes, L_Mutex, poolVars, config>>

\* Fault: M_Mutex is not released.
SignalCloses_Locked ==
  /\ Alive
  /\ signal = "stopping"
  /\ mi_closener
  /\ signal' = "gone"
  /\ UNCHANGED <<mainVars, asked, MilterStop, L_Mutex, M_Mutex, poolVars, config>>

SignalCloses ==
  /\ Alive
  /\ signal = "stopping"
  /\ mi_closener
  /\ M_Mutex' = "free"
  /\ signal' = "gone"
  /\ UNCHANGED <<mainVars, asked, MilterStop, L_Mutex, poolVars, config>>

SignalNext == SignalStops \/ SignalCloses

-----------------------------------------------------------------------------
(* The pool *)

\* mi_pool_controller leaves its loop: tm_signature is cleared and the pool's
\* mutex destroyed.
ControllerEnds ==
  /\ Alive
  /\ controller = "runs"
  /\ mi_stop # CONT \/ "poll" \in Faults
  /\ tm_signature' = FALSE
  /\ controller' = "gone"
  /\ UNCHANGED <<mainVars, signalVars, lockVars, conn, late, config>>

\* Unless the milter stops, it locks the pool and closes the connections that
\* were idle for too long, then polls.
ControllerLocks ==
  /\ Alive
  /\ controller = "runs"
  /\ mi_stop = CONT
  /\ controller' = "sweeps"
  /\ UNCHANGED <<mainVars, signalVars, lockVars, tm_signature, conn, late, config>>

\* Fault: a connection is closed although a worker runs it.
ControllerCloses_Running(c) ==
  /\ Alive
  /\ controller = "sweeps"
  /\ conn[c] \in {"pool", "engine"}
  /\ conn' = [conn EXCEPT ![c] = "closing"]
  /\ controller' = "closes"
  /\ UNCHANGED <<mainVars, signalVars, lockVars, tm_signature, late, config>>

ControllerCloses(c) ==
  /\ Alive
  /\ controller = "sweeps"
  /\ conn[c] = "pool"
  /\ conn' = [conn EXCEPT ![c] = "closing"]
  /\ controller' = "closes"
  /\ UNCHANGED <<mainVars, signalVars, lockVars, tm_signature, late, config>>

ControllerClosed(c) ==
  /\ Alive
  /\ conn[c] = "closing"
  /\ conn' = [conn EXCEPT ![c] = "over"]
  /\ controller' = "sweeps"
  /\ UNCHANGED <<mainVars, signalVars, lockVars, tm_signature, late, config>>

ControllerPolls ==
  /\ Alive
  /\ controller = "sweeps"
  /\ controller' = "runs"
  /\ UNCHANGED <<mainVars, signalVars, lockVars, tm_signature, conn, late, config>>

SweepNext ==
  \/ ControllerPolls
  \/ \E c \in Connections : ControllerCloses(c) \/ ControllerClosed(c)

\* Fault: mi_worker does not look at mi_stop.
WorkerEnters_Always(c) ==
  /\ Alive
  /\ conn[c] = "pool"
  /\ conn' = [conn EXCEPT ![c] = "engine"]
  /\ UNCHANGED <<mainVars, signalVars, lockVars, controller, tm_signature, late, config>>

\* mi_worker has a session, and enters mi_engine unless the milter stops.
WorkerEnters(c) ==
  /\ Alive
  /\ conn[c] = "pool"
  /\ mi_stop = CONT
  /\ conn' = [conn EXCEPT ![c] = "engine"]
  /\ UNCHANGED <<mainVars, signalVars, lockVars, controller, tm_signature, late, config>>

\* mi_engine returns with the session to be continued, or over.
EngineReturns(c) ==
  /\ Alive
  /\ ~TaskmgrLocked
  /\ conn[c] = "engine"
  /\ \/ conn' = [conn EXCEPT ![c] = "over"]
     \/ conn' = [conn EXCEPT ![c] = "pool"]
  /\ UNCHANGED <<mainVars, signalVars, lockVars, controller, tm_signature, late, config>>

PoolNext ==
  \/ ControllerEnds \/ ControllerLocks \/ SweepNext
  \/ \E c \in Connections : WorkerEnters(c) \/ EngineReturns(c)

-----------------------------------------------------------------------------
Next == MainNext \/ Sigwait \/ SignalNext \/ PoolNext

Spec == Init /\ [][Next]_vars

\* Threads are scheduled, the listener's wait is bounded (MI_CHK_TIME), and the
\* close callbacks the controller runs end.  Nothing is assumed of signals,
\* clients or workers.
FairSpec == Spec /\ WF_vars(MainNext) /\ WF_vars(SignalNext) /\ WF_vars(SweepNext)

-----------------------------------------------------------------------------
\* The type of the process's state.
TypeOK ==
  /\ pc \in MainPlaces
  /\ ret \in {"SUCCESS", "FAILURE"}
  /\ fails \in [Counted -> 0..MAX_FAILS]
  /\ client \in Connections \cup {"none"}
  /\ signal \in {"none", "sigwait", "stop", "stopping", "gone"}
  /\ asked \in AllSignals \cup {"none", "error"}
  /\ MilterStop \in {CONT, STOP, ABRT}
  /\ listenfd \in {"none", "open", "closed"}
  /\ closes \in Nat
  /\ L_Mutex \in {"free", "main", "destroyed"}
  /\ M_Mutex \in {"free", "main", "signal", "destroyed"}
  /\ controller \in {"none", "runs", "sweeps", "closes", "gone"}
  /\ tm_signature \in BOOLEAN
  /\ conn \in [Connections -> {"absent", "pool", "engine", "closing", "over"}]
  /\ late \in Nat
  /\ config \in {"live", "freed"}

\* The listener waits on and accepts from an open socket only, although the
\* signal thread closes it at any time: never from a descriptor that is closed,
\* and may by then be something else (listener.c, under L_Mutex).
SelectsOpen == pc = "select" => listenfd = "open"

\* The socket is closed once, whoever stops the milter, the listener, the signal
\* thread or both at the same time, and it is closed when the listener is done
\* (mi_closener is called by both, the second time after L_Mutex is gone).
ClosedOnce ==
  /\ closes <= 1
  /\ pc = "destroy" => listenfd = "closed"

\* After the milter was told to stop at most the one connection is started that
\* the listener was about to accept (the check of mi_stop in mi_listener).
OneLate == late <= 1

\* What mi_stop_milters was called for so far: by a listener that gives up, and
\* by the signal thread.
GaveUp ==
  ret = "FAILURE" /\ (pc \in {"stopping", "destroy"} \/ L_Mutex = "destroyed")

Signalled == signal \in {"stopping", "gone"}

Requests ==
  {v \in {ABRT} : GaveUp} \cup {v \in {IF asked = "TERM" THEN STOP ELSE ABRT} : Signalled}

\* The milter stops for as strong a reason as anybody gave, and for none that
\* nobody gave: however a listener that gives up and a signal come together,
\* neither weakens nor undoes what the other asked for (mi_stop_milters).
StrongestStop ==
  /\ MilterStop \in Requests \cup {CONT}
  /\ \A v \in Requests : v <= MilterStop

\* No worker takes up a session after main has freed the configuration its
\* callbacks use: the check of mi_stop in mi_worker.  What was begun before may
\* still go on, and so may a sweep of the controller.
NoRunAfterFree ==
  [][config = "freed" =>
       \A c \in Connections : conn'[c] = "engine" => conn[c] = "engine"]_vars

\* A signal ends the process, whatever the listener and the pool are doing and
\* whatever else fails: no deadlock of M_Mutex, L_Mutex and the pool's mutex, no
\* endless loop.
StopHonoured == asked # "none" ~> pc = "exited"

\* Who waits for a mutex that is not free.
MainWaits ==
  \/ pc = "stop" /\ M_Mutex # "free"
  \/ pc \in {"stopping", "closing"} /\ L_Mutex = "main"
  \/ pc = "add" /\ TaskmgrLocked

SignalWaits ==
  \/ signal = "stop" /\ M_Mutex # "free"
  \/ signal = "stopping" /\ L_Mutex = "main"

\* The threads never wait for each other in a circle, although mi_stop_milters
\* takes L_Mutex under M_Mutex and the listener, which may call it too, has
\* L_Mutex most of the time: whoever holds what a thread waits for does not wait
\* itself.  The controller's sweep waits for nobody, only for its close callback.
NoLockCycle ==
  Alive =>
    /\ MainWaits => pc = "add" \/ (signal = "stopping" /\ ~SignalWaits)
    /\ SignalWaits => pc \in {"select", "stopping"} /\ ~MainWaits
    /\ controller = "closes" => \E c \in Connections : conn[c] = "closing"

\* The steps main has still to take at most, once the milter stops.
StepsLeft ==
  [postconfig |-> 16, control |-> 15, socket |-> 14, controller |-> 13, crew |-> 12,
   lock |-> 11, select |-> 10, start |-> 9, add |-> 8, check |-> 7, stop |-> 6,
   stopping |-> 5, closing |-> 5, destroy |-> 4, master_exit |-> 3, cleanup |-> 2,
   exit |-> 1, exited |-> 0]

\* Once the milter was told to stop, every step of main is one towards its end:
\* the listener's loop is not entered again, whatever fails or connects
\* (mi_listener, smfi_main, main).
StopAdvances ==
  [][mi_stop # CONT /\ pc' # pc => StepsLeft[pc'] < StepsLeft[pc]]_vars

Life == INSTANCE ConnectionLife WITH place <- conn

\* Each connection has the life of ConnectionLife, also while the milter stops:
\* it is started once, and closed once, by the worker that runs it or by the
\* controller while none does (mi_start_session, mi_worker, mi_pool_controller).
KeepsLife == Life!LifeSpec

\* A milter that was told to exit exits normally (mi_listener's comment on
\* MI_SUCCESS).
ToldToExit == pc = "exited" /\ asked = "TERM" => ret = "SUCCESS"

=============================================================================
