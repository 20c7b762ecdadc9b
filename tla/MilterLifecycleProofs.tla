----------------------- MODULE MilterLifecycleProofs ------------------------
(***************************************************************************)
(* Proofs about MilterLifecycle, for any number of connections, any set of *)
(* signals and faults and any MAX_FAILS.                                   *)
(***************************************************************************)
EXTENDS MilterLifecycle, TLAPS

\* Where main is before, in and after the listener's loop.
Starting == {"postconfig", "control", "socket", "controller", "crew"}
Looping == {"check", "lock", "select", "start", "add"}
Accepting == {"lock", "select", "start", "add"}
Returned == {"master_exit", "cleanup", "exit", "exited"}

(***************************************************************************)
(* The socket.  L_Mutex is main's exactly while it waits for a connection, *)
(* so nobody closes the socket then; the number of closes is what listenfd *)
(* says.                                                                   *)
(***************************************************************************)
SocketInv ==
  /\ pc \in MainPlaces
  /\ listenfd \in {"none", "open", "closed"}
  /\ closes = IF listenfd = "closed" THEN 1 ELSE 0
  /\ L_Mutex = "main" <=> pc = "select"
  /\ pc \in {"postconfig", "control", "socket"} => listenfd = "none"
  /\ pc = "select" => listenfd = "open"
  /\ pc \in Looping \cup {"controller", "crew", "stop", "stopping", "closing"} =>
       listenfd # "none"
  /\ pc = "destroy" => listenfd = "closed"

\* What mi_closener does to the socket, whoever calls it.
LEMMA CloserCloses ==
  ASSUME SocketInv, mi_closener
  PROVE  /\ listenfd' \in {"none", "open", "closed"}
         /\ closes' = IF listenfd' = "closed" THEN 1 ELSE 0
         /\ IF listenfd = "none" THEN listenfd' = "none" ELSE listenfd' = "closed"
         /\ pc # "select"
  BY DEF SocketInv, mi_closener

\* Every step keeps the socket's invariant.
LEMMA SocketInvStep ==
  ASSUME SocketInv, [Next]_vars
  PROVE  SocketInv'
<1>1. CASE Postconfig \/ Control \/ PoolController \/ Crew
  BY <1>1 DEF SocketInv, Postconfig, Control, PoolController, Crew, lockVars, MainPlaces, Looping
<1>a. CASE mi_opensocket
  <2>1. listenfd' = "open" \/ listenfd' = listenfd
    BY <1>a DEF mi_opensocket
  <2>2. QED
    BY <1>a, <2>1 DEF SocketInv, mi_opensocket, MainPlaces, Looping
<1>2. CASE Check \/ Lock
  BY <1>2 DEF SocketInv, Check, Lock, lockVars, MainPlaces, Looping
<1>3. CASE Select
  <2>1. pc' \in {"check", "stop", "start"} /\ L_Mutex' = "free"
    BY <1>3 DEF Select, Failed
  <2>2. QED
    BY <1>3, <2>1 DEF SocketInv, Select, MainPlaces, Looping
<1>4. CASE StartSession \/ AddSession
  <2>1. pc \in {"start", "add"} /\ pc' \in {"check", "stop", "add"}
    BY <1>4 DEF StartSession, AddSession, Failed
  <2>2. UNCHANGED <<listenfd, closes, L_Mutex>>
    BY <1>4 DEF StartSession, AddSession, lockVars
  <2>3. QED
    BY <2>1, <2>2 DEF SocketInv, MainPlaces, Looping
<1>5. CASE StopCloses \/ CloseListener
  <2>1. mi_closener
    BY <1>5 DEF StopCloses, CloseListener
  <2>2. QED
    BY <1>5, <2>1, CloserCloses DEF SocketInv, StopCloses, CloseListener, MainPlaces, Looping
<1>6. CASE StopAbort \/ DestroyMutex \/ MasterExit \/ Cleanup \/ Exit
  BY <1>6 DEF SocketInv, StopAbort, DestroyMutex, MasterExit, Cleanup, Exit, lockVars,
              MainPlaces, Looping
<1>7. CASE Sigwait \/ SignalStops \/ PoolNext
  BY <1>7 DEF SocketInv, Sigwait, SignalStops, PoolNext, ControllerEnds,
              ControllerLocks, SweepNext, ControllerPolls, ControllerCloses,
              ControllerClosed, WorkerEnters, EngineReturns, mainVars, lockVars
<1>8. CASE SignalCloses
  <2>1. mi_closener
    BY <1>8 DEF SignalCloses
  <2>2. QED
    BY <1>8, <2>1, CloserCloses DEF SocketInv, SignalCloses, mainVars
<1>9. CASE UNCHANGED vars
  BY <1>9 DEF SocketInv, vars
<1>10. QED
  BY <1>1, <1>a, <1>2, <1>3, <1>4, <1>5, <1>6, <1>7, <1>8, <1>9
     DEF Next, MainNext, SignalNext

\* The process starts without a socket.
LEMMA SocketInvInit ==
  Init => SocketInv
  BY DEF Init, SocketInv, MainPlaces, Looping

\* The listener uses the socket only while it is open: mi_closener needs
\* L_Mutex, which the listener has from its check to the accept.
THEOREM SelectsOpenHolds ==
  Spec => []SelectsOpen
<1>1. SocketInv => SelectsOpen
  BY DEF SocketInv, SelectsOpen
<1>2. QED
  BY SocketInvInit, SocketInvStep, <1>1, PTL DEF Spec

\* The socket is closed once, however many threads stop the milter, and is
\* closed when the listener is done.
THEOREM ClosedOnceHolds ==
  Spec => []ClosedOnce
<1>1. SocketInv => ClosedOnce
  BY DEF SocketInv, ClosedOnce
<1>2. QED
  BY SocketInvInit, SocketInvStep, <1>1, PTL DEF Spec

-----------------------------------------------------------------------------
(***************************************************************************)
(* The stop.  Once MilterStop is set the listener goes through its loop to *)
(* the next check only; main leaves the listener only with MilterStop set, *)
(* or without ever having accepted a connection.                           *)
(***************************************************************************)
NoneYet == conn = [c \in Connections |-> "absent"]

StopInv ==
  /\ MilterStop \in {CONT, STOP, ABRT}
  /\ pc \in {"stopping", "closing", "destroy"} => MilterStop # CONT
  /\ pc \in Starting => NoneYet
  /\ pc \in Returned => MilterStop # CONT \/ NoneYet
  /\ config = "freed" => pc \in {"exit", "exited"}

\* MilterStop is only raised.
LEMMA RaiseRaises ==
  ASSUME MilterStop \in {CONT, STOP, ABRT}, NEW v \in {STOP, ABRT}, Raise(v)
  PROVE  /\ MilterStop' \in {STOP, ABRT}
         /\ MilterStop' >= MilterStop
  BY DEF Raise, CONT, STOP, ABRT

\* A pool without connections stays so.
LEMMA PoolKeepsNone ==
  ASSUME NoneYet, PoolNext
  PROVE  NoneYet'
  BY DEF NoneYet, PoolNext, ControllerEnds, ControllerLocks, SweepNext, ControllerPolls,
         ControllerCloses, ControllerClosed, WorkerEnters, EngineReturns

\* Every step keeps the invariant of the stop, and raises MilterStop or leaves it
\* alone.
LEMMA StopInvStep ==
  ASSUME StopInv, [Next]_vars
  PROVE  StopInv' /\ MilterStop' >= MilterStop
<1>t. MilterStop >= MilterStop
  BY DEF StopInv, CONT, STOP, ABRT
<1>1. CASE Postconfig \/ Control \/ mi_opensocket \/ PoolController \/ Crew
  BY <1>t, <1>1 DEF StopInv, NoneYet, Postconfig, Control, mi_opensocket, PoolController, Crew,
                lockVars, poolVars, Starting, Returned
<1>2. CASE Check \/ Lock
  BY <1>t, <1>2 DEF StopInv, NoneYet, Check, Lock, mi_stop, lockVars, poolVars, Starting,
                Returned
<1>3. CASE Select
  <2>1. pc' \in {"check", "stop", "start"}
    BY <1>3 DEF Select, Failed
  <2>2. QED
    BY <1>t, <1>3, <2>1 DEF StopInv, Select, Starting, Returned
<1>4. CASE StartSession \/ AddSession
  <2>1. pc \in {"start", "add"} /\ pc' \in {"check", "stop", "add"}
    BY <1>4 DEF StartSession, AddSession, Failed
  <2>2. UNCHANGED <<MilterStop, config>>
    BY <1>4 DEF StartSession, AddSession, lockVars
  <2>3. QED
    BY <1>t, <2>1, <2>2 DEF StopInv, Starting, Returned
<1>5. CASE StopAbort
  <2>1. MilterStop' \in {STOP, ABRT} /\ MilterStop' >= MilterStop
    BY <1>5, RaiseRaises DEF StopInv, StopAbort
  <2>2. QED
    BY <1>5, <2>1 DEF StopInv, StopAbort, Starting, Returned, CONT, STOP, ABRT
<1>6. CASE StopCloses \/ CloseListener \/ DestroyMutex \/ MasterExit \/ Cleanup \/ Exit
  BY <1>t, <1>6 DEF StopInv, NoneYet, StopCloses, CloseListener, DestroyMutex, MasterExit,
                Cleanup, Exit, lockVars, poolVars, Starting, Returned
<1>7. CASE Sigwait \/ SignalCloses
  BY <1>t, <1>7 DEF StopInv, NoneYet, Sigwait, SignalCloses, mainVars, lockVars, poolVars
<1>8. CASE SignalStops
  <2>1. MilterStop' \in {STOP, ABRT} /\ MilterStop' >= MilterStop
    BY <1>8, RaiseRaises DEF StopInv, SignalStops
  <2>2. QED
    BY <1>8, <2>1 DEF StopInv, NoneYet, SignalStops, mainVars, poolVars, CONT, STOP, ABRT
<1>9. CASE PoolNext
  <2>1. UNCHANGED <<pc, MilterStop, config>>
    BY <1>9 DEF PoolNext, ControllerEnds, ControllerLocks, SweepNext, ControllerPolls,
                ControllerCloses, ControllerClosed, WorkerEnters,
                EngineReturns, mainVars, lockVars
  <2>2. QED
    BY <1>t, <1>9, <2>1, PoolKeepsNone DEF StopInv
<1>10. CASE UNCHANGED vars
  BY <1>t, <1>10 DEF StopInv, NoneYet, vars
<1>11. QED
  BY <1>1, <1>2, <1>3, <1>4, <1>5, <1>6, <1>7, <1>8, <1>9, <1>10
     DEF Next, MainNext, SignalNext

\* The process starts with MilterStop unset and no connections.
LEMMA StopInvInit ==
  Init => StopInv
  BY DEF Init, StopInv, NoneYet, Starting, Returned, CONT, STOP, ABRT

-----------------------------------------------------------------------------
(***************************************************************************)
(* Who asked for the stop.  A listener that gives up has failed by then,   *)
(* one that was told to stop has not, and L_Mutex is destroyed only behind *)
(* them both; nor is there a signal thread before mi_control_startup: so a *)
(* request, once made, stays one.                                          *)
(***************************************************************************)
RequestInv ==
  /\ pc \in Starting \cup Looping \cup {"closing"} => ret = "SUCCESS"
  /\ pc \in {"stop", "stopping"} => ret = "FAILURE"
  /\ L_Mutex = "destroyed" => pc \in Returned
  /\ pc \in {"postconfig", "control"} => signal = "none"

\* The threads of the pool and the signal thread leave the listener alone.
LEMMA OthersKeepRequest ==
  ASSUME Sigwait \/ SignalNext \/ PoolNext
  PROVE  UNCHANGED <<pc, ret, L_Mutex>> /\ (signal = "none" => signal' = "none")
  BY DEF SignalNext, Sigwait, SignalStops, SignalCloses, PoolNext, ControllerEnds,
         ControllerLocks, SweepNext, ControllerPolls, ControllerCloses, ControllerClosed,
         WorkerEnters, EngineReturns, mainVars, lockVars, signalVars

\* Every step keeps RequestInv.
LEMMA RequestInvStep ==
  ASSUME RequestInv, [Next]_vars
  PROVE  RequestInv'
<1> USE DEF RequestInv, Starting, Looping, Returned
<1>1. CASE Postconfig \/ Control \/ mi_opensocket \/ PoolController \/ Crew
  BY <1>1 DEF Postconfig, Control, mi_opensocket, PoolController, Crew, lockVars, signalVars
<1>2. CASE Check \/ Lock
  BY <1>2 DEF Check, Lock, lockVars
<1>3. CASE Select \/ StartSession \/ AddSession
  <2>1. pc \in Looping /\ L_Mutex' \in {L_Mutex, "free"}
    BY <1>3 DEF Select, StartSession, AddSession, lockVars
  <2>2. \/ pc' = "stop" /\ ret' = "FAILURE"
        \/ pc' \in Looping /\ ret' = ret
    BY <1>3 DEF Select, StartSession, AddSession, Failed
  <2>3. QED
    BY <2>1, <2>2
<1>4. CASE StopAbort \/ StopCloses \/ CloseListener
  BY <1>4 DEF StopAbort, StopCloses, CloseListener
<1>5. CASE DestroyMutex \/ MasterExit \/ Cleanup \/ Exit
  BY <1>5 DEF DestroyMutex, MasterExit, Cleanup, Exit, lockVars
<1>6. CASE Sigwait \/ SignalNext \/ PoolNext
  BY <1>6, OthersKeepRequest
<1>7. CASE UNCHANGED vars
  BY <1>7 DEF vars
<1>8. QED
  BY <1>1, <1>2, <1>3, <1>4, <1>5, <1>6, <1>7 DEF Next, MainNext

\* Only the two calls of mi_stop_milters make a request, and nothing undoes one.
LEMMA RequestsStay ==
  ASSUME RequestInv, [Next]_vars, ~StopAbort, ~SignalStops
  PROVE  Requests' = Requests /\ MilterStop' = MilterStop
<1>1. MilterStop' = MilterStop
  BY DEF Next, MainNext, Postconfig, Control, mi_opensocket, PoolController, Crew, Check, Lock,
         Select, StartSession, AddSession, StopCloses, CloseListener, DestroyMutex,
         MasterExit, Cleanup, Exit, Sigwait, SignalNext, SignalCloses, PoolNext,
         ControllerEnds, ControllerLocks, SweepNext, ControllerPolls, ControllerCloses,
         ControllerClosed, WorkerEnters, EngineReturns, lockVars, vars
<1>2. GaveUp' <=> GaveUp
  <2> USE DEF GaveUp, RequestInv, Returned
  <2>1. CASE Postconfig \/ Control \/ mi_opensocket \/ PoolController \/ Crew
    BY <2>1 DEF Postconfig, Control, mi_opensocket, PoolController, Crew, lockVars, Starting
  <2>2. CASE Check \/ Lock
    BY <2>2 DEF Check, Lock, lockVars, Looping
  <2>3. CASE Select \/ StartSession \/ AddSession
    <3>1. pc \in Looping /\ L_Mutex' \in {L_Mutex, "free"}
      BY <2>3 DEF Select, StartSession, AddSession, lockVars, Looping
    <3>2. pc' \in Looping \cup {"stop"}
      BY <2>3 DEF Select, StartSession, AddSession, Failed, Looping
    <3>3. QED
      BY <3>1, <3>2 DEF Looping
  <2>4. CASE StopCloses \/ CloseListener
    BY <2>4 DEF StopCloses, CloseListener
  <2>5. CASE DestroyMutex \/ MasterExit \/ Cleanup \/ Exit
    BY <2>5 DEF DestroyMutex, MasterExit, Cleanup, Exit, lockVars
  <2>6. CASE Sigwait \/ SignalNext \/ PoolNext
    BY <2>6, OthersKeepRequest
  <2>7. CASE UNCHANGED vars
    BY <2>7 DEF vars
  <2>8. QED
    BY <2>1, <2>2, <2>3, <2>4, <2>5, <2>6, <2>7 DEF Next, MainNext
<1>3. (Signalled' <=> Signalled) /\ (Signalled => asked' = asked)
  <2> USE DEF Signalled
  <2>1. CASE Control
    BY <2>1 DEF Control, RequestInv
  <2>2. CASE Sigwait \/ SignalNext
    BY <2>2 DEF Sigwait, SignalNext, SignalCloses
  <2>3. CASE PoolNext \/ UNCHANGED vars
    BY <2>3 DEF PoolNext, ControllerEnds, ControllerLocks, SweepNext, ControllerPolls,
                ControllerCloses, ControllerClosed, WorkerEnters, EngineReturns, signalVars, vars
  <2>4. CASE MainNext /\ ~Control
    BY <2>4 DEF MainNext, Postconfig, mi_opensocket, PoolController, Crew, Check, Lock,
                Select, StartSession, AddSession, StopCloses, CloseListener, DestroyMutex,
                MasterExit, Cleanup, Exit, signalVars
  <2>5. QED
    BY <2>1, <2>2, <2>3, <2>4 DEF Next
<1>4. QED
  BY <1>1, <1>2, <1>3 DEF Requests

\* Every step keeps StrongestStop: what raises MilterStop adds what it raised it for.
LEMMA StrongestStopStep ==
  ASSUME StopInv, RequestInv, StrongestStop, [Next]_vars
  PROVE  StrongestStop'
<1> USE DEF CONT, STOP, ABRT
<1>t. MilterStop \in {CONT, STOP, ABRT}
  BY DEF StopInv
<1>1. CASE StopAbort
  <2>1. MilterStop' = ABRT
    BY <1>1, <1>t DEF StopAbort, Raise
  <2>2. GaveUp' /\ Requests' \subseteq {STOP, ABRT}
    BY <1>1 DEF StopAbort, RequestInv, GaveUp, Requests
  <2>3. ABRT \in Requests'
    BY <2>2 DEF Requests
  <2>4. QED
    BY <2>1, <2>2, <2>3 DEF StrongestStop
<1>2. CASE SignalStops
  <2> DEFINE v == IF asked = "TERM" THEN STOP ELSE ABRT
  <2>1. MilterStop' = IF MilterStop < v THEN v ELSE MilterStop
    BY <1>2 DEF SignalStops, Raise
  <2>2. (GaveUp' <=> GaveUp) /\ ~Signalled /\ Signalled' /\ asked' = asked
    BY <1>2 DEF SignalStops, GaveUp, Signalled, mainVars
  <2>3. Requests' = Requests \cup {v}
    BY <2>2 DEF Requests
  <2>4. v \in {STOP, ABRT}
    OBVIOUS
  <2>5. Requests \subseteq {STOP, ABRT}
    BY DEF Requests
  <2> HIDE DEF v
  <2>6. QED
    BY <1>t, <2>1, <2>3, <2>4, <2>5 DEF StrongestStop
<1>3. CASE ~StopAbort /\ ~SignalStops
  BY <1>3, RequestsStay DEF StrongestStop
<1>4. QED
  BY <1>1, <1>2, <1>3

\* The milter stops for the strongest reason anybody gave, and only for one that
\* somebody gave, in whatever order the signal thread and the listener come.
THEOREM StrongestStopHolds ==
  Spec => []StrongestStop
<1>1. Init => StopInv /\ RequestInv /\ StrongestStop
  BY StopInvInit DEF Init, RequestInv, StrongestStop, Requests, GaveUp, Signalled, Starting,
                     Looping, Returned, CONT, STOP, ABRT
<1>2. StopInv /\ RequestInv /\ StrongestStop /\ [Next]_vars
        => (StopInv /\ RequestInv /\ StrongestStop)'
  BY StopInvStep, RequestInvStep, StrongestStopStep
<1>3. QED
  BY <1>1, <1>2, PTL DEF Spec

-----------------------------------------------------------------------------
(***************************************************************************)
(* The connections: those the listener has accepted are in the table, and  *)
(* none is started after the first check of mi_stop that finds it set.     *)
(***************************************************************************)
ConnPlaces == {"absent", "pool", "engine", "closing", "over"}

ConnInv ==
  /\ conn \in [Connections -> ConnPlaces]
  /\ client \in Connections \cup {"none"}
  /\ late \in 0..1
  /\ late = 1 => MilterStop # CONT /\ pc \notin Accepting \cup Starting

\* What main does to the table.
LEMMA MainConn ==
  ASSUME MainNext, ConnInv
  PROVE  /\ conn' = conn \/ conn' \in {[conn EXCEPT ![client] = "over"],
                                       [conn EXCEPT ![client] = "pool"]}
         /\ client' \in Connections \cup {"none"}
         /\ late' = late \/ (pc = "add" /\ MilterStop # CONT /\ late' = late + 1
                             /\ pc' = "check" /\ MilterStop' = MilterStop)
<1>1. CASE Select \/ StartSession
  BY <1>1 DEF Select, StartSession, ConnInv, poolVars
<1>2. CASE AddSession
  BY <1>2 DEF AddSession, ConnInv, lockVars
<1>3. CASE ~(Select \/ StartSession \/ AddSession)
  BY <1>3 DEF MainNext, Postconfig, Control, mi_opensocket, PoolController, Crew, Check, Lock,
              StopAbort, StopCloses, CloseListener, DestroyMutex, MasterExit, Cleanup, Exit,
              poolVars, ConnInv
<1>4. QED
  BY <1>1, <1>2, <1>3

\* main gets back into the accepting part of the loop only through a check that
\* finds MilterStop unset.
LEMMA MainAccepts ==
  ASSUME MainNext, pc' \in Accepting \cup Starting
  PROVE  pc \in Accepting \cup Starting \/ MilterStop = CONT
<1>1. CASE Check
  BY <1>1 DEF Check, mi_stop, Accepting, Starting
<1>2. CASE Select \/ StartSession \/ AddSession
  BY <1>2 DEF Select, StartSession, AddSession, Accepting
<1>3. CASE ~(Check \/ Select \/ StartSession \/ AddSession)
  BY <1>3 DEF MainNext, Postconfig, Control, mi_opensocket, PoolController, Crew, Lock,
              StopAbort, StopCloses, CloseListener, DestroyMutex, MasterExit, Cleanup, Exit,
              Accepting, Starting
<1>4. QED
  BY <1>1, <1>2, <1>3

\* Every step keeps the invariant of the connections.
LEMMA ConnInvStep ==
  ASSUME StopInv, ConnInv, [Next]_vars
  PROVE  ConnInv'
<1>1. MilterStop # CONT => MilterStop' # CONT
  BY StopInvStep DEF StopInv, CONT, STOP, ABRT
<1>2. CASE MainNext
  <2>1. conn' \in [Connections -> ConnPlaces]
    BY <1>2, MainConn DEF ConnInv, ConnPlaces
  <2>2. CASE late' = late
    BY <1>1, <1>2, <2>1, <2>2, MainConn, MainAccepts DEF ConnInv
  <2>3. CASE late' # late
    <3>1. /\ pc = "add" /\ MilterStop # CONT /\ late' = late + 1
          /\ pc' = "check" /\ MilterStop' = MilterStop
      BY <1>2, <2>3, MainConn
    <3>2. late = 0
      BY <3>1 DEF ConnInv, Accepting
    <3>3. QED
      BY <1>2, <2>1, <3>1, <3>2, MainConn DEF ConnInv, Accepting, Starting
  <2>4. QED
    BY <2>2, <2>3
<1>3. CASE Sigwait \/ SignalNext
  BY <1>1, <1>3 DEF Sigwait, SignalNext, SignalStops, SignalCloses, mainVars, poolVars, ConnInv
<1>4. CASE PoolNext
  <2>1. UNCHANGED <<pc, client, late>>
    BY <1>4 DEF PoolNext, ControllerEnds, ControllerLocks, SweepNext, ControllerPolls,
                ControllerCloses, ControllerClosed, WorkerEnters,
                EngineReturns, mainVars
  <2>2. conn' \in [Connections -> ConnPlaces]
    BY <1>4 DEF PoolNext, ControllerEnds, ControllerLocks, SweepNext, ControllerPolls,
                ControllerCloses, ControllerClosed, WorkerEnters,
                EngineReturns, ConnInv, ConnPlaces
  <2>3. QED
    BY <1>1, <2>1, <2>2 DEF ConnInv
<1>5. CASE UNCHANGED vars
  BY <1>5 DEF vars, ConnInv
<1>6. QED
  BY <1>2, <1>3, <1>4, <1>5 DEF Next

\* The process starts without connections.
LEMMA ConnInvInit ==
  Init => ConnInv
  BY DEF Init, ConnInv, ConnPlaces

\* After the stop at most one more session is started, for any number of clients
\* that try to connect.
THEOREM OneLateHolds ==
  Spec => []OneLate
<1>1. StopInv /\ ConnInv /\ [Next]_vars => (StopInv /\ ConnInv)'
  BY StopInvStep, ConnInvStep
<1>2. ConnInv => OneLate
  BY DEF ConnInv, OneLate
<1>3. QED
  BY StopInvInit, ConnInvInit, <1>1, <1>2, PTL DEF Spec

\* A worker takes up a session only while the milter runs.
LEMMA BeginsOnlyRunning ==
  ASSUME ConnInv, NEW c \in Connections, [Next]_vars, conn'[c] = "engine"
  PROVE  conn[c] = "engine" \/ (MilterStop = CONT /\ conn[c] = "pool")
<1> USE DEF ConnInv
<1>1. CASE MainNext
  BY <1>1, MainConn
<1>2. CASE Sigwait \/ SignalNext
  BY <1>2 DEF Sigwait, SignalNext, SignalStops, SignalCloses, poolVars
<1>3. CASE ControllerEnds \/ ControllerLocks \/ ControllerPolls
  BY <1>3 DEF ControllerEnds, ControllerLocks, ControllerPolls
<1>4. ASSUME NEW d \in Connections,
             ControllerCloses(d) \/ ControllerClosed(d) \/ WorkerEnters(d) \/ EngineReturns(d)
      PROVE  conn[c] = "engine" \/ (MilterStop = CONT /\ conn[c] = "pool")
  BY <1>4 DEF ControllerCloses, ControllerClosed, WorkerEnters, EngineReturns, mi_stop
<1>5. CASE UNCHANGED vars
  BY <1>5 DEF vars
<1>6. QED
  BY <1>1, <1>2, <1>3, <1>4, <1>5 DEF Next, PoolNext, SweepNext

\* No worker takes up a session once main has freed the configuration: by then
\* the milter was told to stop, or has no session.
THEOREM NoRunAfterFreeHolds ==
  Spec => NoRunAfterFree
<1> DEFINE Kept == config = "freed" =>
             \A c \in Connections : conn'[c] = "engine" => conn[c] = "engine"
<1>1. StopInv /\ ConnInv /\ [Next]_vars => (StopInv /\ ConnInv)'
  BY StopInvStep, ConnInvStep
<1>2. ASSUME StopInv, ConnInv, [Next]_vars
      PROVE  Kept
  <2>1. SUFFICES ASSUME config = "freed", NEW c \in Connections, conn'[c] = "engine"
                 PROVE  conn[c] = "engine"
    OBVIOUS
  <2>2. MilterStop # CONT \/ conn[c] = "absent"
    BY <1>2, <2>1 DEF StopInv, NoneYet, Returned
  <2>3. QED
    BY <1>2, <2>1, <2>2, BeginsOnlyRunning
<1>3. StopInv /\ ConnInv /\ [Next]_vars => [Kept]_vars
  BY <1>2
<1>4. QED
  BY StopInvInit, ConnInvInit, <1>1, <1>3, PTL DEF Spec, NoRunAfterFree

-----------------------------------------------------------------------------
(***************************************************************************)
(* The type of the state: the failure counters, which stay below MAX_FAILS *)
(* while the loop goes on, and the places of the threads.                  *)
(***************************************************************************)
FailsInv ==
  /\ fails \in [Counted -> Nat]
  /\ \A k \in Counted : fails[k] <= MAX_FAILS
  /\ pc \in Starting \cup Looping => \A k \in Counted : fails[k] < MAX_FAILS

PlacesInv ==
  /\ ret \in {"SUCCESS", "FAILURE"}
  /\ signal \in {"none", "sigwait", "stop", "stopping", "gone"}
  /\ asked \in AllSignals \cup {"none", "error"}
  /\ L_Mutex \in {"free", "main", "destroyed"}
  /\ M_Mutex \in {"free", "main", "signal", "destroyed"}
  /\ controller \in {"none", "runs", "sweeps", "closes", "gone"}
  /\ config \in {"live", "freed"}

\* A counted failure leaves the loop when it reaches the limit.
LEMMA FailedCounts ==
  ASSUME NEW k \in Counted, NEW f \in [Counted -> Nat],
         \A j \in Counted : f[j] < MAX_FAILS, Failed(k, f)
  PROVE  FailsInv'
<1>1. /\ fails' = [f EXCEPT ![k] = f[k] + 1]
      /\ f[k] + 1 >= MAX_FAILS => pc' = "stop"
  BY DEF Failed
<1>2. f[k] \in Nat /\ f[k] < MAX_FAILS /\ MAX_FAILS \in Nat
  BY LifecycleAssumption
<1>3. \A j \in Counted : fails'[j] = IF j = k THEN f[k] + 1 ELSE f[j]
  BY <1>1
<1>4. fails' \in [Counted -> Nat]
  BY <1>1, <1>2
<1>5. \A j \in Counted : f[j] \in Nat
  OBVIOUS
<1>6. \A j \in Counted : fails'[j] <= MAX_FAILS
  BY <1>2, <1>3, <1>5
<1>7. CASE f[k] + 1 >= MAX_FAILS
  BY <1>1, <1>4, <1>6, <1>7 DEF FailsInv, Starting, Looping
<1>8. CASE f[k] + 1 < MAX_FAILS
  BY <1>2, <1>3, <1>4, <1>5, <1>6, <1>8 DEF FailsInv
<1>9. QED
  BY <1>2, <1>7, <1>8

\* A counter that is reset is below the limit.
LEMMA ResetKeeps ==
  ASSUME NEW f \in [Counted -> Nat], \A j \in Counted : f[j] < MAX_FAILS, NEW k \in Counted
  PROVE  /\ [f EXCEPT ![k] = 0] \in [Counted -> Nat]
         /\ \A j \in Counted : [f EXCEPT ![k] = 0][j] < MAX_FAILS
         /\ \A j \in Counted : [f EXCEPT ![k] = 0][j] <= MAX_FAILS
<1>1. MAX_FAILS \in Nat /\ 0 < MAX_FAILS
  BY LifecycleAssumption
<1> DEFINE g == [f EXCEPT ![k] = 0]
<1>2. g \in [Counted -> Nat]
  OBVIOUS
<1>3. \A j \in Counted : g[j] = IF j = k THEN 0 ELSE f[j]
  OBVIOUS
<1>4. \A j \in Counted : f[j] \in Nat
  OBVIOUS
<1> HIDE DEF g
<1>5. \A j \in Counted : g[j] < MAX_FAILS /\ g[j] <= MAX_FAILS
  BY <1>1, <1>3, <1>4
<1>6. QED
  BY <1>2, <1>5 DEF g

\* Every step keeps the counters within their limit.
LEMMA FailsInvStep ==
  ASSUME SocketInv, FailsInv, [Next]_vars
  PROVE  FailsInv'
<1>0. MAX_FAILS \in Nat /\ 0 < MAX_FAILS
  BY LifecycleAssumption
<1>1. CASE UNCHANGED fails /\ (pc' \in Starting \cup Looping => pc \in Starting \cup Looping)
  BY <1>1 DEF FailsInv
<1>2. CASE Select
  <2>1. pc \in Looping
    BY <1>2 DEF Select, Looping
  <2> DEFINE f1 == [fails EXCEPT !["select"] = 0]
             f2 == [f1 EXCEPT !["accept"] = 0]
             f3 == [f2 EXCEPT !["malloc"] = 0]
  <2>2. \A f \in {fails, f1, f2, f3} :
          f \in [Counted -> Nat] /\ \A j \in Counted : f[j] < MAX_FAILS
    <3>1. fails \in [Counted -> Nat] /\ \A j \in Counted : fails[j] < MAX_FAILS
      BY <2>1 DEF FailsInv
    <3>2. f1 \in [Counted -> Nat] /\ \A j \in Counted : f1[j] < MAX_FAILS
      BY <3>1, ResetKeeps DEF Counted
    <3>3. f2 \in [Counted -> Nat] /\ \A j \in Counted : f2[j] < MAX_FAILS
      BY <3>2, ResetKeeps DEF Counted
    <3>4. f3 \in [Counted -> Nat] /\ \A j \in Counted : f3[j] < MAX_FAILS
      BY <3>3, ResetKeeps DEF Counted
    <3>5. QED
      BY <3>1, <3>2, <3>3, <3>4
  <2>3. \/ fails' \in {fails, f1, f3}
        \/ Failed("select", fails) \/ Failed("accept", f1) \/ Failed("malloc", f2)
    BY <1>2 DEF Select
  <2>4. CASE fails' \in {fails, f1, f3}
    BY <2>2, <2>4, <1>0 DEF FailsInv
  <2>5. QED
    BY <2>2, <2>3, <2>4, FailedCounts DEF Counted
<1>3. CASE StartSession
  <2>1. pc \in Looping
    BY <1>3 DEF StartSession, Looping
  <2>2. UNCHANGED fails \/ Failed("start", fails)
    BY <1>3 DEF StartSession
  <2>3. QED
    BY <2>1, <2>2, FailedCounts DEF FailsInv, Counted
<1>4. CASE AddSession
  <2>1. pc \in Looping
    BY <1>4 DEF AddSession, Looping
  <2>2. fails' = [fails EXCEPT !["start"] = 0]
    BY <1>4 DEF AddSession
  <2>3. QED
    BY <1>0, <2>1, <2>2, ResetKeeps DEF FailsInv, Counted
<1>5. CASE Postconfig \/ Control \/ mi_opensocket \/ PoolController \/ Crew \/ Check \/ Lock
  BY <1>1, <1>5 DEF Postconfig, Control, mi_opensocket, PoolController, Crew, Check, Lock,
                    Starting, Looping
<1>6. CASE StopAbort \/ StopCloses \/ CloseListener \/ DestroyMutex \/ MasterExit \/ Cleanup \/ Exit
  BY <1>1, <1>6 DEF StopAbort, StopCloses, CloseListener, DestroyMutex, MasterExit, Cleanup, Exit,
                    Starting, Looping
<1>7. CASE Sigwait \/ SignalNext \/ PoolNext \/ UNCHANGED vars
  <2>1. UNCHANGED <<pc, fails>>
    BY <1>7 DEF Sigwait, SignalNext, SignalStops, SignalCloses, PoolNext, ControllerEnds,
                ControllerLocks, SweepNext, ControllerPolls, ControllerCloses, ControllerClosed,
                WorkerEnters, EngineReturns, mainVars, vars
  <2>2. QED
    BY <1>1, <2>1
<1>8. QED
  BY <1>2, <1>3, <1>4, <1>5, <1>6, <1>7 DEF Next, MainNext

\* Every step leaves the threads at places they have.
LEMMA PlacesInvStep ==
  ASSUME PlacesInv, [Next]_vars
  PROVE  PlacesInv'
<1>1. CASE Postconfig \/ Control \/ mi_opensocket \/ PoolController \/ Crew \/ Check \/ Lock
  BY <1>1 DEF PlacesInv, Postconfig, Control, mi_opensocket, PoolController, Crew, Check, Lock,
              signalVars, lockVars, poolVars
<1>2. CASE Select \/ StartSession \/ AddSession
  BY <1>2 DEF PlacesInv, Select, StartSession, AddSession, Failed, signalVars, lockVars, poolVars
<1>3. CASE StopAbort \/ StopCloses \/ CloseListener \/ DestroyMutex \/ MasterExit \/ Cleanup \/ Exit
  BY <1>3 DEF PlacesInv, StopAbort, StopCloses, CloseListener, DestroyMutex, MasterExit, Cleanup,
              Exit, signalVars, lockVars, poolVars
<1>4. CASE Sigwait \/ SignalNext
  BY <1>4, LifecycleAssumption
     DEF PlacesInv, Sigwait, SignalNext, SignalStops, SignalCloses, mainVars, lockVars, poolVars
<1>5. CASE PoolNext
  BY <1>5 DEF PlacesInv, PoolNext, ControllerEnds,
              ControllerLocks, SweepNext, ControllerPolls, ControllerCloses, ControllerClosed, WorkerEnters, EngineReturns, mainVars,
              signalVars, lockVars
<1>6. CASE UNCHANGED vars
  BY <1>6 DEF PlacesInv, vars
<1>7. QED
  BY <1>1, <1>2, <1>3, <1>4, <1>5, <1>6 DEF Next, MainNext

\* tm_signature is a flag.
LEMMA SignatureStep ==
  ASSUME tm_signature \in BOOLEAN, [Next]_vars
  PROVE  tm_signature' \in BOOLEAN
<1>1. tm_signature' \in {TRUE, FALSE, tm_signature}
  BY DEF Next, MainNext, Postconfig, Control, mi_opensocket, PoolController, Crew, Check, Lock,
         Select, StartSession, AddSession, StopAbort, StopCloses, CloseListener, DestroyMutex,
         MasterExit, Cleanup, Exit, Sigwait, SignalNext, SignalStops, SignalCloses, PoolNext,
         ControllerEnds, ControllerLocks, SweepNext, ControllerPolls, ControllerCloses,
         ControllerClosed, WorkerEnters, EngineReturns, poolVars, vars
<1>2. QED
  BY <1>1

\* The invariants of the parts make the type.
LEMMA PartsType ==
  ASSUME SocketInv, StopInv, ConnInv, FailsInv, PlacesInv, tm_signature \in BOOLEAN
  PROVE  TypeOK
<1>1. fails \in [Counted -> 0..MAX_FAILS]
  BY LifecycleAssumption DEF FailsInv
<1>2. closes \in Nat /\ late \in Nat
  BY DEF SocketInv, ConnInv
<1>3. QED
  BY <1>1, <1>2 DEF TypeOK, SocketInv, StopInv, ConnInv, ConnPlaces, PlacesInv

\* The state of the process is well typed, and no counter of failures passes its
\* limit, for any MAX_FAILS.
THEOREM LifecycleTypeCorrect ==
  Spec => []TypeOK
<1> DEFINE Inv == /\ SocketInv /\ StopInv /\ ConnInv /\ FailsInv /\ PlacesInv
                  /\ tm_signature \in BOOLEAN
<1>0. Init => FailsInv
  BY LifecycleAssumption DEF Init, FailsInv
<1>1. Init => PlacesInv /\ tm_signature \in BOOLEAN
  BY DEF Init, PlacesInv
<1>2. Init => Inv
  BY <1>0, <1>1, SocketInvInit, StopInvInit, ConnInvInit
<1>3. Inv /\ [Next]_vars => Inv'
  BY SocketInvStep, StopInvStep, ConnInvStep, FailsInvStep, PlacesInvStep, SignatureStep
<1>4. Inv => TypeOK
  BY PartsType
<1>5. QED
  BY <1>2, <1>3, <1>4, PTL DEF Spec

-----------------------------------------------------------------------------
(***************************************************************************)
(* Who has which mutex.  M_Mutex is with the thread that is in the second  *)
(* half of mi_stop_milters; the controller waits for a close callback only *)
(* while it closes a connection; what the listener has accepted is new.    *)
(***************************************************************************)
LockInv ==
  /\ M_Mutex = "main" <=> pc = "stopping"
  /\ M_Mutex = "destroyed" <=> pc = "exited"
  /\ M_Mutex = "signal" => signal = "stopping"
  /\ signal = "stopping" => M_Mutex = "signal" \/ pc = "exited"
  /\ pc \in {"postconfig", "control"} => signal = "none"

ClientInv == pc \in {"start", "add"} => client \in Connections /\ conn[client] = "absent"

ClosingInv == controller = "closes" => \E c \in Connections : conn[c] = "closing"

HeldInv ==
  SocketInv /\ StopInv /\ ConnInv /\ PlacesInv /\ LockInv /\ ClientInv /\ ClosingInv

\* Every step keeps the owners of M_Mutex.
LEMMA LockInvStep ==
  ASSUME LockInv, [Next]_vars
  PROVE  LockInv'
<1> USE DEF LockInv
<1>1. CASE Postconfig \/ Control \/ mi_opensocket \/ PoolController \/ Crew
  <2>1. M_Mutex' = M_Mutex /\ (signal' = signal \/ (pc = "control" /\ signal' = "sigwait"))
    BY <1>1 DEF Postconfig, Control, mi_opensocket, PoolController, Crew, signalVars, lockVars
  <2>2. pc \in Starting /\ pc' \in Starting \cup {"check", "master_exit", "exit"}
    BY <1>1 DEF Postconfig, Control, mi_opensocket, PoolController, Crew, Starting
  <2>3. pc' \notin {"postconfig", "control"} \/ (pc = "postconfig" /\ signal' = signal)
    BY <1>1 DEF Postconfig, Control, mi_opensocket, PoolController, Crew, signalVars
  <2>4. QED
    BY <2>1, <2>2, <2>3 DEF Starting
<1>2. CASE Check \/ Lock \/ Select \/ StartSession \/ AddSession
  <2>1. UNCHANGED <<M_Mutex, signal>>
    BY <1>2 DEF Check, Lock, Select, StartSession, AddSession, signalVars, lockVars
  <2>2. pc \in Looping /\ pc' \in Looping \cup {"stop", "closing"}
    BY <1>2 DEF Check, Lock, Select, StartSession, AddSession, Failed, Looping
  <2>3. QED
    BY <2>1, <2>2 DEF Looping
<1>3. CASE StopAbort \/ StopCloses \/ CloseListener
  BY <1>3 DEF StopAbort, StopCloses, CloseListener, signalVars
<1>4. CASE DestroyMutex \/ MasterExit \/ Cleanup \/ Exit
  BY <1>4 DEF DestroyMutex, MasterExit, Cleanup, Exit, signalVars, lockVars
<1>5. CASE Sigwait \/ SignalNext
  BY <1>5 DEF Sigwait, SignalNext, SignalStops, SignalCloses, Alive, mainVars, lockVars
<1>6. CASE PoolNext \/ UNCHANGED vars
  <2>1. UNCHANGED <<pc, M_Mutex, signal>>
    BY <1>6 DEF PoolNext, ControllerEnds, ControllerLocks, SweepNext, ControllerPolls,
                ControllerCloses, ControllerClosed, WorkerEnters, EngineReturns,
                mainVars, signalVars, lockVars, vars
  <2>2. QED
    BY <2>1
<1>7. QED
  BY <1>1, <1>2, <1>3, <1>4, <1>5, <1>6 DEF Next, MainNext

\* What a step of main does to the connection it has accepted: it puts it into
\* the pool, or closes it.
LEMMA MainMovesClient ==
  ASSUME MainNext
  PROVE  \/ conn' = conn
         \/ /\ pc \in {"start", "add"}
            /\ pc' \notin {"start", "add"}
            /\ \E p \in {"pool", "over"} : conn' = [conn EXCEPT ![client] = p]
<1>1. CASE StartSession
  <2>1. CASE tm_signature
    BY <1>1, <2>1 DEF StartSession
  <2>2. CASE ~tm_signature
    <3>1. pc = "start" /\ Failed("start", fails) /\ conn' = [conn EXCEPT ![client] = "over"]
      BY <1>1, <2>2 DEF StartSession
    <3>2. pc' \in {"check", "stop"}
      BY <3>1 DEF Failed
    <3>3. QED
      BY <3>1, <3>2
  <2>3. QED
    BY <2>1, <2>2
<1>2. CASE AddSession
  BY <1>2 DEF AddSession
<1>3. CASE ~(StartSession \/ AddSession)
  BY <1>3 DEF MainNext, Postconfig, Control, mi_opensocket, PoolController, Crew, Check, Lock,
              Select, StopAbort, StopCloses, CloseListener, DestroyMutex, MasterExit, Cleanup,
              Exit, poolVars
<1>4. QED
  BY <1>1, <1>2, <1>3

\* main has an accepted connection only since Select chose a new one.
LEMMA MainClient ==
  ASSUME MainNext, ClientInv, pc' \in {"start", "add"}
  PROVE  client' \in Connections /\ conn[client'] = "absent" /\ conn' = conn
<1>1. CASE Select
  BY <1>1 DEF Select, Failed, poolVars
<1>2. CASE StartSession
  <2>1. CASE tm_signature
    BY <1>2, <2>1 DEF StartSession, ClientInv
  <2>2. CASE ~tm_signature
    BY <1>2, <2>2 DEF StartSession, Failed
  <2>3. QED
    BY <2>1, <2>2
<1>3. CASE ~(Select \/ StartSession)
  BY <1>3 DEF MainNext, Postconfig, Control, mi_opensocket, PoolController, Crew, Check, Lock,
              AddSession, StopAbort, StopCloses, CloseListener, DestroyMutex, MasterExit, Cleanup,
              Exit
<1>4. QED
  BY <1>1, <1>2, <1>3

\* What a step of the pool does to a connection.
LEMMA PoolMoves ==
  ASSUME PoolNext
  PROVE  \/ conn' = conn /\ controller' # "closes"
         \/ \E c \in Connections :
              \/ conn[c] = "pool" /\ conn' = [conn EXCEPT ![c] = "closing"]
              \/ /\ conn[c] = "closing" /\ conn' = [conn EXCEPT ![c] = "over"]
                 /\ controller' # "closes"
              \/ /\ conn[c] = "pool" /\ conn' = [conn EXCEPT ![c] = "engine"]
                 /\ controller' = controller
              \/ /\ conn[c] = "engine"
                 /\ \E p \in {"pool", "over"} : conn' = [conn EXCEPT ![c] = p]
                 /\ controller' = controller
<1>1. CASE ControllerEnds \/ ControllerLocks \/ ControllerPolls
  BY <1>1 DEF ControllerEnds, ControllerLocks, ControllerPolls
<1>2. ASSUME NEW c \in Connections, ControllerCloses(c) \/ ControllerClosed(c)
      PROVE  \/ conn[c] = "pool" /\ conn' = [conn EXCEPT ![c] = "closing"]
             \/ /\ conn[c] = "closing" /\ conn' = [conn EXCEPT ![c] = "over"]
                /\ controller' # "closes"
  BY <1>2 DEF ControllerCloses, ControllerClosed
<1>3. ASSUME NEW c \in Connections, WorkerEnters(c) \/ EngineReturns(c)
      PROVE  /\ controller' = controller
             /\ \/ conn[c] = "pool" /\ conn' = [conn EXCEPT ![c] = "engine"]
                \/ /\ conn[c] = "engine"
                   /\ \E p \in {"pool", "over"} : conn' = [conn EXCEPT ![c] = p]
  BY <1>3 DEF WorkerEnters, EngineReturns
<1>4. QED
  BY <1>1, <1>2, <1>3 DEF PoolNext, SweepNext

\* main and the signal thread leave the controller where it is, except that main
\* starts it.
LEMMA ControllerKept ==
  ASSUME MainNext \/ Sigwait \/ SignalNext \/ UNCHANGED vars
  PROVE  controller' \in {controller, "runs"}
  BY DEF MainNext, Postconfig, Control, mi_opensocket, PoolController, Crew, Check, Lock,
         Select, StartSession, AddSession, StopAbort, StopCloses, CloseListener, DestroyMutex,
         MasterExit, Cleanup, Exit, Sigwait, SignalNext, SignalStops, SignalCloses, poolVars,
         vars

\* Every step keeps what the listener and the controller have.
LEMMA HeldInvStep ==
  ASSUME ConnInv, ClientInv, ClosingInv, [Next]_vars
  PROVE  ClientInv' /\ ClosingInv'
<1>1. CASE MainNext
  <2>1. ClientInv'
    BY <1>1, MainClient DEF ClientInv
  <2>2. \A c \in Connections : conn[c] = "closing" => conn'[c] = "closing"
    BY <1>1, MainMovesClient DEF ClientInv, ConnInv
  <2>3. ClosingInv'
    BY <1>1, <2>2, ControllerKept DEF ClosingInv
  <2>4. QED
    BY <2>1, <2>3
<1>2. CASE Sigwait \/ SignalNext \/ UNCHANGED vars
  <2>1. UNCHANGED <<pc, client, conn>>
    BY <1>2 DEF Sigwait, SignalNext, SignalStops, SignalCloses, mainVars, poolVars, vars
  <2>2. QED
    BY <1>2, <2>1, ControllerKept DEF ClientInv, ClosingInv
<1>3. CASE PoolNext
  <2>1. UNCHANGED <<pc, client>>
    BY <1>3 DEF PoolNext, ControllerEnds, ControllerLocks, SweepNext, ControllerPolls,
                ControllerCloses, ControllerClosed, WorkerEnters, EngineReturns, mainVars
  <2>2. \A c \in Connections : conn[c] = "absent" => conn'[c] = "absent"
    BY <1>3, PoolMoves DEF ConnInv
  <2>3. ClientInv'
    BY <2>1, <2>2 DEF ClientInv
  <2>4. ClosingInv'
    <3>1. CASE controller' # "closes"
      BY <3>1 DEF ClosingInv
    <3>2. CASE \E c \in Connections : conn' = [conn EXCEPT ![c] = "closing"]
      BY <3>2 DEF ClosingInv, ConnInv
    <3>3. CASE controller' = controller
               /\ \A d \in Connections : conn[d] = "closing" => conn'[d] = "closing"
      BY <3>3 DEF ClosingInv
    <3>4. QED
      BY <1>3, <3>1, <3>2, <3>3, PoolMoves DEF ConnInv
  <2>5. QED
    BY <2>3, <2>4
<1>4. QED
  BY <1>1, <1>2, <1>3 DEF Next

\* The invariant of the threads' locks and connections holds in every state.
LEMMA HeldInvariant ==
  Spec => []HeldInv
<1> USE DEF HeldInv
<1>1. Init => PlacesInv /\ LockInv /\ ClientInv /\ ClosingInv
  BY DEF Init, PlacesInv, LockInv, ClientInv, ClosingInv
<1>2. Init => HeldInv
  BY <1>1, SocketInvInit, StopInvInit, ConnInvInit
<1>3. HeldInv /\ [Next]_vars => HeldInv'
  BY SocketInvStep, StopInvStep, ConnInvStep, PlacesInvStep, LockInvStep, HeldInvStep
<1>4. QED
  BY <1>2, <1>3, PTL DEF Spec

\* The threads never wait for each other in a circle, for any number of
\* connections: each of the three mutexes is with a thread that can go on.
THEOREM NoLockCycleHolds ==
  Spec => []NoLockCycle
<1>1. ASSUME SocketInv, PlacesInv, LockInv, Alive
      PROVE  /\ MainWaits => pc = "add" \/ (signal = "stopping" /\ ~SignalWaits)
             /\ SignalWaits => pc \in {"select", "stopping"} /\ ~MainWaits
  <2>1. L_Mutex = "main" <=> pc = "select"
    BY <1>1 DEF SocketInv
  <2>2. M_Mutex # "destroyed"
    BY <1>1 DEF LockInv, Alive
  <2>t. M_Mutex \in {"free", "main", "signal"}
    BY <1>1, <2>2 DEF PlacesInv
  <2>3. QED
    BY <1>1, <2>1, <2>t DEF LockInv, MainWaits, SignalWaits
<1>2. HeldInv => NoLockCycle
  BY <1>1 DEF HeldInv, NoLockCycle, ClosingInv
<1>3. QED
  BY HeldInvariant, <1>2, PTL

-----------------------------------------------------------------------------
(***************************************************************************)
(* The way out.  From any place of main, StepsLeft says how many steps are *)
(* left at most once MilterStop is set.                                    *)
(***************************************************************************)

\* The rows of StepsLeft.
LEMMA StepRows ==
  /\ StepsLeft["postconfig"] = 16 /\ StepsLeft["control"] = 15 /\ StepsLeft["socket"] = 14
  /\ StepsLeft["controller"] = 13 /\ StepsLeft["crew"] = 12 /\ StepsLeft["lock"] = 11
  /\ StepsLeft["select"] = 10 /\ StepsLeft["start"] = 9 /\ StepsLeft["add"] = 8
  /\ StepsLeft["check"] = 7 /\ StepsLeft["stop"] = 6 /\ StepsLeft["stopping"] = 5
  /\ StepsLeft["closing"] = 5 /\ StepsLeft["destroy"] = 4 /\ StepsLeft["master_exit"] = 3
  /\ StepsLeft["cleanup"] = 2 /\ StepsLeft["exit"] = 1 /\ StepsLeft["exited"] = 0
  BY DEF StepsLeft

\* A step of main takes it further out, unless it is the check of mi_stop that
\* lets it into the loop.
LEMMA MainAdvances ==
  ASSUME MainNext, mi_stop # CONT
  PROVE  StepsLeft[pc'] < StepsLeft[pc]
<1>1. CASE Postconfig
  <2>1. pc = "postconfig" /\ pc' \in {"control", "exit"}
    BY <1>1 DEF Postconfig
  <2>2. QED
    BY <2>1, StepRows
<1>2. CASE Control \/ mi_opensocket
  <2>1. \/ pc = "control" /\ pc' \in {"socket", "master_exit"}
        \/ pc = "socket" /\ pc' \in {"controller", "master_exit"}
    BY <1>2 DEF Control, mi_opensocket
  <2>2. QED
    BY <2>1, StepRows
<1>3. CASE PoolController \/ Crew
  <2>1. \/ pc = "controller" /\ pc' \in {"crew", "master_exit"}
        \/ pc = "crew" /\ pc' \in {"check", "master_exit"}
    BY <1>3 DEF PoolController, Crew
  <2>2. QED
    BY <2>1, StepRows
<1>4. CASE Check \/ Lock
  <2>1. \/ pc = "check" /\ pc' = "closing"
        \/ pc = "lock" /\ pc' \in {"select", "stop"}
    BY <1>4 DEF Check, Lock
  <2>2. QED
    BY <2>1, StepRows
<1>5. CASE Select
  <2>1. pc = "select" /\ pc' \in {"check", "stop", "start"}
    BY <1>5 DEF Select, Failed
  <2>2. QED
    BY <2>1, StepRows
<1>6. CASE StartSession \/ AddSession
  <2>1. \/ pc = "start" /\ pc' \in {"add", "check", "stop"}
        \/ pc = "add" /\ pc' = "check"
    BY <1>6 DEF StartSession, AddSession, Failed
  <2>2. QED
    BY <2>1, StepRows
<1>7. CASE StopAbort \/ StopCloses \/ CloseListener \/ DestroyMutex
  <2>1. \/ pc = "stop" /\ pc' = "stopping"
        \/ pc \in {"stopping", "closing"} /\ pc' = "destroy"
        \/ pc = "destroy" /\ pc' = "master_exit"
    BY <1>7 DEF StopAbort, StopCloses, CloseListener, DestroyMutex
  <2>2. QED
    BY <2>1, StepRows
<1>8. CASE MasterExit \/ Cleanup \/ Exit
  <2>1. \/ pc = "master_exit" /\ pc' \in {"cleanup", "exit"}
        \/ pc = "cleanup" /\ pc' = "exit"
        \/ pc = "exit" /\ pc' = "exited"
    BY <1>8 DEF MasterExit, Cleanup, Exit
  <2>2. QED
    BY <2>1, StepRows
<1>9. QED
  BY <1>1, <1>2, <1>3, <1>4, <1>5, <1>6, <1>7, <1>8 DEF MainNext

\* Once MilterStop is set, main takes at most StepsLeft[pc] more steps: what is
\* left to fairness is that it takes them.
THEOREM StopAdvancesHolds ==
  Spec => StopAdvances
<1> DEFINE Advance == mi_stop # CONT /\ pc' # pc => StepsLeft[pc'] < StepsLeft[pc]
<1>1. ASSUME [Next]_vars
      PROVE  Advance
  <2>1. CASE MainNext
    BY <2>1, MainAdvances
  <2>2. CASE ~MainNext
    <3>1. pc' = pc
      BY <1>1, <2>2 DEF Next, Sigwait, SignalNext, SignalStops, SignalCloses, PoolNext,
            ControllerEnds, ControllerLocks, SweepNext, ControllerPolls, ControllerCloses,
            ControllerClosed, WorkerEnters, EngineReturns, mainVars, vars
    <3>2. QED
      BY <3>1
  <2>3. QED
    BY <2>1, <2>2
<1>2. [Next]_vars => [Advance]_vars
  BY <1>1
<1>3. QED
  BY <1>2, PTL DEF Spec, StopAdvances

-----------------------------------------------------------------------------
(***************************************************************************)
(* The life of a connection.                                               *)
(***************************************************************************)

\* Every step moves the connections as ConnectionLife does, or not at all.
LEMMA LifeStep ==
  ASSUME ConnInv, ClientInv, [Next]_vars
  PROVE  [Life!LifeNext]_conn
<1> USE DEF Life!LifeNext
<1>1. CASE MainNext
  <2>1. CASE conn' = conn
    BY <2>1
  <2>2. CASE conn' # conn
    <3>1. /\ client \in Connections /\ conn[client] = "absent"
          /\ \E p \in {"pool", "over"} : conn' = [conn EXCEPT ![client] = p]
      BY <1>1, <2>2, MainMovesClient DEF ClientInv
    <3>2. Life!Starts(client)
      BY <3>1 DEF Life!Starts, Life!Moves
    <3>3. QED
      BY <3>1, <3>2
  <2>3. QED
    BY <2>1, <2>2
<1>2. CASE Sigwait \/ SignalNext \/ UNCHANGED vars
  BY <1>2 DEF Sigwait, SignalNext, SignalStops, SignalCloses, poolVars, vars
<1>3. CASE PoolNext
  <2>1. ASSUME NEW c \in Connections,
               conn[c] = "pool" /\ conn' = [conn EXCEPT ![c] = "closing"]
        PROVE  Life!Expire({c})
    <3>1. conn' = [d \in Connections |-> IF d \in {c} THEN "closing" ELSE conn[d]]
      BY <2>1 DEF ConnInv
    <3>2. QED
      BY <2>1, <3>1 DEF Life!Expire
  <2>2. ASSUME NEW c \in Connections,
               conn[c] = "closing" /\ conn' = [conn EXCEPT ![c] = "over"]
        PROVE  Life!Closes(c)
    BY <2>2 DEF Life!Closes, Life!Moves
  <2>3. ASSUME NEW c \in Connections,
               conn[c] = "pool" /\ conn' = [conn EXCEPT ![c] = "engine"]
        PROVE  Life!Enters(c)
    BY <2>3 DEF Life!Enters, Life!Moves
  <2>4. ASSUME NEW c \in Connections, conn[c] = "engine",
               \E p \in {"pool", "over"} : conn' = [conn EXCEPT ![c] = p]
        PROVE  Life!Leaves(c)
    BY <2>4 DEF Life!Leaves, Life!Moves
  <2>5. QED
    BY <1>3, <2>1, <2>2, <2>3, <2>4, PoolMoves
<1>4. QED
  BY <1>1, <1>2, <1>3 DEF Next

\* The process gives every connection the life of ConnectionLife, whoever stops
\* it and whatever fails: the refinement, for any set of connections.
THEOREM LifecycleKeepsLife ==
  Spec => KeepsLife
<1>1. Init => Life!LifeInit
  BY DEF Init, Life!LifeInit
<1>2. HeldInv /\ [Next]_vars => [Life!LifeNext]_conn
  BY LifeStep DEF HeldInv
<1>3. QED
  BY HeldInvariant, <1>1, <1>2, PTL DEF Spec, KeepsLife, Life!LifeSpec

=============================================================================
