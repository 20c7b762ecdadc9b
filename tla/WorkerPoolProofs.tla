-------------------------- MODULE WorkerPoolProofs --------------------------
(***************************************************************************)
(* Proofs about WorkerPool, for any number of sessions and threads and any *)
(* smfi_setworker bounds.                                                  *)
(*                                                                         *)
(* The invariants build on one another: types; where a worker may have a   *)
(* session (Placement); one worker per session; the counters; no sleep     *)
(* over work, which needs nb_idle to be right; the minimum, which needs    *)
(* nb_workers to be right.  The controller's invariant is apart from them. *)
(***************************************************************************)
EXTENDS WorkerPool, FiniteSetTheorems, TLAPS

SessionsOK ==
  /\ wstate \in [Sessions -> SessionStates]
  /\ sid \in [Sessions -> Nat]
  /\ id \in Nat
  /\ readable \subseteq Sessions
  /\ pfd \subseteq Sessions
  /\ events \subseteq Sessions

WorkersOK ==
  /\ pc \in [Workers -> WorkerPlaces]
  /\ task \in [Workers -> Sessions \cup {none}]
  /\ nb_workers \in Int
  /\ nb_idle \in Int

ControlOK ==
  /\ pipe \in BOOLEAN
  /\ rebuild_set \in BOOLEAN
  /\ control \in {"prepare", "poll", "drain", "dispatch"}

\* A session given a thread leaves the state well typed.
LEMMA GiveThreadType ==
  ASSUME SessionsOK, WorkersOK, NEW s \in Sessions, GiveThread(s)
  PROVE  /\ wstate' \in [Sessions -> SessionStates]
         /\ pc' \in [Workers -> WorkerPlaces]
         /\ task' \in [Workers -> Sessions \cup {none}]
  BY DEF SessionsOK, WorkersOK, GiveThread, Signal, LAUNCH_WORKER, At, SessionStates,
         WorkerPlaces

\* Taking a task leaves the state well typed.
LEMMA TakeType ==
  ASSUME SessionsOK, WorkersOK, NEW w \in Workers, NEW s \in Sessions, Take(w, s)
  PROVE  /\ wstate' \in [Sessions -> SessionStates]
         /\ pc' \in [Workers -> WorkerPlaces]
         /\ task' \in [Workers -> Sessions \cup {none}]
  BY DEF SessionsOK, WorkersOK, Take, SessionStates, WorkerPlaces

\* Every step of mi_start_session, of the workers and of the controller keeps
\* the state well typed.
LEMMA TypeStep ==
  ASSUME SessionsOK, WorkersOK, ControlOK, [Next]_vars
  PROVE  SessionsOK' /\ WorkersOK' /\ ControlOK'
<1> USE DEF sessionVars, workerVars, controlVars
<1>1. ASSUME NEW s \in Sessions, mi_start_session(s)
      PROVE  SessionsOK' /\ WorkersOK' /\ ControlOK'
  <2>1. SessionsOK'
    BY <1>1, GiveThreadType DEF mi_start_session, SessionsOK
  <2>2. WorkersOK'
    BY <1>1, GiveThreadType DEF mi_start_session, WorkersOK
  <2>3. ControlOK'
    BY <1>1 DEF mi_start_session, ControlOK
  <2> QED  BY <2>1, <2>2, <2>3
<1>2. ASSUME NEW s \in Sessions, Input(s)
      PROVE  SessionsOK' /\ WorkersOK' /\ ControlOK'
  <2>1. SessionsOK' /\ WorkersOK'
    BY <1>2 DEF Input, SessionsOK, WorkersOK
  <2>2. ControlOK'
    BY <1>2 DEF Input, ControlOK
  <2> QED  BY <2>1, <2>2
<1>3. ASSUME NEW w \in Workers, Work(w) \/ WaitTimesOut(w)
      PROVE  SessionsOK' /\ WorkersOK' /\ ControlOK'
  <2>1. CASE Begin(w)
    <3>1. SessionsOK' /\ WorkersOK'
      BY <2>1 DEF Begin, SessionsOK, WorkersOK, WorkerPlaces
    <3>2. ControlOK'
      BY <2>1 DEF Begin, ControlOK
    <3> QED  BY <3>1, <3>2
  <2>2. CASE EngineContinues(w)
    <3>1. SessionsOK' /\ WorkersOK'
      BY <2>2 DEF EngineContinues, SessionsOK, WorkersOK, WorkerPlaces, SessionStates
    <3>2. ControlOK'
      BY <2>2 DEF EngineContinues, ControlOK
    <3> QED  BY <3>1, <3>2
  <2>3. CASE EngineEnds(w)
    <3>1. SessionsOK' /\ WorkersOK'
      BY <2>3 DEF EngineEnds, SessionsOK, WorkersOK, WorkerPlaces, SessionStates
    <3>2. ControlOK'
      BY <2>3 DEF EngineEnds, ControlOK
    <3> QED  BY <3>1, <3>2
  <2>4. CASE LookTakes(w)
    <3>1. SessionsOK' /\ WorkersOK'
      BY <2>4, TakeType DEF LookTakes, SessionsOK, WorkersOK
    <3>2. ControlOK'
      BY <2>4 DEF LookTakes, ControlOK
    <3> QED  BY <3>1, <3>2
  <2>5. CASE LookQuits(w) \/ LookWaits(w) \/ WaitTimesOut(w)
    <3>1. SessionsOK' /\ WorkersOK'
      BY <2>5 DEF LookQuits, LookWaits, WaitTimesOut, SessionsOK, WorkersOK, WorkerPlaces
    <3>2. ControlOK'
      BY <2>5 DEF LookQuits, LookWaits, WaitTimesOut, ControlOK
    <3> QED  BY <3>1, <3>2
  <2>6. CASE Wakes(w)
    <3>1. SessionsOK'
      BY <2>6, TakeType DEF Wakes, SessionsOK
    <3>2. WorkersOK'
      BY <2>6, TakeType DEF Wakes, WorkersOK, WorkerPlaces
    <3>3. ControlOK'
      BY <2>6 DEF Wakes, ControlOK
    <3> QED  BY <3>1, <3>2, <3>3
  <2> QED  BY <1>3, <2>1, <2>2, <2>3, <2>4, <2>5, <2>6 DEF Work
<1>4. CASE Control
  <2>1. CASE Prepare
    <3>1. SessionsOK' /\ WorkersOK'
      BY <2>1 DEF Prepare, SessionsOK, WorkersOK, With, SessionStates
    <3>2. ControlOK'
      BY <2>1 DEF Prepare, ControlOK
    <3> QED  BY <3>1, <3>2
  <2>2. CASE PollTimesOut \/ PollInterrupted \/ PollReports \/ Drain \/ DispatchDone
    <3>1. SessionsOK' /\ WorkersOK'
      BY <2>2 DEF PollTimesOut, PollInterrupted, PollReports, Drain, DispatchDone, Reported,
                  SessionsOK, WorkersOK
    <3>2. ControlOK'
      BY <2>2 DEF PollTimesOut, PollInterrupted, PollReports, Drain, DispatchDone, ControlOK
    <3> QED  BY <3>1, <3>2
  <2>3. ASSUME NEW s \in Sessions, Dispatch(s)
        PROVE  SessionsOK' /\ WorkersOK' /\ ControlOK'
    <3>1. SessionsOK'
      BY <2>3, GiveThreadType DEF Dispatch, SessionsOK
    <3>2. WorkersOK'
      BY <2>3, GiveThreadType DEF Dispatch, WorkersOK
    <3>3. ControlOK'
      BY <2>3 DEF Dispatch, ControlOK
    <3> QED  BY <3>1, <3>2, <3>3
  <2> QED  BY <1>4, <2>1, <2>2, <2>3 DEF Control
<1>5. CASE UNCHANGED vars
  BY <1>5 DEF vars, SessionsOK, WorkersOK, ControlOK
<1> QED  BY <1>1, <1>2, <1>3, <1>4, <1>5 DEF Next

\* The initial state is well typed.
LEMMA TypeInit ==
  ASSUME Init
  PROVE  SessionsOK /\ WorkersOK /\ ControlOK
<1>1. SessionsOK
  BY DEF Init, SessionsOK, SessionStates
<1>2. WorkersOK
  BY DEF Init, WorkersOK, WorkerPlaces
<1>3. ControlOK
  BY DEF Init, ControlOK
<1> QED  BY <1>1, <1>2, <1>3

\* The pool's state is well typed, whatever the interleaving of the listener,
\* the workers and the controller.
THEOREM PoolTypeCorrect == Spec => []TypeOK
<1> DEFINE Parts == SessionsOK /\ WorkersOK /\ ControlOK
<1>1. Init => Parts
  BY TypeInit
<1>2. Parts /\ [Next]_vars => Parts'
  BY TypeStep
<1>3. Parts => TypeOK
  BY DEF SessionsOK, WorkersOK, ControlOK, TypeOK
<1> QED  BY <1>1, <1>2, <1>3, PTL DEF Spec

-----------------------------------------------------------------------------
(* The controller *)

WakeupInv ==
  /\ NoLostWakeup
  /\ control \in {"drain", "dispatch"} => rebuild_set

\* Giving a session a thread takes it from the waiting ones.
LEMMA GiveThreadWaits ==
  ASSUME SessionsOK, NEW s \in Sessions, GiveThread(s)
  PROVE  /\ With("READY_TO_WAIT")' \subseteq With("READY_TO_WAIT")
         /\ With("WAITING")' \subseteq With("WAITING")
  BY DEF SessionsOK, GiveThread, With

\* No step loses a session: the byte in the pipe is read only after poll has
\* made rebuild_set true, and rebuild_set is cleared only by a rebuild.
LEMMA WakeupStep ==
  ASSUME SessionsOK, ControlOK, WakeupInv, [Next]_vars
  PROVE  WakeupInv'
<1> USE DEF sessionVars, workerVars, controlVars, WakeupInv, NoLostWakeup
<1>1. ASSUME NEW s \in Sessions, mi_start_session(s)
      PROVE  WakeupInv'
  BY <1>1, GiveThreadWaits DEF mi_start_session
<1>2. ASSUME NEW s \in Sessions, Input(s)
      PROVE  WakeupInv'
  BY <1>2 DEF Input, With
<1>3. ASSUME NEW w \in Workers, Work(w) \/ WaitTimesOut(w)
      PROVE  WakeupInv'
  <2>1. CASE EngineContinues(w)
    BY <2>1 DEF EngineContinues, With, SessionsOK
  <2>2. CASE EngineEnds(w)
    BY <2>2 DEF EngineEnds, With, SessionsOK
  <2>3. CASE LookTakes(w)
    BY <2>3 DEF LookTakes, Take, With, SessionsOK
  <2>4. CASE Wakes(w)
    BY <2>4 DEF Wakes, Take, With, SessionsOK
  <2>5. CASE Begin(w) \/ LookQuits(w) \/ LookWaits(w) \/ WaitTimesOut(w)
    BY <2>5 DEF Begin, LookQuits, LookWaits, WaitTimesOut, With
  <2> QED  BY <1>3, <2>1, <2>2, <2>3, <2>4, <2>5 DEF Work
<1>4. CASE Control
  <2>1. CASE Prepare
    <3>1. CASE rebuild_set
      BY <2>1, <3>1 DEF Prepare, With, SessionsOK
    <3>2. CASE ~rebuild_set
      <4>1. With("READY_TO_WAIT")' \subseteq With("READY_TO_WAIT")
        BY <2>1, <3>2 DEF Prepare, With, SessionsOK
      <4>2. With("WAITING")' \subseteq With("WAITING")
        BY <2>1, <3>2 DEF Prepare, With, SessionsOK
      <4> QED  BY <2>1, <3>2, <4>1, <4>2 DEF Prepare
    <3> QED  BY <3>1, <3>2
  <2>2. CASE PollTimesOut \/ PollInterrupted \/ PollReports \/ Drain \/ DispatchDone
    BY <2>2 DEF PollTimesOut, PollInterrupted, PollReports, Drain, DispatchDone, With
  <2>3. ASSUME NEW s \in Sessions, Dispatch(s)
        PROVE  WakeupInv'
    BY <2>3, GiveThreadWaits DEF Dispatch, With
  <2> QED  BY <1>4, <2>1, <2>2, <2>3 DEF Control
<1>5. CASE UNCHANGED vars
  BY <1>5 DEF vars, With
<1> QED  BY <1>1, <1>2, <1>3, <1>4, <1>5 DEF Next

\* mi_pool_controller forgets no session: one a worker handed back has a byte
\* in the event pipe or a rebuild coming, one that waits is in the poll set.
THEOREM NoLostWakeupHolds == Spec => []NoLostWakeup
<1> DEFINE Inv == SessionsOK /\ WorkersOK /\ ControlOK /\ WakeupInv
<1>1. Init => Inv
  <2> SUFFICES ASSUME Init PROVE Inv
    OBVIOUS
  <2>1. WakeupInv
    BY DEF Init, WakeupInv, NoLostWakeup, With
  <2> QED  BY <2>1, TypeInit
<1>2. Inv /\ [Next]_vars => Inv'
  BY TypeStep, WakeupStep
<1>3. Inv => NoLostWakeup
  BY DEF WakeupInv
<1> QED  BY <1>1, <1>2, <1>3, PTL DEF Spec

-----------------------------------------------------------------------------
(* The workers *)

\* Where a worker has a session and where it has none.
Placement ==
  \A w \in Workers :
    /\ pc[w] = "engine" => task[w] \in Sessions
    /\ pc[w] \in {"off", "look", "wait", "woken"} => task[w] = none

OwnerInv == Placement /\ OneWorkerPerSession

\* A session that is not running gets a thread: nobody has it twice.
LEMMA GiveThreadOwner ==
  ASSUME SessionsOK, WorkersOK, OwnerInv, NEW s \in Sessions, wstate[s] # "RUNNING",
         GiveThread(s)
  PROVE  OwnerInv'
<1> USE DEF OwnerInv, Placement, OneWorkerPerSession, SessionsOK, WorkersOK
<1>1. CASE nb_idle > 0 /\ wstate' = [wstate EXCEPT ![s] = "READY_TO_RUN"]
           /\ Signal /\ UNCHANGED task
  BY <1>1, PoolAssumption DEF Signal, At, SessionStates, WorkerPlaces
<1>2. CASE wstate' = [wstate EXCEPT ![s] = "RUNNING"] /\ LAUNCH_WORKER(s)
  BY <1>2, PoolAssumption DEF LAUNCH_WORKER, At, SessionStates, WorkerPlaces
<1> QED  BY <1>1, <1>2 DEF GiveThread

\* A worker without a session takes one that is ready: nobody has it twice.
LEMMA TakeOwner ==
  ASSUME SessionsOK, WorkersOK, OwnerInv, NEW w \in Workers, NEW s \in Sessions,
         pc[w] \in {"look", "woken"}, Take(w, s)
  PROVE  OwnerInv'
  BY PoolAssumption DEF OwnerInv, Placement, OneWorkerPerSession, SessionsOK, WorkersOK,
                        Take, FirstReady, SessionStates, WorkerPlaces

\* No step gives a session to two workers, or takes it from the one it has.
LEMMA OwnerStep ==
  ASSUME SessionsOK, WorkersOK, OwnerInv, [Next]_vars
  PROVE  OwnerInv'
<1> USE DEF sessionVars, workerVars, controlVars
<1>1. ASSUME NEW s \in Sessions, mi_start_session(s)
      PROVE  OwnerInv'
  BY <1>1, GiveThreadOwner DEF mi_start_session
<1>2. ASSUME NEW s \in Sessions, Input(s)
      PROVE  OwnerInv'
  BY <1>2 DEF Input, OwnerInv, Placement, OneWorkerPerSession
<1>3. ASSUME NEW w \in Workers, Work(w) \/ WaitTimesOut(w)
      PROVE  OwnerInv'
  <2>1. CASE EngineContinues(w) \/ EngineEnds(w)
    BY <2>1, PoolAssumption DEF EngineContinues, EngineEnds, OwnerInv, Placement,
       OneWorkerPerSession, SessionsOK, WorkersOK
  <2>2. CASE LookTakes(w)
    BY <2>2, TakeOwner DEF LookTakes
  <2>3. CASE Wakes(w)
    <3>1. CASE \E s \in Sessions : Take(w, s)
      BY <2>3, <3>1, TakeOwner DEF Wakes
    <3>2. CASE pc' = [pc EXCEPT ![w] = "look"] /\ UNCHANGED <<wstate, task>>
      BY <2>3, <3>2 DEF Wakes, OwnerInv, Placement, OneWorkerPerSession, WorkersOK
    <3> QED  BY <2>3, <3>1, <3>2 DEF Wakes
  <2>4. CASE Begin(w)
    BY <2>4 DEF Begin, OwnerInv, Placement, OneWorkerPerSession, WorkersOK
  <2>5. CASE LookQuits(w) \/ LookWaits(w) \/ WaitTimesOut(w)
    BY <2>5 DEF LookQuits, LookWaits, WaitTimesOut, OwnerInv, Placement,
                OneWorkerPerSession, WorkersOK
  <2> QED  BY <1>3, <2>1, <2>2, <2>3, <2>4, <2>5 DEF Work
<1>4. CASE Control
  <2>1. CASE Prepare
    <3>1. \A s \in Sessions : wstate[s] = "RUNNING" => wstate'[s] = "RUNNING"
      BY <2>1 DEF Prepare, With, SessionsOK
    <3>2. UNCHANGED <<pc, task>>
      BY <2>1 DEF Prepare
    <3> QED  BY <3>1, <3>2 DEF OwnerInv, Placement, OneWorkerPerSession, WorkersOK
  <2>2. CASE PollTimesOut \/ PollInterrupted \/ PollReports \/ Drain \/ DispatchDone
    BY <2>2 DEF PollTimesOut, PollInterrupted, PollReports, Drain, DispatchDone, OwnerInv,
                Placement, OneWorkerPerSession
  <2>3. ASSUME NEW s \in Sessions, Dispatch(s)
        PROVE  OwnerInv'
    <3>1. CASE wstate[s] = "WAITING" /\ GiveThread(s)
      BY <3>1, GiveThreadOwner
    <3>2. CASE UNCHANGED <<wstate, pc, task>>
      BY <3>2 DEF OwnerInv, Placement, OneWorkerPerSession
    <3> QED  BY <2>3, <3>1, <3>2 DEF Dispatch
  <2> QED  BY <1>4, <2>1, <2>2, <2>3 DEF Control
<1>5. CASE UNCHANGED vars
  BY <1>5 DEF vars, OwnerInv, Placement, OneWorkerPerSession
<1> QED  BY <1>1, <1>2, <1>3, <1>4, <1>5 DEF Next

\* The types and the owners of the sessions, in every state.
LEMMA OwnerInvariant == Spec => [](SessionsOK /\ WorkersOK /\ OwnerInv)
<1> DEFINE Inv == SessionsOK /\ WorkersOK /\ ControlOK /\ OwnerInv
<1>1. Init => Inv
  <2> SUFFICES ASSUME Init PROVE Inv
    OBVIOUS
  <2>1. OwnerInv
    BY DEF Init, OwnerInv, Placement, OneWorkerPerSession
  <2> QED  BY <2>1, TypeInit
<1>2. Inv /\ [Next]_vars => Inv'
  BY TypeStep, OwnerStep
<1> QED  BY <1>1, <1>2, PTL DEF Spec

\* A session is run by one thread at a time, and the controller closes or
\* dispatches none that a worker has.
THEOREM OneWorkerPerSessionHolds == Spec => []OneWorkerPerSession
<1>1. SessionsOK /\ WorkersOK /\ OwnerInv => OneWorkerPerSession
  BY DEF OwnerInv
<1> QED  BY <1>1, OwnerInvariant, PTL

-----------------------------------------------------------------------------
(* The counters *)

\* Any set of workers is finite, and its cardinality a number.
LEMMA AtFinite ==
  ASSUME NEW places
  PROVE  IsFiniteSet(At(places)) /\ Cardinality(At(places)) \in Nat
<1>1. At(places) \in SUBSET Workers
  BY DEF At
<1> QED  BY <1>1, FS_Subset, FS_CardinalityType, PoolAssumption

\* Worker w goes to p.
Moves(w, p) == pc' = [pc EXCEPT ![w] = p]

\* What a worker at p adds to the number of workers in some places.
In(p, places) == IF p \in places THEN 1 ELSE 0

\* How the number of workers in some places changes when one of them moves.
LEMMA CountMove ==
  ASSUME WorkersOK, NEW w \in Workers, NEW places, NEW p,
         Moves(w, p)
  PROVE  Cardinality(At(places)') =
           Cardinality(At(places)) + In(p, places) - In(pc[w], places)
<1>1. p \in places => At(places)' = At(places) \cup {w}
  BY DEF At, WorkersOK, Moves
<1>2. p \notin places => At(places)' = At(places) \ {w}
  BY DEF At, WorkersOK, Moves
<1>3. w \in At(places) <=> pc[w] \in places
  BY DEF At
<1>4. IsFiniteSet(At(places))
  BY AtFinite
<1>5. Cardinality(At(places) \cup {w}) =
        IF w \in At(places) THEN Cardinality(At(places)) ELSE Cardinality(At(places)) + 1
  BY <1>4, FS_AddElement
<1>6. Cardinality(At(places) \ {w}) =
        IF w \in At(places) THEN Cardinality(At(places)) - 1 ELSE Cardinality(At(places))
  BY <1>4, FS_RemoveElement
<1>7. Cardinality(At(places)) \in Nat
  BY AtFinite
<1>8. CASE p \in places
  <2>1. Cardinality(At(places)') =
          IF pc[w] \in places THEN Cardinality(At(places)) ELSE Cardinality(At(places)) + 1
    BY <1>1, <1>3, <1>5, <1>8
  <2> QED  BY <2>1, <1>7, <1>8 DEF In
<1>9. CASE p \notin places
  <2>1. Cardinality(At(places)') =
          IF pc[w] \in places THEN Cardinality(At(places)) - 1 ELSE Cardinality(At(places))
    BY <1>2, <1>3, <1>6, <1>9
  <2> QED  BY <2>1, <1>7, <1>9 DEF In
<1> QED  BY <1>8, <1>9

IdlePlaces == {"wait", "woken"}
StartedPlaces == {"engine", "look", "wait", "woken"}

\* The places by what they count for.
LEMMA InValues ==
  /\ \A p \in {"wait", "woken"} : In(p, IdlePlaces) = 1 /\ In(p, StartedPlaces) = 1
  /\ \A p \in {"engine", "look"} : In(p, IdlePlaces) = 0 /\ In(p, StartedPlaces) = 1
  /\ \A p \in {"off", "new"} : In(p, IdlePlaces) = 0 /\ In(p, StartedPlaces) = 0
  BY DEF In, IdlePlaces, StartedPlaces

\* The same for the two sets of places that are counted.
LEMMA CountedMove ==
  ASSUME WorkersOK, NEW w \in Workers, NEW p, Moves(w, p)
  PROVE  /\ Cardinality(At(IdlePlaces)') =
              Cardinality(At(IdlePlaces)) + In(p, IdlePlaces) - In(pc[w], IdlePlaces)
         /\ Cardinality(At(StartedPlaces)') =
              Cardinality(At(StartedPlaces)) + In(p, StartedPlaces)
                - In(pc[w], StartedPlaces)
         /\ Cardinality(At(IdlePlaces)) \in Nat
         /\ Cardinality(At(StartedPlaces)) \in Nat
  BY CountMove, AtFinite

\* Giving a session a thread moves a worker from the wait to its end, or from
\* "off" to "new": neither counter changes.
LEMMA GiveThreadCounts ==
  ASSUME WorkersOK, NEW s \in Sessions, GiveThread(s)
  PROVE  /\ Cardinality(At(IdlePlaces)') = Cardinality(At(IdlePlaces))
         /\ Cardinality(At(StartedPlaces)') = Cardinality(At(StartedPlaces))
<1>1. CASE UNCHANGED pc
  BY <1>1 DEF At
<1>2. ASSUME NEW w \in At({"wait"}), Moves(w, "woken")
      PROVE  /\ Cardinality(At(IdlePlaces)') = Cardinality(At(IdlePlaces))
             /\ Cardinality(At(StartedPlaces)') = Cardinality(At(StartedPlaces))
  <2>1. w \in Workers /\ pc[w] = "wait"
    BY <1>2 DEF At
  <2> QED  BY <1>2, <2>1, CountedMove, InValues
<1>3. ASSUME NEW w \in At({"off"}), Moves(w, "new")
      PROVE  /\ Cardinality(At(IdlePlaces)') = Cardinality(At(IdlePlaces))
             /\ Cardinality(At(StartedPlaces)') = Cardinality(At(StartedPlaces))
  <2>1. w \in Workers /\ pc[w] = "off"
    BY <1>3 DEF At
  <2> QED  BY <1>3, <2>1, CountedMove, InValues
<1> QED  BY <1>1, <1>2, <1>3 DEF GiveThread, Signal, LAUNCH_WORKER, Moves

\* Every step moves workers and counters together.
LEMMA CountersStep ==
  ASSUME WorkersOK, CountersExact, [Next]_vars
  PROVE  CountersExact'
<1> USE DEF sessionVars, workerVars, controlVars
<1>a. /\ nb_idle = Cardinality(At(IdlePlaces))
      /\ nb_workers = Cardinality(At(StartedPlaces))
      /\ nb_idle \in Int /\ nb_workers \in Int
  BY DEF CountersExact, IdlePlaces, StartedPlaces, WorkersOK
<1> SUFFICES /\ nb_idle' = Cardinality(At(IdlePlaces)')
             /\ nb_workers' = Cardinality(At(StartedPlaces)')
  BY DEF CountersExact, IdlePlaces, StartedPlaces
<1> DEFINE Counted == /\ nb_idle' = Cardinality(At(IdlePlaces)')
                      /\ nb_workers' = Cardinality(At(StartedPlaces)')
<1>0. UNCHANGED <<pc, nb_workers, nb_idle>> => Counted
  BY <1>a DEF At
<1>1. ASSUME NEW s \in Sessions, mi_start_session(s)
      PROVE  Counted
  BY <1>1, <1>a, GiveThreadCounts DEF mi_start_session
<1>2. ASSUME NEW s \in Sessions, Input(s)
      PROVE  Counted
  BY <1>2, <1>0 DEF Input
<1>3. ASSUME NEW w \in Workers, Work(w) \/ WaitTimesOut(w)
      PROVE  Counted
  <2>1. CASE Begin(w)
    <3>1. pc[w] = "new" /\ nb_workers' = nb_workers + 1 /\ nb_idle' = nb_idle
      BY <2>1 DEF Begin
    <3>2. CASE Moves(w, "look")
      BY <3>1, <3>2, <1>a, CountedMove, InValues
    <3>3. CASE Moves(w, "engine")
      BY <3>1, <3>3, <1>a, CountedMove, InValues
    <3> QED  BY <2>1, <3>2, <3>3 DEF Begin, Moves
  <2>2. CASE EngineContinues(w) \/ EngineEnds(w)
    <3>1. /\ pc[w] = "engine" /\ Moves(w, "look")
          /\ nb_workers' = nb_workers /\ nb_idle' = nb_idle
      BY <2>2 DEF EngineContinues, EngineEnds, Moves
    <3> QED  BY <3>1, <1>a, CountedMove, InValues
  <2>3. CASE LookTakes(w)
    <3>1. /\ pc[w] = "look" /\ Moves(w, "engine")
          /\ nb_workers' = nb_workers /\ nb_idle' = nb_idle
      BY <2>3 DEF LookTakes, Take, Moves
    <3> QED  BY <3>1, <1>a, CountedMove, InValues
  <2>4. CASE LookQuits(w)
    <3>1. /\ pc[w] = "look" /\ Moves(w, "off")
          /\ nb_workers' = nb_workers - 1 /\ nb_idle' = nb_idle
      BY <2>4 DEF LookQuits, Moves
    <3> QED  BY <3>1, <1>a, CountedMove, InValues
  <2>5. CASE LookWaits(w)
    <3>1. /\ pc[w] = "look" /\ Moves(w, "wait")
          /\ nb_workers' = nb_workers /\ nb_idle' = nb_idle + 1
      BY <2>5 DEF LookWaits, Moves
    <3> QED  BY <3>1, <1>a, CountedMove, InValues
  <2>6. CASE WaitTimesOut(w)
    <3>1. /\ pc[w] = "wait" /\ Moves(w, "woken")
          /\ nb_workers' = nb_workers /\ nb_idle' = nb_idle
      BY <2>6 DEF WaitTimesOut, Moves
    <3> QED  BY <3>1, <1>a, CountedMove, InValues
  <2>7. CASE Wakes(w)
    <3>1. pc[w] = "woken" /\ nb_workers' = nb_workers /\ nb_idle' = nb_idle - 1
      BY <2>7 DEF Wakes
    <3>2. CASE Moves(w, "look")
      BY <3>1, <3>2, <1>a, CountedMove, InValues
    <3>3. CASE Moves(w, "engine")
      BY <3>1, <3>3, <1>a, CountedMove, InValues
    <3> QED  BY <2>7, <3>2, <3>3 DEF Wakes, Take, Moves
  <2> QED  BY <1>3, <2>1, <2>2, <2>3, <2>4, <2>5, <2>6, <2>7 DEF Work
<1>4. CASE Control
  <2>1. CASE Prepare \/ PollTimesOut \/ PollInterrupted \/ PollReports \/ Drain
             \/ DispatchDone
    BY <2>1, <1>0 DEF Prepare, PollTimesOut, PollInterrupted, PollReports, Drain,
                      DispatchDone
  <2>2. ASSUME NEW s \in Sessions, Dispatch(s)
        PROVE  Counted
    BY <2>2, <1>0, <1>a, GiveThreadCounts DEF Dispatch
  <2> QED  BY <1>4, <2>1, <2>2 DEF Control
<1>5. CASE UNCHANGED vars
  BY <1>5, <1>0 DEF vars
<1> QED  BY <1>1, <1>2, <1>3, <1>4, <1>5 DEF Next

\* At the start no worker has been counted.
LEMMA CountersInit ==
  ASSUME Init
  PROVE  CountersExact
<1>1. At({"wait", "woken"}) = {} /\ At({"engine", "look", "wait", "woken"}) = {}
  BY DEF Init, At
<1> QED  BY <1>1, FS_EmptySet DEF Init, CountersExact

\* nb_idle and nb_workers, on which mi_start_session, the controller and the
\* workers decide, are exact at every release of the mutex.
THEOREM CountersExactHolds == Spec => []CountersExact
<1> DEFINE Inv == SessionsOK /\ WorkersOK /\ ControlOK /\ CountersExact
<1>1. Init => Inv
  BY TypeInit, CountersInit
<1>2. Inv /\ [Next]_vars => Inv'
  BY TypeStep, CountersStep
<1>3. Inv => CountersExact
  OBVIOUS
<1> QED  BY <1>1, <1>2, <1>3, PTL DEF Spec

-----------------------------------------------------------------------------
(* Workers awake and workers kept *)

\* Giving a session a thread leaves a worker awake if a session is ready: the
\* idle worker that nb_idle promised, or the one that was awake before.
LEMMA GiveThreadAwake ==
  ASSUME SessionsOK, WorkersOK, CountersExact, NoSleepOverWork, NEW s \in Sessions,
         GiveThread(s)
  PROVE  NoSleepOverWork'
<1>1. CASE nb_idle > 0 /\ Signal
  <2>1. At({"wait", "woken"}) # {}
    BY <1>1, FS_EmptySet DEF CountersExact
  <2>2. CASE At({"wait"}) = {} /\ UNCHANGED pc
    BY <2>1, <2>2 DEF NoSleepOverWork, At
  <2>3. CASE \E w \in At({"wait"}) : pc' = [pc EXCEPT ![w] = "woken"]
    BY <2>3 DEF NoSleepOverWork, At, WorkersOK
  <2> QED  BY <1>1, <2>2, <2>3 DEF Signal
<1>2. CASE wstate' = [wstate EXCEPT ![s] = "RUNNING"] /\ LAUNCH_WORKER(s)
  <2>1. With("READY_TO_RUN")' \subseteq With("READY_TO_RUN")
    BY <1>2 DEF With, SessionsOK
  <2>2. At({"new", "engine", "look", "woken"}) \subseteq
          At({"new", "engine", "look", "woken"})'
    BY <1>2 DEF LAUNCH_WORKER, At, WorkersOK
  <2> QED  BY <2>1, <2>2 DEF NoSleepOverWork
<1> QED  BY <1>1, <1>2 DEF GiveThread

\* No step leaves every worker asleep with a session ready.
LEMMA AwakeStep ==
  ASSUME SessionsOK, WorkersOK, CountersExact, NoSleepOverWork, [Next]_vars
  PROVE  NoSleepOverWork'
<1> USE DEF sessionVars, workerVars, controlVars
<1>0. UNCHANGED <<wstate, pc>> => NoSleepOverWork'
  BY DEF NoSleepOverWork, With, At
<1>1. ASSUME NEW s \in Sessions, mi_start_session(s)
      PROVE  NoSleepOverWork'
  BY <1>1, GiveThreadAwake DEF mi_start_session
<1>2. ASSUME NEW s \in Sessions, Input(s)
      PROVE  NoSleepOverWork'
  BY <1>2, <1>0 DEF Input
<1>3. ASSUME NEW w \in Workers, Work(w) \/ WaitTimesOut(w)
      PROVE  NoSleepOverWork'
  <2>1. CASE Begin(w) \/ EngineContinues(w) \/ EngineEnds(w) \/ LookTakes(w) \/ Wakes(w)
             \/ WaitTimesOut(w)
    <3>1. pc'[w] \in {"new", "engine", "look", "woken"}
      BY <2>1 DEF Begin, EngineContinues, EngineEnds, LookTakes, Wakes, WaitTimesOut, Take,
                  WorkersOK
    <3> QED  BY <3>1 DEF NoSleepOverWork, At
  <2>2. CASE LookQuits(w) \/ LookWaits(w)
    BY <2>2 DEF LookQuits, LookWaits, NoSleepOverWork, With
  <2> QED  BY <1>3, <2>1, <2>2 DEF Work
<1>4. CASE Control
  <2>1. CASE Prepare
    <3>1. With("READY_TO_RUN")' \subseteq With("READY_TO_RUN")
      BY <2>1 DEF Prepare, With, SessionsOK
    <3>2. UNCHANGED pc
      BY <2>1 DEF Prepare
    <3> QED  BY <3>1, <3>2 DEF NoSleepOverWork, At
  <2>2. CASE PollTimesOut \/ PollInterrupted \/ PollReports \/ Drain \/ DispatchDone
    BY <2>2, <1>0 DEF PollTimesOut, PollInterrupted, PollReports, Drain, DispatchDone
  <2>3. ASSUME NEW s \in Sessions, Dispatch(s)
        PROVE  NoSleepOverWork'
    BY <2>3, <1>0, GiveThreadAwake DEF Dispatch
  <2> QED  BY <1>4, <2>1, <2>2, <2>3 DEF Control
<1>5. CASE UNCHANGED vars
  BY <1>5, <1>0 DEF vars
<1> QED  BY <1>1, <1>2, <1>3, <1>4, <1>5 DEF Next

\* While a session is ready to run some worker is awake: a worker goes to
\* sleep or ends only after it has looked, under the mutex that every
\* READY_TO_RUN is set under, and a TASKMGR_COND_SIGNAL that finds nobody
\* blocked finds a worker that is past its wait.
THEOREM NoSleepOverWorkHolds == Spec => []NoSleepOverWork
<1> DEFINE Inv == SessionsOK /\ WorkersOK /\ ControlOK /\ CountersExact /\ NoSleepOverWork
<1>1. Init => Inv
  <2> SUFFICES ASSUME Init PROVE Inv
    OBVIOUS
  <2>1. NoSleepOverWork
    BY DEF Init, NoSleepOverWork, With
  <2> QED  BY <2>1, TypeInit, CountersInit
<1>2. Inv /\ [Next]_vars => Inv'
  BY TypeStep, CountersStep, AwakeStep
<1>3. Inv => NoSleepOverWork
  OBVIOUS
<1> QED  BY <1>1, <1>2, <1>3, PTL DEF Spec

\* A step makes no thread end, or it is a LookQuits of one of them.
LEMMA ThreadsStep ==
  ASSUME WorkersOK, [Next]_vars
  PROVE  \/ \A w \in Workers : pc[w] # "off" => pc'[w] # "off"
         \/ \E w \in Workers : LookQuits(w)
<1> USE DEF sessionVars, workerVars, controlVars, WorkersOK
<1>1. \A s \in Sessions : GiveThread(s) => \A w \in Workers : pc[w] # "off" => pc'[w] # "off"
  BY DEF GiveThread, Signal, LAUNCH_WORKER, At
<1>2. CASE \E w \in Workers : Work(w) \/ WaitTimesOut(w)
  BY <1>2 DEF Work, Begin, EngineContinues, EngineEnds, LookTakes, LookWaits, Wakes,
              WaitTimesOut, Take
<1>3. CASE Control
  BY <1>1, <1>3 DEF Control, Prepare, PollTimesOut, PollInterrupted, PollReports, Drain,
                    DispatchDone, Dispatch
<1>4. CASE \E s \in Sessions : mi_start_session(s) \/ Input(s)
  BY <1>1, <1>4 DEF mi_start_session, Input
<1>5. CASE UNCHANGED vars
  BY <1>5 DEF vars
<1> QED  BY <1>2, <1>3, <1>4, <1>5 DEF Next

\* min_worker is a number.
LEMMA MinimumType == min_worker \in Nat
  BY PoolAssumption DEF min_worker, MIN_WORKERS

\* No step takes the pool below min_worker: a worker ends only when the count
\* of those that have started is above it.
LEMMA MinimumStep ==
  ASSUME WorkersOK, CountersExact, CountersExact', MinimumKept, [Next]_vars
  PROVE  MinimumKept'
<1> DEFINE Threads == Workers \ At({"off"})
<1>1. IsFiniteSet(Threads) /\ IsFiniteSet(Threads')
  BY FS_Subset, PoolAssumption
<1>2. CASE \A w \in Workers : pc[w] # "off" => pc'[w] # "off"
  <2>1. Threads \subseteq Threads'
    BY <1>2 DEF At
  <2>2. Cardinality(Threads) <= Cardinality(Threads')
    BY <1>1, <2>1, FS_Subset
  <2>3. Cardinality(Threads) \in Nat /\ Cardinality(Threads') \in Nat
    BY <1>1, FS_CardinalityType
  <2> QED  BY <2>2, <2>3, MinimumType DEF MinimumKept
<1>3. CASE \E w \in Workers : LookQuits(w)
  <2> DEFINE Started == At({"engine", "look", "wait", "woken"})'
  <2>1. nb_workers' >= min_worker
    BY <1>3, MinimumType DEF LookQuits, TooMany, WorkersOK
  <2>2. Started \subseteq Threads'
    BY DEF At
  <2>3. Cardinality(Started) <= Cardinality(Threads')
    BY <1>1, <2>2, FS_Subset
  <2>4. Cardinality(Threads') \in Nat
    BY <1>1, FS_CardinalityType
  <2>5. nb_workers' = Cardinality(Started)
    BY DEF CountersExact
  <2>6. Cardinality(Started) \in Nat
    BY <1>1, <2>2, FS_Subset, FS_CardinalityType
  <2> QED  BY <2>1, <2>3, <2>4, <2>5, <2>6, MinimumType DEF MinimumKept
<1> QED  BY <1>2, <1>3, ThreadsStep

\* The pool never has fewer threads than min_worker.
THEOREM MinimumKeptHolds == Spec => []MinimumKept
<1> DEFINE Inv == SessionsOK /\ WorkersOK /\ ControlOK /\ CountersExact /\ MinimumKept
<1>1. Init => Inv
  <2> SUFFICES ASSUME Init PROVE Inv
    OBVIOUS
  <2>1. PICK crew \in SUBSET Workers :
          /\ Cardinality(crew) = min_worker
          /\ pc = [w \in Workers |-> IF w \in crew THEN "new" ELSE "off"]
    BY DEF Init
  <2>2. Workers \ At({"off"}) = crew
    BY <2>1 DEF At
  <2>3. MinimumKept
    BY <2>1, <2>2, MinimumType DEF MinimumKept
  <2> QED  BY <2>3, TypeInit, CountersInit
<1>2. Inv /\ [Next]_vars => Inv'
  BY TypeStep, CountersStep, MinimumStep
<1>3. Inv => MinimumKept
  OBVIOUS
<1> QED  BY <1>1, <1>2, <1>3, PTL DEF Spec

-----------------------------------------------------------------------------
(* Sessions that run *)

\* A session that gets a thread has it, if there was one to create.
LEMMA GiveThreadRuns ==
  ASSUME SessionsOK, WorkersOK, OwnerInv, RunningHasWorker, At({"off"}) # {},
         NEW s \in Sessions, GiveThread(s)
  PROVE  RunningHasWorker'
<1> USE DEF RunningHasWorker, With, SessionsOK, WorkersOK
<1>1. CASE wstate' = [wstate EXCEPT ![s] = "READY_TO_RUN"] /\ UNCHANGED task
  BY <1>1
<1>2. CASE wstate' = [wstate EXCEPT ![s] = "RUNNING"] /\ LAUNCH_WORKER(s)
  <2>1. PICK w \in Workers : pc[w] = "off" /\ task' = [task EXCEPT ![w] = s]
    BY <1>2 DEF LAUNCH_WORKER, At
  <2>2. task[w] = none
    BY <2>1 DEF OwnerInv, Placement
  <2>3. \A t \in Sessions : \A v \in Workers : task[v] = t => task'[v] = t
    BY <2>1, <2>2, PoolAssumption
  <2>4. task'[w] = s
    BY <2>1
  <2> QED  BY <1>2, <2>3, <2>4
<1> QED  BY <1>1, <1>2 DEF GiveThread

\* A worker that takes a session has had none.
LEMMA TakeRuns ==
  ASSUME SessionsOK, WorkersOK, OwnerInv, RunningHasWorker, NEW w \in Workers,
         NEW s \in Sessions, pc[w] \in {"look", "woken"}, Take(w, s)
  PROVE  RunningHasWorker'
<1> USE DEF RunningHasWorker, With, SessionsOK, WorkersOK
<1>1. task[w] = none
  BY DEF OwnerInv, Placement
<1>2. wstate' = [wstate EXCEPT ![s] = "RUNNING"] /\ task' = [task EXCEPT ![w] = s]
  BY DEF Take
<1>3. \A t \in Sessions : \A v \in Workers : task[v] = t => task'[v] = t
  BY <1>1, <1>2, PoolAssumption
<1>4. task'[w] = s
  BY <1>2
<1> QED  BY <1>2, <1>3, <1>4

\* While there is a thread to create no step leaves a running session without a
\* worker.
LEMMA RunsStep ==
  ASSUME SessionsOK, WorkersOK, OwnerInv, RunningHasWorker, At({"off"}) # {}, [Next]_vars
  PROVE  RunningHasWorker'
<1> USE DEF sessionVars, workerVars, controlVars
<1>0. UNCHANGED <<wstate, task>> => RunningHasWorker'
  BY DEF RunningHasWorker, With
<1>1. ASSUME NEW s \in Sessions, mi_start_session(s) \/ Input(s)
      PROVE  RunningHasWorker'
  BY <1>0, <1>1, GiveThreadRuns DEF mi_start_session, Input
<1>2. ASSUME NEW w \in Workers, Work(w) \/ WaitTimesOut(w)
      PROVE  RunningHasWorker'
  <2>1. CASE EngineContinues(w) \/ EngineEnds(w)
    <3>1. PICK st \in {"READY_TO_WAIT", "CLOSED"} :
            wstate' = [wstate EXCEPT ![task[w]] = st] /\ task' = [task EXCEPT ![w] = none]
      BY <2>1 DEF EngineContinues, EngineEnds
    <3>2. task[w] \in Sessions
      BY <2>1 DEF EngineContinues, EngineEnds, OwnerInv, Placement
    <3>3. ASSUME NEW t \in Sessions, wstate'[t] = "RUNNING"
          PROVE  \E v \in Workers : task'[v] = t
      <4>1. t # task[w] /\ wstate[t] = "RUNNING"
        BY <3>1, <3>2, <3>3 DEF SessionsOK
      <4>2. PICK v \in Workers : task[v] = t
        BY <4>1 DEF RunningHasWorker, With
      <4>3. task'[v] = t
        BY <3>1, <4>1, <4>2 DEF WorkersOK
      <4> QED  BY <4>3
    <3> QED  BY <3>3 DEF RunningHasWorker, With
  <2>2. CASE LookTakes(w)
    BY <2>2, TakeRuns DEF LookTakes
  <2>3. CASE Wakes(w)
    BY <1>0, <2>3, TakeRuns DEF Wakes
  <2>4. CASE Begin(w) \/ LookQuits(w) \/ LookWaits(w) \/ WaitTimesOut(w)
    BY <1>0, <2>4 DEF Begin, LookQuits, LookWaits, WaitTimesOut
  <2> QED  BY <1>2, <2>1, <2>2, <2>3, <2>4 DEF Work
<1>3. CASE Control
  <2>1. CASE Prepare
    <3>1. UNCHANGED task /\ \A s \in Sessions : wstate'[s] = "RUNNING" => wstate[s] = "RUNNING"
      BY <2>1 DEF Prepare, With, SessionsOK
    <3> QED  BY <3>1 DEF RunningHasWorker, With
  <2>2. CASE PollTimesOut \/ PollInterrupted \/ PollReports \/ Drain \/ DispatchDone
    BY <1>0, <2>2 DEF PollTimesOut, PollInterrupted, PollReports, Drain, DispatchDone
  <2>3. ASSUME NEW s \in Sessions, Dispatch(s)
        PROVE  RunningHasWorker'
    BY <1>0, <2>3, GiveThreadRuns DEF Dispatch
  <2> QED  BY <1>3, <2>1, <2>2, <2>3 DEF Control
<1>4. CASE UNCHANGED vars
  BY <1>0, <1>4 DEF vars
<1> QED  BY <1>1, <1>2, <1>3, <1>4 DEF Next

\* Only a thread that cannot be created strands a session: as long as one can,
\* whatever runs has a worker.
THEOREM StrandedByThreadHolds == Spec => StrandedByThread
<1> DEFINE Kept == RunningHasWorker /\ At({"off"}) # {} => RunningHasWorker'
<1>1. SessionsOK /\ WorkersOK /\ OwnerInv /\ [Next]_vars => [Kept]_vars
  BY RunsStep
<1> QED  BY <1>1, OwnerInvariant, PTL DEF Spec, StrandedByThread

-----------------------------------------------------------------------------
(***************************************************************************)
(* The life of a session.  What a step does to PlaceOf is read off the two *)
(* things it depends on: the state of the session and the worker in whose  *)
(* mi_engine it is.                                                        *)
(***************************************************************************)

\* A session is in mi_engine only while it is RUNNING.
LEMMA InEngineRuns ==
  ASSUME OwnerInv, NEW s \in Sessions, InEngine(s)
  PROVE  wstate[s] = "RUNNING"
<1>1. PICK w \in Workers : task[w] = s /\ pc[w] = "engine"
  BY DEF InEngine
<1>2. task[w] # none
  BY <1>1, PoolAssumption
<1> QED  BY <1>1, <1>2 DEF OwnerInv, OneWorkerPerSession

\* The place of a session that is in the list and not in mi_engine.
LEMMA PlaceRows ==
  ASSUME NEW s \in Sessions
  PROVE  /\ wstate[s] = "absent" => PlaceOf(s) = "absent"
         /\ wstate[s] = "CLOSED" => PlaceOf(s) = "over"
         /\ wstate[s] = "RUNNING" /\ InEngine(s) => PlaceOf(s) = "engine"
         /\ wstate[s] \notin {"absent", "CLOSED"} /\ ~InEngine(s) => PlaceOf(s) = "pool"
  BY DEF PlaceOf

\* The same for the state after a step.
LEMMA PlaceRowsNext ==
  ASSUME NEW s \in Sessions
  PROVE  /\ wstate'[s] = "absent" => PlaceOf(s)' = "absent"
         /\ wstate'[s] = "CLOSED" => PlaceOf(s)' = "over"
         /\ wstate'[s] = "RUNNING" /\ InEngine(s)' => PlaceOf(s)' = "engine"
         /\ wstate'[s] \notin {"absent", "CLOSED"} /\ ~InEngine(s)' => PlaceOf(s)' = "pool"
  BY DEF PlaceOf

\* A session whose state and worker do not change stays where it is.
LEMMA PlaceKept ==
  ASSUME NEW s \in Sessions, wstate'[s] = wstate[s], InEngine(s)' <=> InEngine(s)
  PROVE  PlaceOf(s)' = PlaceOf(s)
  BY DEF PlaceOf

\* One session goes from one place to another.
Goes(s, from, to) ==
  /\ PlaceOf(s) = from /\ PlaceOf(s)' = to
  /\ \A t \in Sessions \ {s} : PlaceOf(t)' = PlaceOf(t)

PlaceMap == [s \in Sessions |-> PlaceOf(s)]

\* A session that goes moves as ConnectionLife says.
LEMMA GoesMoves ==
  ASSUME NEW s \in Sessions, NEW from, NEW to, Goes(s, from, to), NEW places, to \in places
  PROVE  Life!Moves(s, from, places)
<1>1. PlaceMap' = [PlaceMap EXCEPT ![s] = to]
  BY DEF Goes, PlaceMap
<1>2. PlaceMap[s] = from
  BY DEF Goes, PlaceMap
<1> QED  BY <1>1, <1>2 DEF Life!Moves, PlaceMap

\* A session that gets a thread is in the pool, and every other one where it was.
LEMMA GiveThreadPlace ==
  ASSUME SessionsOK, WorkersOK, OwnerInv, NEW s \in Sessions,
         wstate[s] \in {"absent", "WAITING"}, GiveThread(s)
  PROVE  PlaceOf(s)' = "pool" /\ \A t \in Sessions \ {s} : PlaceOf(t)' = PlaceOf(t)
<1>1. wstate' \in {[wstate EXCEPT ![s] = "READY_TO_RUN"], [wstate EXCEPT ![s] = "RUNNING"]}
  BY DEF GiveThread
<1>2. \A w \in Workers : /\ pc'[w] = "engine" <=> pc[w] = "engine"
                         /\ pc[w] = "engine" => task'[w] = task[w]
  BY DEF GiveThread, Signal, LAUNCH_WORKER, At, WorkersOK
<1>3. \A t \in Sessions : InEngine(t)' <=> InEngine(t)
  BY <1>2 DEF InEngine
<1>4. ~InEngine(s)
  BY InEngineRuns
<1>5. wstate'[s] \notin {"absent", "CLOSED"}
      /\ \A t \in Sessions \ {s} : wstate'[t] = wstate[t]
  BY <1>1 DEF SessionsOK
<1>6. PlaceOf(s)' = "pool"
  BY <1>3, <1>4, <1>5, PlaceRowsNext
<1> QED  BY <1>3, <1>5, <1>6, PlaceKept

\* A worker takes a session from the pool into mi_engine.
LEMMA TakePlace ==
  ASSUME SessionsOK, WorkersOK, OwnerInv, NEW w \in Workers, NEW s \in Sessions,
         pc[w] \in {"look", "woken"}, Take(w, s)
  PROVE  Goes(s, "pool", "engine")
<1>1. /\ wstate[s] = "READY_TO_RUN" /\ wstate' = [wstate EXCEPT ![s] = "RUNNING"]
      /\ task' = [task EXCEPT ![w] = s] /\ pc' = [pc EXCEPT ![w] = "engine"]
  BY DEF Take, FirstReady
<1>2. ~InEngine(s)
  BY <1>1, InEngineRuns
<1>3. InEngine(s)'
  BY <1>1 DEF InEngine, WorkersOK
<1>4. ASSUME NEW t \in Sessions \ {s}
      PROVE  wstate'[t] = wstate[t] /\ (InEngine(t)' <=> InEngine(t))
  BY <1>1 DEF InEngine, WorkersOK, SessionsOK
<1>5. wstate'[s] = "RUNNING"
  BY <1>1 DEF SessionsOK
<1>6. PlaceOf(s) = "pool" /\ PlaceOf(s)' = "engine"
  BY <1>1, <1>2, <1>3, <1>5, PlaceRows, PlaceRowsNext
<1> QED  BY <1>4, <1>6, PlaceKept DEF Goes

\* mi_engine comes back: the session is in the pool again, or over.
LEMMA EnginePlace ==
  ASSUME SessionsOK, WorkersOK, OwnerInv, NEW w \in Workers,
         EngineContinues(w) \/ EngineEnds(w)
  PROVE  \E s \in Sessions : Goes(s, "engine", "pool") \/ Goes(s, "engine", "over")
<1>1. PICK st \in {"READY_TO_WAIT", "CLOSED"} :
        /\ wstate' = [wstate EXCEPT ![task[w]] = st]
        /\ task' = [task EXCEPT ![w] = none] /\ pc' = [pc EXCEPT ![w] = "look"]
  BY DEF EngineContinues, EngineEnds
<1>2. pc[w] = "engine" /\ task[w] \in Sessions
  BY DEF EngineContinues, EngineEnds, OwnerInv, Placement
<1>3. PICK s \in Sessions : s = task[w]
  BY <1>2
<1>4. InEngine(s) /\ wstate[s] = "RUNNING"
  <2>1. InEngine(s)
    BY <1>2, <1>3 DEF InEngine
  <2> QED  BY <2>1, InEngineRuns
<1>5. ~InEngine(s)'
  <2>1. \A v \in Workers : task[v] = s => v = w
    BY <1>2, <1>3, PoolAssumption DEF OwnerInv, OneWorkerPerSession
  <2>2. \A v \in Workers \ {w} : task'[v] # s
    BY <1>1, <2>1 DEF WorkersOK
  <2>3. pc'[w] = "look"
    BY <1>1 DEF WorkersOK
  <2> QED  BY <2>2, <2>3 DEF InEngine
<1>6. ASSUME NEW t \in Sessions \ {s}
      PROVE  wstate'[t] = wstate[t] /\ (InEngine(t)' <=> InEngine(t))
  <2>1. wstate'[t] = wstate[t]
    BY <1>1, <1>3 DEF SessionsOK
  <2>2. \A v \in Workers \ {w} : pc'[v] = pc[v] /\ task'[v] = task[v]
    BY <1>1 DEF WorkersOK
  <2>3. task[w] # t /\ task'[w] # t
    BY <1>1, <1>3, PoolAssumption DEF WorkersOK
  <2> QED  BY <2>1, <2>2, <2>3 DEF InEngine
<1>7. wstate'[s] = st
  BY <1>1, <1>3 DEF SessionsOK
<1>8. PlaceOf(s) = "engine" /\ PlaceOf(s)' \in {"pool", "over"}
  BY <1>4, <1>5, <1>7, PlaceRows, PlaceRowsNext
<1>9. \A t \in Sessions \ {s} : PlaceOf(t)' = PlaceOf(t)
  BY <1>6, PlaceKept
<1> QED  BY <1>8, <1>9 DEF Goes

\* A new worker that was created for a session enters mi_engine with it.
LEMMA BeginPlace ==
  ASSUME SessionsOK, WorkersOK, OwnerInv, NEW w \in Workers, Begin(w), task[w] # none
  PROVE  \E s \in Sessions : Goes(s, "pool", "engine")
<1>1. /\ pc[w] = "new" /\ pc' = [pc EXCEPT ![w] = "engine"]
      /\ UNCHANGED <<task, wstate>>
  BY DEF Begin, sessionVars
<1>2. PICK s \in Sessions : s = task[w]
  BY DEF WorkersOK
<1>3. wstate[s] = "RUNNING" /\ \A v \in Workers : task[v] = s => v = w
  BY <1>2 DEF OwnerInv, OneWorkerPerSession
<1>4. ~InEngine(s)
  BY <1>1, <1>3 DEF InEngine
<1>5. InEngine(s)'
  BY <1>1, <1>2 DEF InEngine, WorkersOK
<1>6. ASSUME NEW t \in Sessions \ {s}
      PROVE  wstate'[t] = wstate[t] /\ (InEngine(t)' <=> InEngine(t))
  <2>1. \A v \in Workers \ {w} : pc'[v] = pc[v]
    BY <1>1 DEF WorkersOK
  <2>2. task[w] # t
    BY <1>2
  <2> QED  BY <1>1, <2>1, <2>2 DEF InEngine
<1>7. PlaceOf(s) = "pool" /\ PlaceOf(s)' = "engine"
  BY <1>1, <1>3, <1>4, <1>5, PlaceRows, PlaceRowsNext
<1>8. \A t \in Sessions \ {s} : PlaceOf(t)' = PlaceOf(t)
  BY <1>6, PlaceKept
<1> QED  BY <1>7, <1>8 DEF Goes

\* The controller's sweep takes sessions from the pool to their end, and leaves
\* the others where they are.
LEMMA PreparePlace ==
  ASSUME SessionsOK, WorkersOK, OwnerInv, Prepare
  PROVE  \E old \in SUBSET Sessions : Life!Expire(old)
<1>1. PICK old \in SUBSET With("WAITING") :
        wstate' = [s \in Sessions |->
                     IF s \in old THEN "CLOSED"
                     ELSE IF rebuild_set
                             /\ s \in (With("WAITING") \ old) \cup With("READY_TO_WAIT")
                          THEN "WAITING"
                     ELSE wstate[s]]
  BY DEF Prepare
<1>2. old \in SUBSET Sessions /\ \A s \in old : wstate[s] = "WAITING"
  BY <1>1 DEF With
<1>3. \A s \in Sessions : InEngine(s)' <=> InEngine(s)
  BY DEF Prepare, InEngine, workerVars
<1>4. ASSUME NEW s \in old
      PROVE  PlaceOf(s) = "pool" /\ PlaceOf(s)' = "over"
  <2>1. ~InEngine(s)
    BY <1>2, <1>4, InEngineRuns
  <2>2. wstate'[s] = "CLOSED"
    BY <1>1, <1>2, <1>4
  <2> QED  BY <1>2, <1>4, <2>1, <2>2, PlaceRows, PlaceRowsNext
<1>5. ASSUME NEW s \in Sessions \ old
      PROVE  PlaceOf(s)' = PlaceOf(s)
  <2>1. CASE wstate'[s] = wstate[s]
    BY <1>3, <2>1, PlaceKept
  <2>2. CASE wstate'[s] = "WAITING" /\ wstate[s] \in {"WAITING", "READY_TO_WAIT"}
    <3>1. ~InEngine(s)
      BY <2>2, InEngineRuns
    <3> QED  BY <1>3, <2>2, <3>1, PlaceRows, PlaceRowsNext
  <2>3. wstate'[s] = wstate[s]
        \/ (wstate'[s] = "WAITING" /\ wstate[s] \in {"WAITING", "READY_TO_WAIT"})
    BY <1>1 DEF With
  <2> QED  BY <2>1, <2>2, <2>3
<1>6. PlaceMap' = [s \in Sessions |-> IF s \in old THEN "over" ELSE PlaceMap[s]]
  BY <1>2, <1>4, <1>5 DEF PlaceMap
<1>7. \A s \in old : PlaceMap[s] = "pool"
  BY <1>2, <1>4 DEF PlaceMap
<1> QED  BY <1>2, <1>6, <1>7 DEF Life!Expire, PlaceMap

\* Sessions and workers that stay where they are keep the map.
LEMMA PlaceMapKept ==
  ASSUME \A s \in Sessions : PlaceOf(s)' = PlaceOf(s)
  PROVE  PlaceMap' = PlaceMap
  BY DEF PlaceMap

\* Every step moves the sessions as ConnectionLife does, or not at all.
LEMMA PoolLifeStep ==
  ASSUME SessionsOK, WorkersOK, OwnerInv, [Next]_vars
  PROVE  [Life!LifeNext]_PlaceMap
<1> USE DEF sessionVars, workerVars, controlVars
<1>0. ASSUME UNCHANGED wstate, \A s \in Sessions : InEngine(s)' <=> InEngine(s)
      PROVE  PlaceMap' = PlaceMap
  BY <1>0, PlaceKept, PlaceMapKept
<1>e. ASSUME UNCHANGED <<wstate, pc, task>>
      PROVE  PlaceMap' = PlaceMap
  BY <1>e, <1>0 DEF InEngine
<1>1. ASSUME NEW s \in Sessions, mi_start_session(s)
      PROVE  Life!LifeNext
  <2>1. Goes(s, "absent", "pool")
    BY <1>1, GiveThreadPlace, PlaceRows DEF mi_start_session, Goes
  <2>2. Life!Starts(s)
    BY <2>1, GoesMoves DEF Life!Starts
  <2> QED  BY <2>2 DEF Life!LifeNext
<1>2. ASSUME NEW s \in Sessions, Input(s)
      PROVE  PlaceMap' = PlaceMap
  BY <1>2, <1>e DEF Input
<1>3. ASSUME NEW s \in Sessions, Goes(s, "pool", "engine")
      PROVE  Life!LifeNext
  <2>1. Life!Enters(s)
    BY <1>3, GoesMoves DEF Life!Enters
  <2> QED  BY <2>1 DEF Life!LifeNext
<1>4. ASSUME NEW s \in Sessions, Goes(s, "engine", "pool") \/ Goes(s, "engine", "over")
      PROVE  Life!LifeNext
  <2>1. Life!Leaves(s)
    BY <1>4, GoesMoves DEF Life!Leaves
  <2> QED  BY <2>1 DEF Life!LifeNext
<1>5. ASSUME NEW w \in Workers, Work(w) \/ WaitTimesOut(w)
      PROVE  [Life!LifeNext]_PlaceMap
  <2>1. CASE Begin(w)
    <3>1. CASE task[w] = none
      <4>1. pc[w] = "new" /\ pc' = [pc EXCEPT ![w] = "look"] /\ UNCHANGED <<wstate, task>>
        BY <2>1, <3>1 DEF Begin
      <4>2. \A s \in Sessions : InEngine(s)' <=> InEngine(s)
        BY <4>1 DEF InEngine, WorkersOK
      <4> QED  BY <1>0, <4>1, <4>2
    <3>2. CASE task[w] # none
      BY <1>3, <2>1, <3>2, BeginPlace
    <3> QED  BY <3>1, <3>2
  <2>2. CASE EngineContinues(w) \/ EngineEnds(w)
    BY <1>4, <2>2, EnginePlace
  <2>3. CASE LookTakes(w)
    BY <1>3, <2>3, TakePlace DEF LookTakes
  <2>4. CASE Wakes(w) /\ \E s \in Sessions : Take(w, s)
    BY <1>3, <2>4, TakePlace DEF Wakes
  <2>5. CASE \/ Wakes(w) /\ pc' = [pc EXCEPT ![w] = "look"] /\ UNCHANGED <<wstate, task>>
             \/ LookQuits(w) \/ LookWaits(w) \/ WaitTimesOut(w)
    <3>1. /\ pc[w] # "engine" /\ UNCHANGED <<wstate, task>>
          /\ \E p \in {"look", "off", "wait", "woken"} : pc' = [pc EXCEPT ![w] = p]
      BY <2>5 DEF Wakes, LookQuits, LookWaits, WaitTimesOut
    <3>2. \A s \in Sessions : InEngine(s)' <=> InEngine(s)
      BY <3>1 DEF InEngine, WorkersOK
    <3> QED  BY <1>0, <3>1, <3>2
  <2>6. Wakes(w) => \/ \E s \in Sessions : Take(w, s)
                    \/ pc' = [pc EXCEPT ![w] = "look"] /\ UNCHANGED <<wstate, task>>
    BY DEF Wakes
  <2> QED  BY <1>5, <2>1, <2>2, <2>3, <2>4, <2>5, <2>6 DEF Work
<1>6. CASE Control
  <2>1. CASE Prepare
    BY <2>1, PreparePlace DEF Life!LifeNext
  <2>2. CASE PollTimesOut \/ PollInterrupted \/ PollReports \/ Drain \/ DispatchDone
    BY <1>e, <2>2 DEF PollTimesOut, PollInterrupted, PollReports, Drain, DispatchDone
  <2>3. ASSUME NEW s \in Sessions, Dispatch(s)
        PROVE  PlaceMap' = PlaceMap
    <3>1. CASE UNCHANGED <<wstate, pc, task>>
      BY <1>e, <3>1
    <3>2. CASE wstate[s] = "WAITING" /\ GiveThread(s)
      <4>1. PlaceOf(s)' = "pool" /\ \A t \in Sessions \ {s} : PlaceOf(t)' = PlaceOf(t)
        BY <3>2, GiveThreadPlace
      <4>2. PlaceOf(s) = "pool"
        BY <3>2, InEngineRuns, PlaceRows
      <4> QED  BY <4>1, <4>2, PlaceMapKept
    <3> QED  BY <2>3, <3>1, <3>2 DEF Dispatch
  <2> QED  BY <1>6, <2>1, <2>2, <2>3 DEF Control
<1>7. CASE UNCHANGED vars
  BY <1>e, <1>7 DEF vars
<1> QED  BY <1>1, <1>2, <1>5, <1>6, <1>7 DEF Next

\* The pool implements ConnectionLife for any number of sessions and threads:
\* mutex, condition variable, pipe and poll set do not show in a session's life.
THEOREM PoolKeepsLife == Spec => KeepsLife
<1>1. Init => Life!LifeInit
  <2> SUFFICES ASSUME Init PROVE Life!LifeInit
    OBVIOUS
  <2>1. \A s \in Sessions : PlaceOf(s) = "absent"
    BY PlaceRows DEF Init
  <2> QED  BY <2>1 DEF Life!LifeInit
<1>2. SessionsOK /\ WorkersOK /\ OwnerInv /\ [Next]_vars => [Life!LifeNext]_PlaceMap
  BY PoolLifeStep
<1> QED  BY <1>1, <1>2, OwnerInvariant, PTL DEF Spec, KeepsLife, Life!LifeSpec, PlaceMap

=============================================================================
