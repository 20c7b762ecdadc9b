--------------------------- MODULE ConnectionLife ---------------------------
(***************************************************************************)
(* What becomes of a connection once it was accepted, without threads,     *)
(* locks and queues: it is in the pool or in mi_engine, and in the end     *)
(* over.  WorkerPool says how threads bring this about, MilterLifecycle    *)
(* what a stop of the milter does to it; both implement this module.       *)
(***************************************************************************)
CONSTANT Connections

VARIABLE place \* "absent", "pool", "engine", "closing" or "over", for each connection

LifeInit == place = [c \in Connections |-> "absent"]

Moves(c, from, to) ==
  /\ place[c] = from
  /\ \E p \in to : place' = [place EXCEPT ![c] = p]

\* mi_start_session, or the listener's close when that fails
Starts(c) == Moves(c, "absent", {"pool", "over"})

\* mi_worker runs mi_engine ...
Enters(c) == Moves(c, "pool", {"engine"})

\* ... which comes back with the session to be continued, or closed.
Leaves(c) == Moves(c, "engine", {"pool", "over"})

\* mi_pool_controller closes connections that were idle for too long: never one
\* that mi_engine has.  Its close callback may be a step of its own.
Expire(old) ==
  /\ \A c \in old : place[c] = "pool"
  /\ \E p \in {"closing", "over"} :
       place' = [c \in Connections |-> IF c \in old THEN p ELSE place[c]]

Closes(c) == Moves(c, "closing", {"over"})

LifeNext ==
  \/ \E c \in Connections : Starts(c) \/ Enters(c) \/ Leaves(c) \/ Closes(c)
  \/ \E old \in SUBSET Connections : Expire(old)

LifeSpec == LifeInit /\ [][LifeNext]_place

=============================================================================
