# pmilter in TLA+

pmilter is a mail filter: an MTA (postfix, sendmail) connects to it and sends
one command per step of the SMTP dialogue; libmilter decodes the commands and
invokes callbacks; pmilter's callbacks run mruby scripts, whose status becomes
the reply.  This directory has a model of the parts of pmilter that hold state
over several steps, TLC runs that check it on small instances, and TLAPS
proofs of the main invariants for every instance.

Paths below are relative to the repository.

## The system and its parts

| Part | Source | Module |
|---|---|---|
| Protocol engine of one connection | `src/libmilter/engine.c` | `MilterEngine`; what it promises: `MilterContract` |
| MTA and engine, replies and modifications on the wire | `engine.c`, `src/libmilter/smfi.c` | `MilterDialogue` (extends `MilterEngine`) |
| pmilter's callbacks, `pmilter_state`, `command_rec` | `src/pmilter.c`, `src/pmilter_config.c` | `PmilterSession` (extends `MilterEngine`) |
| Macros (`{rcpt_addr}`) | `engine.c`, `src/libmilter/smfi.c` | `PmilterSession` |
| Worker pool | `src/libmilter/worker.c` | `WorkerPool`; what it promises each connection: `ConnectionLife` |
| Listener, signals, `smfi_main`, `main` | `listener.c`, `signal.c`, `main.c`, `pmilter.c` | `MilterLifecycle`; also implements `ConnectionLife` |
| Wire I/O | `src/libmilter/comm.c` | outcomes only |
| Message modification API | `src/libmilter/smfi.c` | `MilterDialogue`: the three operations pmilter exports |
| Configuration, TOML | `src/pmilter_config.c` | its results are CONSTANTS |
| mruby classes | `src/pmilter_mruby_*.c` | status, record reads, modifications |
| Logging, utilities, example filter, string helpers | | not modelled: no state |
| mruby, libtoml, ICU | third party | not modelled |

How they interact: the listener accepts a connection, sets the private data of
its context to the configuration and gives it to the pool
(`mi_start_session`).  A worker runs `mi_engine` until there is nothing more
to read, then hands the session back; the controller polls it and gives it to
a worker again.  So a session is run by one thread at a time
(`OneWorkerPerSession` of `WorkerPool`, which is proved), and `MilterEngine` and
`PmilterSession` may describe one session as a sequential program.  Around all
this is the process: `main` runs the listener between two scripts and frees the
configuration, and a thread of its own waits for the signal that stops both.

## Modules

### MilterEngine

`mi_engine` for one connection.  A step is a command received (`Receive`,
`ReceiveFromHelo`, `Ignore`: the three outcomes of `trans_ok`), a callback
returning (`Returns`, `AbortReturns`, `CloseReturns`), arguments that do not
decode (`GiveUp`), or the end of the connection (`Lost`; `Expired` when the
pool's controller closes an old session).

| Variable | Code |
|---|---|
| `state` | `ctx_state`/`curstate` |
| `call` | the callback the `st_*` function in hand still has to invoke |
| `abortFirst` | `fi_abort` comes before it |
| `ending` | the loop was left with something other than `MI_CONTINUE` |
| `tx`, `connected`, `replies` | history: the last message, the connection, the replies to this command |

`CONSTANTS` say which commands the MTA sends, which may be malformed, which
failures happen, which statuses the filter returns.  Option negotiation has
two outcomes here (`MilterDialogue` has the actions it settles); pmilter answers
`SMFIS_ALL_OPTS` and registers all callbacks, so `fix_stm` changes nothing and
`trans_ok` is the lookup `TransOK`.

A verdict counts as having settled the message once its reply was written: if
the write fails the MTA never learns it, the session ends, and the message is
aborted like any other (`tx` is `Announced`, not `Settled`).

A status is one of the `SMFIS_*` constants pmilter exports.  `Pmilter.status=`
takes any integer; others are left out.

### PmilterSession

Every `mrb_xxfi_*` function as an action on top of the engine.

| Variable | Code |
|---|---|
| `priv` | what `smfi_getpriv` returns: configuration or state |
| `rec` | `pmilter->cmd`; strings are NULL, a copy, a live pointer or a dangling one |
| `slots` | which `pmilter->mruby_*_handler` are not NULL |
| `status` | `pmilter->status` |
| `script` | the script that runs now |
| `dropped` | history: memory the last step lost the last pointer to |
| `macro`, `rcpt` | `{rcpt_addr}` in the context; the recipient of the RCPT in hand |

A script is a start and an end; between them the invariants see what it can
read.  `EarlyEnd`, `Families`, `RcptMacro`, `EnableMruby`, `Broken` choose the
environment.  When a handler would follow a pointer of the wrong type it has
no step: `PrivAsExpected` says when that can be.  Memory exhaustion is left out.

### WorkerPool

The listener, the workers and the controller as they share the session list,
`tm_nb_idle`, `tm_nb_workers`, the condition variable and the event pipe.  A
section between `TASKMGR_LOCK` and `TASKMGR_UNLOCK` is one step, cut at the
condition wait.  `wstate` is `ctx_wstate`; `pc` and `task` are the workers'
control points and sessions; `rebuild_set`, `pfd`, `control` and `events` are
the controller's locals.  `Workers` is the number of threads the system lets
the process create: beyond it `thread_create` fails.

`nfd` is a loop-local of the controller and uninitialized when the poll set is
not rebuilt; the model keeps the previous set.  gcc's code at -O0 and -O2 keeps
`nfd` in one stack slot, which amounts to that.  A descriptor that was closed
and given to a new connection while still in the old poll set is not modelled:
the new session is not `WAITING`, so such an event only makes the set anew.

### MilterContract

The promise of `mfapi.h` to the author of a filter, without commands or states:
a message announced by `xxfi_envfrom` has exactly one end (a verdict, `xxfi_eom`
or `xxfi_abort`), no second `xxfi_connect` comes before the `xxfi_close` of the
first, no message outlives its connection.  An `xxfi_close` may come without an
`xxfi_connect`.  `MilterEngine` implements it (`KeepsContract`) with `connected`,
`tx` and `Ended` for its variables.

### ConnectionLife

What becomes of an accepted connection, without threads, locks and queues: it is
started or turned away, goes from the pool into `mi_engine` and back, and is
over when the engine or the controller's sweep closes it, the sweep only while no
worker runs it.  Nothing leads out of "over".  Two modules implement it, both
under the name `KeepsLife`:

* `WorkerPool`, with a place computed from `wstate`, `task` and `pc` (`PlaceOf`).
  Its sweep closes any set of old sessions in one step, which is why `Expire`
  takes a set.
* `MilterLifecycle`, with `conn`.  Its sweep has the close callback as a step of
  its own, which is why there is a place "closing".

The two models of the pool are so tied to one statement of what it does.

### MilterDialogue

The engine with an MTA at the other end of a wire.  The MTA is external: it sends
what SMTP allows next (`MayFollow`), one command at a time, and waits for the
reply unless the command has none (`NoReply`).

| Variable | Code |
|---|---|
| `offer`, `aflags` | the MTA's SMFIC_OPTNEG; `ctx_aflags` |
| `sent`, `wire` | the two directions of the socket |
| `hand` | the command `mi_engine` has in hand |
| `mta`, `wait` | where the MTA is in SMTP; the command it waits for a reply to |

`Replies` is what `sendreply` writes, `Modify` a modification by the script that
runs now, guarded by `mi_sendok`.  `st_optionneg` is the whole negotiation as
pmilter uses it: a version that is too old ends the session, `SMFIS_ALL_OPTS`
takes the actions that are offered.  Which reply code stands for which status is
abstracted to the status itself.

### MilterLifecycle

`main`, `smfi_main` and `mi_listener` as one thread (`pc`), `mi_signal_thread`
(`signal`), and of the pool what depends on `MilterStop`.

| Variable | Code |
|---|---|
| `MilterStop`, `listenfd`, `L_Mutex`, `M_Mutex`, `tm_signature` | the same |
| `fails` | `scnt`, `acnt`, `mcnt`, `tcnt` |
| `conn` | where a connection is: in the pool, in `mi_engine`, in the close of the controller's sweep, over |
| `asked` | the signal received |
| `closes`, `late` | history: closes of the socket; sessions started after a stop |
| `config` | whether `main` has freed the configuration |

`L_Mutex` is held from `Lock` to `Select`, `M_Mutex` while `mi_stop_milters` closes
the socket, the pool's mutex while the controller sweeps; other critical sections
are one step.  A connection in `"pool"` may be in any state `WorkerPool` has for a
session that no worker runs.  `sigwait` and `poll` errors are taken together up to
the point where the thread gives up.

## Runs

| Run | Result | What it shows |
|---|---|---|
| `engine_any` | pass | all commands in any order, all failures, all statuses: `ConnectionBalanced`, and `ForgottenOnlyBy`: a message that is open is forgotten in three ways only |
| `engine_mail` | pass | ordinary mail commands in any order: `MessageOrder`, `MessageClosed`, and the engine implements `MilterContract` |
| `engine_unknown` | violation | an unknown SMTP command inside a message: no abort afterwards |
| `session_mail` | pass | all commands but UNKNOWN, all failures and statuses, scripts that decide, fail or do not compile: private data, freeing, valid reads, right recipient, only scripts decide; compiled code is freed, and the sender's copy is lost in no other case than those of `session_sender` |
| `session_early_end` | violation | a connection that is lost before CONNECT reaches close with the configuration as state |
| `session_sender` | violation | the sender's copy of a message that did not get to eom is lost |
| `pool` | pass | the safety properties of the pool; it implements `ConnectionLife`; a session is stranded only by a failed `thread_create`; a session with input, or given to the idle workers, is run |
| `pool_no_thread` | violation | a failed `thread_create` leaves a session RUNNING with no thread |
| `lifecycle_stop` | pass | the socket is used only while open and closed once, at most one session is started late, no run begins after the free, the strongest reason for a stop wins (`StrongestStop`), no circle of waits, main only advances after a stop, `ConnectionLife` is implemented, a signal ends the process |
| `lifecycle_exit` | violation | a SIGTERM between the listener's check and its lock is reported as a failure |
| `dialogue` | pass | one reply per command, modifications before the reply to the end of the message, an MTA in a message has an engine in one, the engine never runs on by itself, nobody waits for ever |
| `dialogue_quit_nc` | violation | QUIT_NC outside the end of a message is ignored, and the next CONNECT gets no reply |

Known limits that the passing runs exclude by a constant.  Each but the one
marked shows as a counterexample when the constant is changed:

* `"expired"` in `Failures`: a message open when the controller closes the
  session gets no abort (`MessageClosed`).
* `"EOB_CHUNK"` in `Commands` with the status SKIP, or with `"unsent"` in
  `Failures`: neither xxfi_eom nor xxfi_abort is called (`MessageClosed`).
* `"MAIL"` in `Malformed`: an abort without xxfi_envfrom (`MessageOrder`).
* `Families` with `"local"`, or `"connect"` in `Broken`: connect returns before
  `smfi_setpriv` (`SessionFreed`, `PrivAsExpected`).
* `"CONNECT"` or `"OPTNEG"` in `Malformed`: close runs without a connect, as in
  `session_early_end` (`PrivAsExpected`).
* `EarlyEnd` with other commands than those of `session_early_end`: a HELO or MAIL
  before CONNECT reaches its handler with the configuration, too (`PrivAsExpected`).
* `Families` with `"unknown"`: `hostaddr` is NULL, the handler follows it, and
  the model has no step for it (no counterexample: the session just stops).
* `EnableMruby = FALSE`: the state is not freed (`SessionFreed`).
* `RcptMacro = FALSE` with an RCPT script: envelope_to is NULL
  (`RecipientMatches`).
* `"UNKNOWN"` in the session's `Commands`: a message that the engine forgot may
  reach eom with an envelope_to that was freed (`ReadsValid`).
* `"EOB_CHUNK"` in the dialogue's `Commands`: a last chunk with a verdict of its
  own gets two replies (`InStep`).
* `"NOREPLY"` or `"ALL_OPTS"` in the dialogue's `Verdicts`, or `"HELO"` in its
  `Malformed`: the MTA waits for a reply that never comes (`NoMutualWait`).

Seven properties carry their limit in their statement:

* `ForgottenOnlyBy` names the three ways: the pool controller closes the session
  for its age, SMFIC_UNKNOWN leaves the states of a message (`engine_unknown`), or
  xxfi_body has a verdict of its own on a last chunk, after which xxfi_eom is skipped.
* `PrivAsExpected` and `SessionFreed` except sessions whose close script did not
  compile: mrb_xxfi_close returns before it frees the state, which a CONNECT after
  QUIT_NC then takes for the configuration.  The code left in the slot of close
  marks those sessions.

* `ChangesAtEom` excepts sessions that are ending: after an end of message the
  state is still `ST_ENDM` when the close callback runs, and its script may send
  a modification.  SKIP is sent whether the MTA offered to understand it or not;
  the MTA of the model does.
* `NoRunAfterFree` is about runs that begin: one that began before, and a sweep
  of the controller, may use the freed configuration; nothing waits for them.
* `SameMessage` goes one way.  After a DISCARD of a recipient the MTA is done with
  the message, while the engine stays in it (`CT_IGNO`) until the next MAIL.
* `CodeFreed` excepts scripts that do not compile: their code is left in its slot
  and lost when the callback is invoked again.  It supposes mruby enabled: without
  an interpreter the handlers fill the slots all the same, and free none.

### Bounds

* Engine: the constants are sets of kinds (15 commands, 8 statuses), all of
  them used; nothing is bounded.  Any number of messages and connections.
* Session: two recipients, so that one can be taken for another, and scripts
  for all callbacks but two, so that a status can be left over from a callback
  with a script to one without.  The number of messages is not bounded.
* Pool: two sessions compete for a worker and for the controller; three threads
  with a minimum of two let the pool grow and shrink again.  A session counts as
  run when it is RUNNING, so a failed `thread_create` (`pool_no_thread`) is not held
  against it.  Without symmetry, because of the liveness property.
* Lifecycle: two clients, so that one more could be started after the one that
  was being accepted; `MAX_FAILS` is 2 for 16, so that a failure can be tried again
  and then be the last; all faults and signals.
* Dialogue: two commands on the wire (one without reply and its successor), three
  packets back (two modifications and the reply), four offers.

The safety properties do not depend on these bounds: they are proved.

Deadlock is not checked: a session that has ended, a pool whose sessions are all
closed, an MTA that has left and a process that has exited have nothing left to
do.

### Fairness

* `WorkerPool`: weak fairness of each worker, of the end of each condition wait
  and of the controller: threads are scheduled, `COND_TIMEOUT` and `POLL_TIMEOUT`
  are finite, and `mi_engine` comes back because its reads and writes time out.
  Nothing is assumed of the MTA or the listener.  `poll` is interrupted only when
  it has no event to report.
* `MilterLifecycle`: weak fairness of the main thread, of the signal thread once
  it has a signal, and of the controller's sweep.  The listener's wait ends after
  `MI_CHK_TIME` at the latest.  Nothing is assumed of signals, clients or workers.
* `MilterDialogue`: weak fairness of the engine's steps (a session with input is
  run: `ReadyIsRun`), of the MTA's reading, and of its noticing that the connection
  was closed.  Nothing makes the MTA send.

A script that never ends is excluded by all three.

## Proofs

In `MilterEngineProofs`, `PmilterSessionProofs`, `MilterDialogueProofs`,
`WorkerPoolProofs` and `MilterLifecycleProofs`; all obligations are checked.

| Theorem | Assumptions | Argument |
|---|---|---|
| `EngineTypeCorrect` | `EngineAssumption` | `EngineInv`: the type and `PendingMatches`, which ties the callback in hand to the state and on which the next four rest |
| `MessageOrderHolds` | as above; no `UNKNOWN`, no malformed `MAIL` | `OrderInv`: between commands, a message state means that `tx` is open |
| `MessageClosedHolds` | also no `expired`; last chunks only with deciding statuses and written replies | `ClosedInv`: an open message is in a message state or about to be aborted, decided or ended |
| `ForgottenOnlyByHolds` | `EngineAssumption` only | action by action, from `EngineInv`: a command that is legal in a message belongs to it, any other raises `abortFirst`, and so does every way out of the loop |
| `ConnectionBalancedHolds` | `EngineAssumption` only | `ConnectionInv`: in the states from which CONNECT is accepted, and at the end, no connection is open |
| `KeepsContractHolds` | those of `MessageClosedHolds` | every step of the engine is a step of the contract, from `OrderInv`, `ClosedInv` and `ConnectionInv` |
| `SessionImplementsEngine` | `EngineAssumption` | each handler contains the engine's action, the end of a script included, by `ScriptInv` (the script that runs is that of the callback in hand); then the engine's theorems carry over, as `SessionConnectionBalanced` shows |
| `SessionTypeCorrect` | `SessionAssumption` | `RecordOK` (what each string may be) and `RestOK` |
| `OnlyScriptsDecideHolds` | no clients on a local socket, if mruby is enabled | a message becomes decided only where the engine goes on with a status other than CONTINUE, and only the end of a script yields one. Needs no invariant |
| `PrivAsExpectedHolds`, `SessionFreedHolds` | `OrderlySetup`: negotiation and CONNECT arrive and decode, the script of connect compiles and no client is on a local socket, if mruby is enabled; the second theorem with mruby enabled | `PrivInv`: the private data is the state exactly between connect and close, or the code of a close script is left |
| `RecipientMatchesHolds` | the MTA sends the macro | `RcptInv`: from the macro to the end of the handler it is that of the RCPT in hand |
| `SessionKeepsContract` | those of `KeepsContractHolds` | `SessionImplementsEngine` and `KeepsContractHolds` |
| `CodeFreedHolds` | `SessionAssumption` (mruby enabled is a hypothesis of `CodeFreed`) | `CodeInv`: the same, also while a script runs on a state that is already given up |
| `SenderLostEarlyHolds` | `SessionAssumption` | `SenderInv`: after an xxfi_eom whose script compiled, the sender's copy is freed until the next MAIL |
| `ReadsValidHolds` | also no `UNKNOWN` | `ReadsInv`: which strings are live in which state |
| `DialogueImplementsEngine`, `DialogueTypeCorrect` | `DialogueAssumption` | an MTA and a wire only choose which commands arrive |
| `InStepHolds`, `NoMutualWaitHolds` | `PlainDialogue`: the known limits above | `DialogueInv`: a command is on the wire, in hand, answered, or there is none; and in each phase the engine will take what the MTA may send next |
| `ChangesAtEomHolds` | `PlainDialogue` | `ChangesInv`: while a modification is on the wire the MTA waits for the end of the message and has sent nothing more |
| `SameMessageHolds` | `PlainDialogue` | `MessageInv`: also while a command or a reply is under way, by what the reply will do to the MTA |
| `EngineAdvancesHolds` | `DialogueAssumption` | each row of `CallWork` is above those it can lead to; a command taken from the wire costs less than it frees |
| `SelectsOpenHolds`, `ClosedOnceHolds` | `LifecycleAssumption` | while the listener is in its wait it holds `L_Mutex`, and the socket was open when it took it |
| `StrongestStopHolds` | `LifecycleAssumption` | `RequestInv`: which thread can have failed or been told where, so that a request once made stays one; then only the two calls of `mi_stop_milters` matter |
| `OneLateHolds`, `NoRunAfterFreeHolds` | `LifecycleAssumption` | when the listener is past its loop `MilterStop` is set, and it never returns to 0 |
| `LifecycleTypeCorrect` | `LifecycleAssumption` | a counter at its limit is never counted up again: `Failed` has left the loop |
| `NoLockCycleHolds` | `LifecycleAssumption` | who holds each mutex, as a function of the control points |
| `StopAdvancesHolds` | `LifecycleAssumption` | action by action; `Check` is the one way back into the loop |
| `LifecycleKeepsLife` | `LifecycleAssumption` | every action moves at most one connection, along an edge of `ConnectionLife` |
| `PoolTypeCorrect` | `PoolAssumption` | inductive, in three parts |
| `NoLostWakeupHolds` | `PoolAssumption` | while the pipe is drained `rebuild_set` is true |
| `OneWorkerPerSessionHolds` | `PoolAssumption` | `Placement`: only a new worker or one in the engine has a session |
| `CountersExactHolds` | `PoolAssumption` | every move of a worker changes each counter by what the places count for |
| `NoSleepOverWorkHolds` | `PoolAssumption` | `nb_idle > 0` means that some worker is in its wait or past it, by `CountersExact`: the signal wakes it, or it is awake already |
| `MinimumKeptHolds` | `PoolAssumption` | only `LookQuits` ends a thread, and by `CountersExact` it leaves `min_worker` started ones |
| `StrandedByThreadHolds` | `PoolAssumption` | `OneWorkerPerSession`: a worker drops its session only with its mark, and a new thread is given one |
| `PoolKeepsLife` | `PoolAssumption` | `Placement` and `OneWorkerPerSession`: a session the sweep finds WAITING is in no engine, and the worker that ends one was alone with it |

Type invariants are split into parts (symbols, Booleans, numbers) because the
SMT backend does not mix Booleans with arithmetic.

Only model-checked: the liveness properties `ReadyIsRun`, `StopHonoured` and
`Answered`.  They need fairness, and so ENABLED, which is outside what the prover
does.  Their safety halves are proved:

* `StopHonoured`: `StopAdvances` (main takes at most 16 more steps) and
  `NoLockCycle` (whoever main waits for does not wait).
* `Answered`: `EngineAdvances` (the engine uses up its work) and `NoMutualWait`
  (an MTA that waits has given it some).
* `ReadyIsRun`: `NoLostWakeup` and `NoSleepOverWork` (nobody sleeps over a ready
  session), `StrandedByThread` (the one way to lose a worker).

What is missing from each is that an enabled step is taken.  The violated
properties (`SenderFreed`, `RunningHasWorker`, `ToldToExit` and the instances of
`MessageClosed`, `PrivAsExpected` and `NoMutualWait` in the violation runs) have no
theorem; `SenderLostEarly` and `StrandedByThread` say how far the first two go.

## Seeded faults

A definition named `<Definition>_<Fault>` is a variant of `<Definition>` with a
plausible error; no specification uses it.  Putting it in the place of the
original makes TLC report the property it belongs to (`mutants` in
`PROJECT.json`).

## Not modelled

* Third-party code: mruby, libtoml and ICU, by far most of the lines under `src/`
  (about 613,000).  pmilter uses them through a few calls whose outcomes are in the
  models: a script ends with a status, an exception or a compile error; a
  configuration value is a constant.  They have no state that pmilter's
  correctness depends on beyond that.
* `comm.c`: packets are read and written as bytes with time-outs; its outcomes are
  steps of the engine.  The wire of `MilterDialogue` is made of packets.
* Negotiations other than pmilter's.  It answers `SMFIS_ALL_OPTS` and registers every
  callback, so no step is switched off, `fix_stm` changes nothing and no `SMFIP_NR_*`
  bit is set; other filters would need all of these.
* Modifications pmilter does not export, `smfi_setreply`, and the contents of
  macros other than `{rcpt_addr}`: each is one call without a state of its own.
* The parsing of the socket description (`mi_milteropen`), of the command line and of
  the TOML file, before any thread: one outcome that goes on, one that exits.
* Failures of memory allocation in handlers, of the mutex calls, and of the
  controller before its loop.
* The array of poll descriptors grows by `PFD_STEP`; the model's set has no size.
* `handler.c`, `monitor.c` and what else is compiled out with the pool of workers.
