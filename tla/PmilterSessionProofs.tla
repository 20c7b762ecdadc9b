------------------------ MODULE PmilterSessionProofs ------------------------
(***************************************************************************)
(* Proofs about PmilterSession, for every configuration, every set of      *)
(* scripts and every MTA that meets the assumptions a theorem names.       *)
(***************************************************************************)
EXTENDS PmilterSession, MilterEngineProofs

(***************************************************************************)
(* The session implements the engine: pmilter's handlers only choose what  *)
(* the engine leaves open, the value a callback returns.  The end of a     *)
(* script is the return of the callback that started it; that no other     *)
(* callback is in hand by then needs an invariant.                         *)
(***************************************************************************)
ScriptInv ==
  script # "none" => script \in Handlers /\ script = Current /\ EnableMruby

\* When a handler returns a status that pmilter can produce, the engine makes
\* one of its own steps.
LEMMA GoesOnIsEngineStep ==
  ASSUME NEW cb \in Scriptable, NEW r \in Verdicts, Current = cb, EngineGoesOn(cb, r)
  PROVE  EngineNext
<1>1. CASE cb = "abort"
  BY <1>1 DEF EngineGoesOn, EngineNext
<1>2. CASE cb = "close"
  BY <1>2 DEF EngineGoesOn, EngineNext
<1>3. CASE cb \notin {"abort", "close"}
  <2>1. call = cb /\ Returns(r)
    BY <1>3 DEF EngineGoesOn, Current
  <2>2. r \in Results(call)
    BY <2>1 DEF Results, Scriptable
  <2>3. QED
    BY <2>1, <2>2 DEF EngineNext
<1>4. QED
  BY <1>1, <1>2, <1>3

\* What a handler without interest in the private data does to the engine and
\* to the script in hand.
LEMMA HandlerSteps ==
  ASSUME NEW cb \in Scriptable, NEW r2, NEW lost, Handler(cb, r2, lost), ScriptInv
  PROVE  [EngineNext]_engineVars /\ ScriptInv'
<1> USE SessionAssumption
<1>1. Current = cb /\ script = "none" /\ status' = "CONTINUE"
  BY DEF Handler, StatusReset
<1>2. CASE script' = "none"
  <2>1. EngineGoesOn(cb, "CONTINUE") \/ EngineGoesOn(cb, "TEMPFAIL")
    BY <1>1, <1>2 DEF Handler, Return, HasScript, Scriptable, Callbacks, Judging
  <2>2. QED
    BY <1>1, <1>2, <2>1, GoesOnIsEngineStep DEF ScriptInv
<1>3. CASE script' # "none"
  <2>1. script' = cb /\ HasScript(cb) /\ UNCHANGED engineVars
    BY <1>1, <1>3 DEF Handler
  <2>2. QED
    BY <1>1, <2>1 DEF ScriptInv, HasScript, engineVars, Current
<1>4. QED
  BY <1>2, <1>3

\* Every step of a session is a step of the engine, or none.
LEMMA SessionSteps ==
  ASSUME ScriptInv, [SessionNext]_vars
  PROVE  [EngineNext]_engineVars /\ ScriptInv'
<1> USE SessionAssumption
<1> DEFINE Goal == [EngineNext]_engineVars /\ ScriptInv'
<1>1. ASSUME NEW c \in Commands, Command(c) PROVE Goal
  BY <1>1 DEF Command, EngineNext, ScriptInv
<1>2. ASSUME NEW a \in Recipients, Macro(a) PROVE Goal
  BY <1>2 DEF Macro, ScriptInv
<1>3. CASE MtaGone
  BY <1>3 DEF MtaGone, EngineNext, ScriptInv
<1>4. CASE Undecoded
  <2>1. script = "none"
    BY <1>4 DEF Undecoded, GiveUp, ScriptInv, Current, Scriptable, Callbacks, Judging
  <2>2. QED
    BY <1>4, <2>1 DEF Undecoded, EngineNext, ScriptInv
<1>5. CASE mrb_xxfi_negotiate
  <2>1. ~abortFirst
    BY <1>5 DEF mrb_xxfi_negotiate, Returns, LastChunkPasses, Answer
  <2>2. script = "none"
    BY <1>5, <2>1 DEF mrb_xxfi_negotiate, ScriptInv, Current, Scriptable
  <2>3. "OPTIONS" \in Results(call)
    BY <1>5 DEF mrb_xxfi_negotiate, Results
  <2>4. QED
    BY <1>5, <2>2, <2>3 DEF mrb_xxfi_negotiate, EngineNext, ScriptInv
<1>6. CASE mrb_xxfi_connect
  <2>1. Current = "connect" /\ script = "none" /\ "connect" \in Scriptable
    BY <1>6 DEF mrb_xxfi_connect, Scriptable, Callbacks, Judging
  <2>2. CASE script' = "none"
    <3>1. EngineGoesOn("connect", "CONTINUE") \/ EngineGoesOn("connect", "TEMPFAIL")
      BY <1>6, <2>2 DEF mrb_xxfi_connect, Return, StatusReset
    <3>2. QED
      BY <2>1, <2>2, <3>1, GoesOnIsEngineStep DEF ScriptInv
  <2>3. CASE script' # "none"
    <3>1. script' = "connect" /\ HasScript("connect") /\ UNCHANGED engineVars
      BY <1>6, <2>1, <2>3 DEF mrb_xxfi_connect
    <3>2. QED
      BY <2>1, <3>1 DEF ScriptInv, HasScript, engineVars, Current
  <2>4. QED
    BY <2>2, <2>3
<1>7. CASE mrb_xxfi_helo
  BY <1>7, HandlerSteps DEF mrb_xxfi_helo, Scriptable, Callbacks, Judging
<1>8. CASE mrb_xxfi_envfrom
  BY <1>8, HandlerSteps DEF mrb_xxfi_envfrom, Scriptable, Callbacks, Judging
<1>9. CASE mrb_xxfi_envrcpt
  BY <1>9, HandlerSteps DEF mrb_xxfi_envrcpt, Scriptable, Callbacks, Judging
<1>10. CASE mrb_xxfi_header
  BY <1>10, HandlerSteps DEF mrb_xxfi_header, Scriptable, Callbacks, Judging
<1>11. CASE mrb_xxfi_body
  BY <1>11, HandlerSteps DEF mrb_xxfi_body, Scriptable, Callbacks, Judging
<1>12. ASSUME NEW cb \in {"data", "eoh", "eom", "abort", "unknown"}, mrb_xxfi_plain(cb)
       PROVE  Goal
  BY <1>12, HandlerSteps DEF mrb_xxfi_plain, Scriptable, Callbacks, Judging
<1>13. CASE mrb_xxfi_close
  <2>1. Current = "close" /\ script = "none" /\ "close" \in Scriptable
    BY <1>13 DEF mrb_xxfi_close, Scriptable, Callbacks
  <2>2. CASE script' = "none"
    <3>1. EngineGoesOn("close", "CONTINUE") \/ EngineGoesOn("close", "TEMPFAIL")
      BY <1>13, <2>2 DEF mrb_xxfi_close, Close, Return, StatusReset
    <3>2. QED
      BY <2>1, <2>2, <3>1, GoesOnIsEngineStep DEF ScriptInv
  <2>3. CASE script' # "none"
    <3>1. script' = "close" /\ HasScript("close") /\ UNCHANGED engineVars
      BY <1>13, <2>1, <2>3 DEF mrb_xxfi_close
    <3>2. QED
      BY <2>1, <3>1 DEF ScriptInv, HasScript, engineVars, Current
  <2>4. QED
    BY <2>2, <2>3
<1>14. ASSUME NEW r \in Verdicts, ScriptEnds(r) PROVE Goal
  <2>1. script \in Scriptable /\ script = Current /\ script' = "none" /\ status' = r
    BY <1>14 DEF ScriptEnds, ScriptInv
  <2>2. EngineGoesOn(script, r)
    BY <1>14, <2>1 DEF ScriptEnds, Close, Return
  <2>3. QED
    BY <2>1, <2>2, GoesOnIsEngineStep DEF ScriptInv
<1>15. CASE UNCHANGED vars
  BY <1>15 DEF vars, engineVars, ScriptInv, Current
<1>16. QED
  BY <1>1, <1>2, <1>3, <1>4, <1>5, <1>6, <1>7, <1>8, <1>9, <1>10, <1>11, <1>12,
     <1>13, <1>14, <1>15 DEF SessionNext

\* A session of pmilter is a session of libmilter: SessionSpec implements
\* EngineSpec, with nothing assumed of scripts or MTA.  What is proved of the
\* engine holds in every session.
THEOREM SessionImplementsEngine ==
  SessionSpec => EngineSpec
<1>1. SessionInit => EngineInit /\ ScriptInv
  BY DEF SessionInit, ScriptInv
<1>2. ScriptInv /\ [SessionNext]_vars => [EngineNext]_engineVars /\ ScriptInv'
  BY SessionSteps
<1>3. QED
  BY <1>1, <1>2, PTL DEF SessionSpec, EngineSpec

\* So pmilter's own handlers see their callbacks balanced: for every xxfi_connect
\* one xxfi_close, however the session ends.
THEOREM SessionConnectionBalanced ==
  SessionSpec => []ConnectionBalanced
BY SessionImplementsEngine, ConnectionBalancedHolds, PTL

-----------------------------------------------------------------------------
(***************************************************************************)
(* Who decides.  A message becomes decided only where mi_engine goes on    *)
(* with a status other than CONTINUE.                                      *)
(***************************************************************************)

\* CONTINUE, and what negotiation yields, decide nothing.
LEMMA PassingDecidesNothing ==
  ASSUME NEW r \in {"CONTINUE", "OPTIONS"}, Returns(r), tx # "decided"
  PROVE  tx' # "decided"
BY DEF Returns, LastChunkPasses, Answer, Settled, Announced, AfterVerdict

\* A handler lets the message pass, unless its own script does not compile.
LEMMA HandlerDecides ==
  ASSUME NEW cb \in Scriptable, NEW r2, NEW lost, Handler(cb, r2, lost),
         tx # "decided", tx' = "decided"
  PROVE  call \in Broken
<1>1. Current = cb
  BY DEF Handler
<1>2. /\ ~EngineGoesOn(cb, "CONTINUE")
      /\ cb \notin {"abort", "close"} \/ ~EngineGoesOn(cb, "TEMPFAIL")
  BY PassingDecidesNothing DEF EngineGoesOn, AbortReturns, CloseReturns
<1>3. cb \in Broken /\ EngineGoesOn(cb, "TEMPFAIL")
  BY <1>2 DEF Handler, Return, StatusReset, engineVars
<1>4. QED
  BY <1>1, <1>2, <1>3 DEF Current

\* Every step that decides a message is the end of a script that says so, or
\* the return of a callback whose script does not compile.
LEMMA DecidingSteps ==
  ASSUME EnableMruby => "local" \notin Families,
         [SessionNext]_vars, tx # "decided", tx' = "decided"
  PROVE  (script # "none" /\ status' # "CONTINUE") \/ call \in Broken
<1> DEFINE Goal == (script # "none" /\ status' # "CONTINUE") \/ call \in Broken
<1>1. ASSUME NEW c \in Commands, Command(c) PROVE Goal
  BY <1>1 DEF Command, Receive, ReceiveFromHelo, Ignore
<1>2. ASSUME NEW a \in Recipients, Macro(a) PROVE Goal
  BY <1>2 DEF Macro, engineVars
<1>3. CASE MtaGone
  BY <1>3 DEF MtaGone, Lost, Expired
<1>4. CASE Undecoded
  BY <1>4 DEF Undecoded, GiveUp
<1>5. CASE mrb_xxfi_negotiate
  BY <1>5, PassingDecidesNothing DEF mrb_xxfi_negotiate
<1>6. CASE mrb_xxfi_connect
  <2>1. ~EngineGoesOn("connect", "CONTINUE")
    BY PassingDecidesNothing DEF EngineGoesOn
  <2>2. EngineGoesOn("connect", "TEMPFAIL") => call = "connect"
    BY <1>6 DEF EngineGoesOn, mrb_xxfi_connect, Current
  <2>3. QED
    BY <1>6, <2>1, <2>2 DEF mrb_xxfi_connect, Return, StatusReset, engineVars
<1>7. CASE mrb_xxfi_helo
  BY <1>7, HandlerDecides DEF mrb_xxfi_helo, Scriptable, Callbacks, Judging
<1>8. CASE mrb_xxfi_envfrom
  BY <1>8, HandlerDecides DEF mrb_xxfi_envfrom, Scriptable, Callbacks, Judging
<1>9. CASE mrb_xxfi_envrcpt
  BY <1>9, HandlerDecides DEF mrb_xxfi_envrcpt, Scriptable, Callbacks, Judging
<1>10. CASE mrb_xxfi_header
  BY <1>10, HandlerDecides DEF mrb_xxfi_header, Scriptable, Callbacks, Judging
<1>11. CASE mrb_xxfi_body
  BY <1>11, HandlerDecides DEF mrb_xxfi_body, Scriptable, Callbacks, Judging
<1>12. ASSUME NEW cb \in {"data", "eoh", "eom", "abort", "unknown"}, mrb_xxfi_plain(cb)
       PROVE  Goal
  BY <1>12, HandlerDecides DEF mrb_xxfi_plain, Scriptable, Callbacks, Judging
<1>13. CASE mrb_xxfi_close
  BY <1>13 DEF mrb_xxfi_close, Close, Return, EngineGoesOn, CloseReturns, engineVars
<1>14. ASSUME NEW r \in Verdicts, ScriptEnds(r) PROVE Goal
  <2>1. script # "none" /\ status' = r /\ EngineGoesOn(script, r)
    BY <1>14 DEF ScriptEnds, Close, Return
  <2>2. r # "CONTINUE"
    BY <2>1, PassingDecidesNothing DEF EngineGoesOn, AbortReturns, CloseReturns
  <2>3. QED
    BY <2>1, <2>2
<1>15. CASE UNCHANGED vars
  BY <1>15 DEF vars
<1>16. QED
  BY <1>1, <1>2, <1>3, <1>4, <1>5, <1>6, <1>7, <1>8, <1>9, <1>10, <1>11, <1>12,
     <1>13, <1>14, <1>15 DEF SessionNext

\* Only a script decides a message, or its failure to compile: whatever ran
\* before, no handler of pmilter.c returns a status left over from an earlier
\* callback.  (For a client on a local socket mrb_xxfi_connect itself fails.)
THEOREM OnlyScriptsDecideHolds ==
  ASSUME EnableMruby => "local" \notin Families
  PROVE  SessionSpec => OnlyScriptsDecide
<1>1. [SessionNext]_vars =>
        [tx' = "decided" /\ tx # "decided" =>
           \/ script # "none" /\ status' # "CONTINUE"
           \/ call \in Broken]_vars
  BY DecidingSteps
<1>2. QED
  BY <1>1, PTL DEF SessionSpec, OnlyScriptsDecide

-----------------------------------------------------------------------------
(***************************************************************************)
(* The private data.  Where connect does not fail and the MTA begins with  *)
(* OPTNEG and CONNECT, the private data is a pmilter_state exactly while   *)
(* the engine has a connection, and after a close script that did not      *)
(* compile, whose code is then still in its slot.                          *)
(***************************************************************************)
OrderlySetup ==
  /\ EarlyEnd = FALSE
  /\ "OPTNEG" \notin Malformed /\ "CONNECT" \notin Malformed
  /\ "connect" \notin Broken
  /\ EnableMruby => "local" \notin Families

PrivInv ==
  /\ connected => priv = "state"
  /\ ~connected => /\ priv = "config" \/ "close" \in slots
                   /\ ~abortFirst
                   /\ call \in {"none", "negotiate", "connect"}

\* A callback other than connect and close runs, and returns, on a connection.
LEMMA ReturnKeepsConnection ==
  ASSUME NEW cb \in Scriptable \ {"connect", "close"}, NEW r, Current = cb,
         EngineInv, PrivInv, EngineGoesOn(cb, r)
  PROVE  connected /\ connected'
<1>1. connected
  BY DEF PrivInv, Current, Scriptable, Callbacks, Judging
<1>2. QED
  BY <1>1 DEF EngineGoesOn, AbortReturns, Returns, LastChunkPasses, Answer

\* The handlers that leave the private data alone keep PrivInv.
LEMMA HandlerKeepsPriv ==
  ASSUME NEW cb \in Scriptable \ {"connect", "close"}, NEW r2, NEW lost,
         Handler(cb, r2, lost), EngineInv, PrivInv
  PROVE  PrivInv'
<1>1. Current = cb /\ priv' = priv
  BY DEF Handler
<1>2. CASE UNCHANGED engineVars
  <2>1. connected
    BY <1>1 DEF PrivInv, Current, Scriptable, Callbacks, Judging
  <2>2. QED
    BY <1>1, <1>2, <2>1 DEF engineVars, PrivInv
<1>3. CASE ~UNCHANGED engineVars
  <2>1. PICK r : EngineGoesOn(cb, r)
    BY <1>3 DEF Handler, Return
  <2>2. QED
    BY <1>1, <2>1, ReturnKeepsConnection DEF PrivInv
<1>4. QED
  BY <1>2, <1>3

\* Every step keeps PrivInv.
LEMMA PrivInvStep ==
  ASSUME OrderlySetup, EngineInv, ConnectionInv, ScriptInv, PrivInv, [SessionNext]_vars
  PROVE  PrivInv'
<1> USE EngineAssumption, SessionAssumption
<1>1. ASSUME NEW c \in Commands, Command(c) PROVE PrivInv'
  <2>1. connected' = connected /\ priv' = priv /\ slots' = slots
    BY <1>1 DEF Command, Receive, ReceiveFromHelo, Ignore
  <2>2. CASE connected
    BY <2>1, <2>2 DEF PrivInv
  <2>3. CASE ~connected
    <3>1. c \in {"OPTNEG", "CONNECT"} /\ TransOK(state, CommandState[c])
      BY <1>1, <2>3 DEF Command, MaySend, OrderlySetup
    <3>2. Receive(c) /\ c \notin Malformed
      BY <1>1, <3>1 DEF Command, ReceiveFromHelo, Ignore, OrderlySetup
    <3>3. CommandCallback[c] \in {"negotiate", "connect"}
      BY <3>1 DEF CommandCallback
    <3>4. QED
      BY <2>1, <2>3, <3>2, <3>3 DEF Receive, Dispatch, PrivInv
  <2>4. QED
    BY <2>2, <2>3
<1>2. ASSUME NEW a \in Recipients, Macro(a) PROVE PrivInv'
  BY <1>2 DEF Macro, engineVars, PrivInv
<1>3. CASE MtaGone
  BY <1>3 DEF MtaGone, OrderlySetup, Lost, Expired, PrivInv
<1>4. CASE Undecoded
  BY <1>4 DEF Undecoded, GiveUp, PrivInv
<1>5. CASE mrb_xxfi_negotiate
  <2>1. ~connected /\ call' = "none" /\ priv' = priv /\ slots' = slots
    BY <1>5 DEF mrb_xxfi_negotiate, OrderlySetup, ConnectionInv
  <2>2. Answer("OPTIONS")
    BY <1>5 DEF mrb_xxfi_negotiate, Returns, LastChunkPasses
  <2>3. connected' = FALSE
    BY <1>5, <2>1, <2>2 DEF mrb_xxfi_negotiate, Answer
  <2>4. ~Leave(state)
    BY <2>1 DEF Leave
  <2>5. abortFirst' = abortFirst /\ ~abortFirst
    BY <2>2, <2>4 DEF Answer
  <2>6. QED
    BY <2>1, <2>3, <2>5 DEF PrivInv
<1>6. CASE mrb_xxfi_connect
  <2>1. call = "connect"
    BY <1>6 DEF mrb_xxfi_connect, Current
  <2>2. CASE UNCHANGED engineVars
    <3>1. priv = "config" /\ priv' = priv
      BY <1>6, <2>1, <2>2 DEF mrb_xxfi_connect, Return, EngineGoesOn, Returns,
                              LastChunkPasses, Answer, engineVars, Leave
    <3>2. QED
      BY <2>2, <3>1 DEF engineVars, PrivInv
  <2>3. CASE ~UNCHANGED engineVars
    <3>1. EngineGoesOn("connect", "CONTINUE") /\ priv' = "state"
      BY <1>6, <2>3 DEF mrb_xxfi_connect, OrderlySetup, Return, StatusReset
    <3>2. connected'
      BY <2>1, <3>1 DEF EngineGoesOn, Returns, LastChunkPasses, Answer
    <3>3. QED
      BY <3>1, <3>2 DEF PrivInv
  <2>4. QED
    BY <2>2, <2>3
<1>7. CASE mrb_xxfi_helo
  BY <1>7, HandlerKeepsPriv DEF mrb_xxfi_helo, Scriptable, Callbacks, Judging
<1>8. CASE mrb_xxfi_envfrom
  BY <1>8, HandlerKeepsPriv DEF mrb_xxfi_envfrom, Scriptable, Callbacks, Judging
<1>9. CASE mrb_xxfi_envrcpt
  BY <1>9, HandlerKeepsPriv DEF mrb_xxfi_envrcpt, Scriptable, Callbacks, Judging
<1>10. CASE mrb_xxfi_header
  BY <1>10, HandlerKeepsPriv DEF mrb_xxfi_header, Scriptable, Callbacks, Judging
<1>11. CASE mrb_xxfi_body
  BY <1>11, HandlerKeepsPriv DEF mrb_xxfi_body, Scriptable, Callbacks, Judging
<1>12. ASSUME NEW cb \in {"data", "eoh", "eom", "abort", "unknown"}, mrb_xxfi_plain(cb)
       PROVE  PrivInv'
  BY <1>12, HandlerKeepsPriv DEF mrb_xxfi_plain, Scriptable, Callbacks, Judging
<1>13. CASE mrb_xxfi_close
  <2>1. CASE UNCHANGED engineVars
    <3>1. connected /\ priv' = priv
      BY <1>13, <2>1 DEF mrb_xxfi_close, Close, Return, EngineGoesOn, CloseReturns,
                         engineVars, Current, PrivInv
    <3>2. QED
      BY <2>1, <3>1 DEF engineVars, PrivInv
  <2>2. CASE ~UNCHANGED engineVars
    <3>1. CloseReturns
      BY <1>13, <2>2 DEF mrb_xxfi_close, Close, Return, EngineGoesOn
    <3>2. priv' = "config" \/ "close" \in slots'
      BY <1>13, <2>2 DEF mrb_xxfi_close, Close, SlotAfter, HasScript
    <3>3. QED
      BY <3>1, <3>2 DEF CloseReturns, PrivInv
  <2>3. QED
    BY <2>1, <2>2
<1>14. ASSUME NEW r \in Verdicts, ScriptEnds(r) PROVE PrivInv'
  <2>1. script \in Scriptable /\ script = Current
    BY <1>14 DEF ScriptEnds, ScriptInv
  <2>2. CASE script = "close"
    BY <1>14, <2>2 DEF ScriptEnds, Close, Return, EngineGoesOn, CloseReturns, PrivInv
  <2>3. CASE script = "connect"
    <3>1. call = "connect" /\ Returns(r) /\ priv' = "state"
      BY <1>14, <2>1, <2>3 DEF ScriptEnds, Return, EngineGoesOn, Current
    <3>2. connected'
      BY <3>1 DEF Returns, LastChunkPasses, Answer
    <3>3. QED
      BY <3>1, <3>2 DEF PrivInv
  <2>4. CASE script \notin {"connect", "close"}
    <3>1. EngineGoesOn(script, r) /\ priv' = priv
      BY <1>14, <2>4 DEF ScriptEnds, Return
    <3>2. QED
      BY <2>1, <2>4, <3>1, ReturnKeepsConnection DEF PrivInv
  <2>5. QED
    BY <2>2, <2>3, <2>4
<1>15. CASE UNCHANGED vars
  BY <1>15 DEF vars, PrivInv
<1>16. QED
  BY <1>1, <1>2, <1>3, <1>4, <1>5, <1>6, <1>7, <1>8, <1>9, <1>10, <1>11, <1>12,
     <1>13, <1>14, <1>15 DEF SessionNext

\* Before the first command there is neither connection nor state.
LEMMA PrivInvInit ==
  SessionInit => EngineInv /\ ConnectionInv /\ ScriptInv /\ PrivInv
<1> SUFFICES ASSUME SessionInit PROVE EngineInv /\ ConnectionInv /\ ScriptInv /\ PrivInv
  OBVIOUS
<1>1. EngineInv
  BY EngineInvInit DEF SessionInit
<1>2. ConnectionInv /\ ScriptInv /\ PrivInv
  BY DEF SessionInit, EngineInit, ConnectionInv, ScriptInv, PrivInv
<1>3. QED
  BY <1>1, <1>2

\* Every handler finds the private data it casts smfi_getpriv's result to, for
\* every order of commands, every status and every set of scripts, as long as
\* connect does not fail and the MTA begins with OPTNEG and CONNECT; and a close
\* script that does not compile is the one way to leave the state behind.
THEOREM PrivAsExpectedHolds ==
  ASSUME OrderlySetup
  PROVE  SessionSpec => []PrivAsExpected
<1> DEFINE Inv == EngineInv /\ ConnectionInv /\ ScriptInv /\ PrivInv
<1>1. SessionInit => Inv
  BY PrivInvInit
<1>2. Inv /\ [SessionNext]_vars => Inv'
  BY SessionSteps, EngineInvStep, ConnectionInvStep, PrivInvStep
<1>3. Inv => PrivAsExpected
  BY DEF PrivInv, ConnectionInv, PrivAsExpected, Callbacks, Judging
<1>4. QED
  BY <1>1, <1>2, <1>3, PTL DEF SessionSpec

\* With mruby no step leaves a pmilter_state without a pointer.
LEMMA StateNotDropped ==
  ASSUME OrderlySetup, EnableMruby, "state" \notin dropped, [SessionNext]_vars
  PROVE  "state" \notin dropped'
<1> USE DEF OrderlySetup
<1>h. ASSUME NEW cb, NEW r2, NEW lost, Handler(cb, r2, lost), "state" \notin lost
      PROVE  "state" \notin dropped'
  BY <1>h DEF Handler, CodeLost, Unfinished
<1>1. ASSUME NEW c \in Commands, Command(c) PROVE "state" \notin dropped'
  BY <1>1 DEF Command
<1>2. ASSUME NEW a \in Recipients, Macro(a) PROVE "state" \notin dropped'
  BY <1>2 DEF Macro
<1>3. CASE MtaGone \/ Undecoded \/ mrb_xxfi_negotiate
  BY <1>3 DEF MtaGone, Undecoded, mrb_xxfi_negotiate
<1>4. CASE mrb_xxfi_connect
  BY <1>4 DEF mrb_xxfi_connect
<1>5. CASE mrb_xxfi_helo
  BY <1>5, <1>h DEF mrb_xxfi_helo
<1>6. CASE mrb_xxfi_envfrom
  BY <1>6, <1>h DEF mrb_xxfi_envfrom
<1>7. CASE mrb_xxfi_envrcpt
  BY <1>7, <1>h DEF mrb_xxfi_envrcpt
<1>8. CASE mrb_xxfi_header
  BY <1>8, <1>h DEF mrb_xxfi_header
<1>9. CASE mrb_xxfi_body
  BY <1>9, <1>h DEF mrb_xxfi_body
<1>10. ASSUME NEW cb \in {"data", "eoh", "eom", "abort", "unknown"}, mrb_xxfi_plain(cb)
       PROVE  "state" \notin dropped'
  BY <1>10, <1>h DEF mrb_xxfi_plain
<1>11. CASE mrb_xxfi_close
  BY <1>11 DEF mrb_xxfi_close, CodeLost, Unfinished
<1>12. ASSUME NEW r \in Verdicts, ScriptEnds(r) PROVE "state" \notin dropped'
  BY <1>12 DEF ScriptEnds
<1>13. CASE UNCHANGED vars
  BY <1>13 DEF vars
<1>14. QED
  BY <1>1, <1>2, <1>3, <1>4, <1>5, <1>6, <1>7, <1>8, <1>9, <1>10, <1>11, <1>12, <1>13
     DEF SessionNext

\* A session that is over has given its pmilter_state back, however it ended,
\* under the conditions of PrivAsExpectedHolds and with mruby handlers enabled.
THEOREM SessionFreedHolds ==
  ASSUME OrderlySetup, EnableMruby
  PROVE  SessionSpec => []SessionFreed
<1> DEFINE Inv == /\ EngineInv /\ ConnectionInv /\ ScriptInv /\ PrivInv
                  /\ "state" \notin dropped
<1>1. SessionInit => Inv
  BY PrivInvInit DEF SessionInit
<1>2. Inv /\ [SessionNext]_vars => Inv'
  BY SessionSteps, EngineInvStep, ConnectionInvStep, PrivInvStep, StateNotDropped
<1>3. Inv => SessionFreed
  BY DEF PrivInv, ConnectionInv, SessionFreed, Ended
<1>4. QED
  BY <1>1, <1>2, <1>3, PTL DEF SessionSpec

-----------------------------------------------------------------------------
(***************************************************************************)
(* The type of the session, in two parts: the record and the rest.         *)
(***************************************************************************)
RecordOK == rec \in Records

RestOK ==
  /\ priv \in {"config", "state"}
  /\ slots \subseteq Handlers
  /\ status \in Verdicts
  /\ script \in Handlers \cup {"none"}
  /\ dropped \subseteq {"state", "context", "code", "helohost", "envelope_from"}
  /\ macro \in Recipients \cup {NULL}
  /\ rcpt \in Recipients \cup {NULL}

\* The helpers on records yield records.
LEMMA RecordHelpers ==
  /\ NewRecord \in Records
  /\ \A r \in Records : /\ MacrosFreed(r) \in Records
                        /\ BufferFreed(r) \in Records
                        /\ PerSessionFreed(r) \in Records
<1>1. NewRecord \in Records
  BY DEF NewRecord, Records
<1>2. ASSUME NEW r \in Records PROVE MacrosFreed(r) \in Records
  BY DEF Records, MacrosFreed
<1>3. ASSUME NEW r \in Records PROVE BufferFreed(r) \in Records
  BY DEF Records, BufferFreed
<1>4. ASSUME NEW r \in Records PROVE PerSessionFreed(r) \in Records
  BY DEF Records, PerSessionFreed
<1>5. QED
  BY <1>1, <1>2, <1>3, <1>4

\* A handler that is given a record and kinds of memory keeps the types.
LEMMA HandlerKeepsTypes ==
  ASSUME NEW cb \in Scriptable, NEW r2 \in Records,
         NEW lost \in SUBSET {"helohost", "envelope_from"},
         Handler(cb, r2, lost), RestOK
  PROVE  /\ RecordOK'
         /\ macro' \in Recipients \cup {NULL} => RestOK'
<1> USE SessionAssumption
<1>1. RecordOK'
  BY RecordHelpers DEF Handler, Return, RecordOK
<1>2. slots' \subseteq Handlers
  BY DEF Handler, SlotAfter, RestOK
<1>3. dropped' \subseteq {"state", "context", "code", "helohost", "envelope_from"}
  BY DEF Handler, CodeLost, Unfinished
<1>4. rcpt' \in Recipients \cup {NULL}
  BY DEF Handler, Return, RestOK
<1>5. /\ priv' \in {"config", "state"}
      /\ status' \in Verdicts
      /\ script' \in Handlers \cup {"none"}
  BY DEF Handler, StatusReset, HasScript, RestOK
<1>6. QED
  BY <1>1, <1>2, <1>3, <1>4, <1>5 DEF RestOK

\* Every step keeps the types.
LEMMA SessionTypeStep ==
  ASSUME RecordOK, RestOK, [SessionNext]_vars
  PROVE  RecordOK' /\ RestOK'
<1> USE SessionAssumption
<1> DEFINE Goal == RecordOK' /\ RestOK'
<1>1. ASSUME NEW c \in Commands, Command(c) PROVE Goal
  BY <1>1 DEF Command, RecordOK, RestOK
<1>2. ASSUME NEW a \in Recipients, Macro(a) PROVE Goal
  BY <1>2, RecordHelpers DEF Macro, RecordOK, RestOK
<1>3. CASE MtaGone
  BY <1>3 DEF MtaGone, RecordOK, RestOK
<1>4. CASE Undecoded
  BY <1>4, RecordHelpers DEF Undecoded, RecordOK, RestOK
<1>5. CASE mrb_xxfi_negotiate
  BY <1>5 DEF mrb_xxfi_negotiate, RecordOK, RestOK
<1>6. CASE mrb_xxfi_connect
  <2>1. RecordOK'
    BY <1>6, RecordHelpers DEF mrb_xxfi_connect, Return, RecordOK
  <2>2. dropped' \subseteq {"state", "context", "code", "helohost", "envelope_from"}
    BY <1>6 DEF mrb_xxfi_connect, Unfinished
  <2>3. rcpt' \in Recipients \cup {NULL}
    BY <1>6 DEF mrb_xxfi_connect, Return, RestOK
  <2>4. /\ priv' \in {"config", "state"}
        /\ slots' \subseteq Handlers
        /\ status' \in Verdicts
        /\ script' \in Handlers \cup {"none"}
        /\ macro' = NULL
    BY <1>6 DEF mrb_xxfi_connect, StatusReset, HasScript, RestOK
  <2>5. QED
    BY <2>1, <2>2, <2>3, <2>4 DEF RestOK
<1>7. CASE mrb_xxfi_helo
  <2>1. [MacrosFreed(rec) EXCEPT !.helohost = IF EnableMruby THEN "copy" ELSE @] \in Records
    BY RecordHelpers DEF RecordOK, Records
  <2>2. QED
    BY <1>7, <2>1, HandlerKeepsTypes DEF mrb_xxfi_helo, Scriptable, Callbacks, Judging
<1>8. CASE mrb_xxfi_envfrom
  <2>1. [MacrosFreed(rec) EXCEPT !.envelope_from = IF EnableMruby THEN "copy" ELSE @]
          \in Records
    BY RecordHelpers DEF RecordOK, Records
  <2>2. QED
    BY <1>8, <2>1, HandlerKeepsTypes DEF mrb_xxfi_envfrom, Scriptable, Callbacks, Judging
<1>9. CASE mrb_xxfi_envrcpt
  <2>1. [rec EXCEPT !.envelope_to = IF ~EnableMruby THEN @
                                    ELSE IF macro = NULL THEN NULL ELSE "live"] \in Records
    BY DEF RecordOK, Records
  <2>2. QED
    BY <1>9, <2>1, HandlerKeepsTypes
       DEF mrb_xxfi_envrcpt, Scriptable, Callbacks, Judging, RestOK
<1>10. CASE mrb_xxfi_header
  <2>1. [rec EXCEPT !.header = IF EnableMruby THEN "live" ELSE @] \in Records
    BY DEF RecordOK, Records
  <2>2. QED
    BY <1>10, <2>1, HandlerKeepsTypes
       DEF mrb_xxfi_header, Scriptable, Callbacks, Judging, RestOK
<1>11. CASE mrb_xxfi_body
  <2> DEFINE r2 == [rec EXCEPT !.body_chunk = IF HasScript("body") THEN "live" ELSE @]
  <2>1. r2 \in Records
    BY DEF RecordOK, Records
  <2>2. Handler("body", r2, {}) /\ macro' = macro
    BY <1>11 DEF mrb_xxfi_body
  <2> HIDE DEF r2
  <2>3. QED
    BY <2>1, <2>2, HandlerKeepsTypes DEF Scriptable, Callbacks, Judging, RestOK
<1>12. ASSUME NEW cb \in {"data", "eoh", "eom", "abort", "unknown"}, mrb_xxfi_plain(cb)
       PROVE  Goal
  BY <1>12, HandlerKeepsTypes
     DEF mrb_xxfi_plain, Scriptable, Callbacks, Judging, RecordOK, RestOK
<1>13. CASE mrb_xxfi_close
  <2>1. RecordOK'
    BY <1>13, RecordHelpers DEF mrb_xxfi_close, Close, Return, RecordOK
  <2>2. slots' \subseteq Handlers
    BY <1>13 DEF mrb_xxfi_close, Close, SlotAfter, RestOK
  <2>3. dropped' \subseteq {"state", "context", "code", "helohost", "envelope_from"}
    BY <1>13 DEF mrb_xxfi_close, CodeLost, Unfinished
  <2>4. rcpt' \in Recipients \cup {NULL} /\ macro' \in Recipients \cup {NULL}
    BY <1>13 DEF mrb_xxfi_close, Close, Return, RestOK
  <2>5. /\ priv' \in {"config", "state"}
        /\ status' \in Verdicts
        /\ script' \in Handlers \cup {"none"}
    BY <1>13 DEF mrb_xxfi_close, Close, StatusReset, HasScript, RestOK
  <2>6. QED
    BY <2>1, <2>2, <2>3, <2>4, <2>5 DEF RestOK
<1>14. ASSUME NEW r \in Verdicts, ScriptEnds(r) PROVE Goal
  <2>1. RecordOK'
    BY <1>14, RecordHelpers DEF ScriptEnds, Close, Return, RecordOK
  <2>2. slots' \subseteq Handlers
    BY <1>14 DEF ScriptEnds, Close, RestOK
  <2>3. QED
    BY <1>14, <2>1, <2>2 DEF ScriptEnds, Close, Return, RestOK
<1>15. CASE UNCHANGED vars
  BY <1>15 DEF vars, RecordOK, RestOK
<1>16. QED
  BY <1>1, <1>2, <1>3, <1>4, <1>5, <1>6, <1>7, <1>8, <1>9, <1>10, <1>11, <1>12,
     <1>13, <1>14, <1>15 DEF SessionNext

\* The state of a session, the record and the engine included, is always well
\* typed: no step reads or writes a field that has no value.
THEOREM SessionTypeCorrect ==
  SessionSpec => []SessionTypeOK
<1>1. SessionInit => EngineInv /\ ScriptInv /\ RecordOK /\ RestOK
  BY PrivInvInit, RecordHelpers, SessionAssumption DEF SessionInit, RecordOK, RestOK
<1>2. EngineInv /\ ScriptInv /\ RecordOK /\ RestOK /\ [SessionNext]_vars
        => (EngineInv /\ ScriptInv /\ RecordOK /\ RestOK)'
  BY SessionSteps, EngineInvStep, SessionTypeStep
<1>3. EngineInv /\ RecordOK /\ RestOK => SessionTypeOK
  BY DEF EngineInv, SymbolsOK, FlagsOK, CounterOK, EngineTypeOK, RecordOK, RestOK,
         SessionTypeOK
<1>4. QED
  BY <1>1, <1>2, <1>3, PTL DEF SessionSpec

-----------------------------------------------------------------------------
(***************************************************************************)
(* The recipient.  Between the macros of an RCPT and the return of         *)
(* xxfi_envrcpt nothing else is run for the session, and the macro stays.  *)
(***************************************************************************)
RcptInv ==
  /\ rcpt # NULL /\ ~ending =>
       /\ macro = rcpt
       /\ ~abortFirst
       /\ \/ call = "none" /\ state \in {"MAIL", "RCPT"}
          \/ call \in {"envrcpt", "malformed"} /\ state = "RCPT"
  /\ call = "envrcpt" => rcpt # NULL
  /\ script = "envrcpt" => rec.envelope_to = "live"

\* Where the engine can be once a callback of pmilter has returned.
LEMMA ReturnMoves ==
  ASSUME NEW cb \in Scriptable, NEW r, Current = cb, EngineInv, EngineGoesOn(cb, r)
  PROVE  /\ state' \in {state, "HELO"}
         /\ ending => ending'
         /\ call' # "envrcpt"
<1>1. CASE cb = "abort"
  <2>1. AbortReturns
    BY <1>1 DEF EngineGoesOn
  <2>2. state' = state /\ ending' = ending
    BY <2>1 DEF AbortReturns
  <2>3. CASE abortFirst
    <3>1. call # "envrcpt"
      BY <2>3 DEF EngineInv, PendingMatches
    <3>2. QED
      BY <2>1, <2>2, <3>1 DEF AbortReturns
  <2>4. CASE ~abortFirst
    BY <2>1, <2>2, <2>4 DEF AbortReturns
  <2>5. QED
    BY <2>3, <2>4
<1>2. CASE cb = "close"
  BY <1>2 DEF EngineGoesOn, CloseReturns
<1>3. CASE cb \notin {"abort", "close"}
  <2>1. Returns(r)
    BY <1>3 DEF EngineGoesOn
  <2>2. CASE LastChunkPasses(r)
    BY <2>2 DEF LastChunkPasses
  <2>3. CASE Answer(r)
    BY <2>3 DEF Answer, Leave, AfterVerdict
  <2>4. QED
    BY <2>1, <2>2, <2>3 DEF Returns
<1>4. QED
  BY <1>1, <1>2, <1>3

\* The record's pointer to the recipient is not touched when a command's
\* buffer is freed.
LEMMA BufferKeepsRecipient ==
  ASSUME NEW r \in Records
  PROVE  BufferFreed(r).envelope_to = r.envelope_to
BY DEF BufferFreed, Records

\* A callback other than envrcpt runs when no RCPT is announced, or at the end
\* of the session.
LEMMA NoRecipientPending ==
  ASSUME RcptInv, Current \in Callbacks \ {"envrcpt"}
  PROVE  rcpt = NULL \/ ending
BY DEF RcptInv, Current, Callbacks, Judging

\* Handlers other than envrcpt's keep RcptInv.
LEMMA HandlerKeepsRcpt ==
  ASSUME NEW cb \in Scriptable \ {"envrcpt"}, NEW r2, NEW lost, Handler(cb, r2, lost),
         EngineInv, RcptInv
  PROVE  RcptInv'
<1>1. Current = cb /\ script = "none"
  BY DEF Handler
<1>2. rcpt = NULL \/ ending
  BY <1>1, NoRecipientPending DEF Scriptable
<1>3. rcpt' = rcpt /\ script' # "envrcpt"
  BY <1>1 DEF Handler, Return
<1>4. CASE UNCHANGED engineVars
  BY <1>2, <1>3, <1>4 DEF engineVars, RcptInv
<1>5. CASE ~UNCHANGED engineVars
  <2>1. PICK r : EngineGoesOn(cb, r)
    BY <1>5 DEF Handler, Return
  <2>2. (ending => ending') /\ call' # "envrcpt"
    BY <1>1, <2>1, ReturnMoves
  <2>3. QED
    BY <1>2, <1>3, <2>2 DEF RcptInv
<1>6. QED
  BY <1>4, <1>5

\* Every step keeps RcptInv, if the MTA sends {rcpt_addr} before every RCPT.
LEMMA RcptInvStep ==
  ASSUME RcptMacro, EngineInv, ScriptInv, RecordOK, RcptInv, [SessionNext]_vars
  PROVE  RcptInv'
<1> USE EngineAssumption, SessionAssumption
<1>1. ASSUME NEW c \in Commands, Command(c) PROVE RcptInv'
  <2>1. /\ (c = "RCPT") = (rcpt # NULL)
        /\ rcpt' = rcpt /\ macro' = macro /\ script' = "none" /\ Idle
    BY <1>1 DEF Command, Receive, ReceiveFromHelo, Ignore
  <2>2. CASE rcpt # NULL
    <3>1. c = "RCPT" /\ state \in {"MAIL", "RCPT"} /\ macro = rcpt
      BY <2>1, <2>2 DEF RcptInv, Idle
    <3>2. TransOK(state, CommandState[c])
      BY <3>1, StateRows, TransRows DEF TransOK
    <3>3. Receive(c)
      BY <1>1, <3>2 DEF Command, ReceiveFromHelo, Ignore
    <3>4. state' = "RCPT" /\ call' \in {"envrcpt", "malformed"} /\ abortFirst' = FALSE
      BY <3>1, <3>3 DEF Receive, Dispatch, CommandState, CommandCallback
    <3>5. QED
      BY <2>1, <2>2, <3>1, <3>4 DEF RcptInv
  <2>3. CASE rcpt = NULL
    <3>1. c # "RCPT" /\ c \in AllCommands
      BY <2>1, <2>3
    <3>2. CommandCallback[c] # "envrcpt"
      BY <3>1, EnvrcptRow
    <3>3. call' # "envrcpt"
      BY <1>1, <3>2 DEF Command, Receive, ReceiveFromHelo, Ignore, Dispatch
    <3>4. QED
      BY <2>1, <2>3, <3>3 DEF RcptInv
  <2>4. QED
    BY <2>2, <2>3
<1>2. ASSUME NEW a \in Recipients, Macro(a) PROVE RcptInv'
  BY <1>2 DEF Macro, Idle, engineVars, RcptInv
<1>3. CASE MtaGone
  <2>1. ending' /\ call' = "close" /\ script' = "none"
    BY <1>3 DEF MtaGone, Lost, Expired, Leave
  <2>2. QED
    BY <2>1 DEF RcptInv
<1>4. CASE Undecoded
  <2>1. call = "malformed" /\ script = "none" /\ script' = script /\ rcpt' = rcpt
    BY <1>4 DEF Undecoded, GiveUp, ScriptInv, Current, Scriptable, Callbacks, Judging
  <2>2. ~ending
    BY <2>1 DEF EngineInv, PendingMatches
  <2>3. CASE rcpt = NULL
    BY <1>4, <2>1, <2>3 DEF Undecoded, GiveUp, Leave, RcptInv
  <2>4. CASE rcpt # NULL
    <3>1. state = "RCPT"
      BY <2>1, <2>2, <2>4 DEF RcptInv
    <3>2. ending' /\ call' = "close"
      BY <1>4, <3>1 DEF Undecoded, GiveUp, Leave
    <3>3. QED
      BY <2>1, <3>2 DEF RcptInv
  <2>5. QED
    BY <2>3, <2>4
<1>5. CASE mrb_xxfi_negotiate
  <2>1. call = "negotiate" /\ rcpt' = rcpt /\ script' = script /\ ~abortFirst
    BY <1>5 DEF mrb_xxfi_negotiate, Returns, LastChunkPasses, Answer
  <2>2. ~ending /\ script = "none"
    BY <2>1 DEF EngineInv, PendingMatches, ScriptInv, Current, Scriptable
  <2>3. rcpt = NULL
    BY <2>1, <2>2 DEF RcptInv
  <2>4. call' # "envrcpt"
    BY <1>5 DEF mrb_xxfi_negotiate, Returns, LastChunkPasses, Answer, Leave
  <2>5. QED
    BY <2>1, <2>2, <2>3, <2>4 DEF RcptInv
<1>6. CASE mrb_xxfi_connect
  <2>1. Current = "connect" /\ "connect" \in Scriptable /\ "connect" \in Callbacks \ {"envrcpt"}
    BY <1>6 DEF mrb_xxfi_connect, Scriptable, Callbacks, Judging
  <2>2. rcpt = NULL \/ ending
    BY <2>1, NoRecipientPending
  <2>3. rcpt' = rcpt /\ script' # "envrcpt"
    BY <1>6 DEF mrb_xxfi_connect, Return
  <2>4. CASE UNCHANGED engineVars
    BY <2>2, <2>3, <2>4 DEF engineVars, RcptInv
  <2>5. CASE ~UNCHANGED engineVars
    <3>1. PICK r : EngineGoesOn("connect", r)
      BY <1>6, <2>5 DEF mrb_xxfi_connect, Return
    <3>2. (ending => ending') /\ call' # "envrcpt"
      BY <2>1, <3>1, ReturnMoves
    <3>3. QED
      BY <2>2, <2>3, <3>2 DEF RcptInv
  <2>6. QED
    BY <2>4, <2>5
<1>7. CASE mrb_xxfi_helo
  BY <1>7, HandlerKeepsRcpt DEF mrb_xxfi_helo, Scriptable, Callbacks, Judging
<1>8. CASE mrb_xxfi_envfrom
  BY <1>8, HandlerKeepsRcpt DEF mrb_xxfi_envfrom, Scriptable, Callbacks, Judging
<1>9. CASE mrb_xxfi_envrcpt
  <2>1. Current = "envrcpt" /\ script = "none" /\ macro' = macro
    BY <1>9 DEF mrb_xxfi_envrcpt, Handler
  <2>2. call = "envrcpt" /\ rcpt # NULL /\ ~ending
    BY <2>1 DEF Current, RcptInv, EngineInv, PendingMatches
  <2>3. macro = rcpt
    BY <2>2 DEF RcptInv
  <2>4. CASE script' = "none"
    <3>1. rcpt' = NULL
      BY <1>9, <2>4 DEF mrb_xxfi_envrcpt, Handler, Return, HasScript, Scriptable
    <3>2. PICK r : EngineGoesOn("envrcpt", r)
      BY <1>9, <2>4 DEF mrb_xxfi_envrcpt, Handler, Return
    <3>3. call' # "envrcpt"
      BY <2>1, <3>2, ReturnMoves DEF Scriptable, Callbacks, Judging
    <3>4. QED
      BY <2>4, <3>1, <3>3 DEF RcptInv
  <2>5. CASE script' # "none"
    <3>1. /\ EnableMruby /\ UNCHANGED engineVars /\ rcpt' = rcpt
          /\ rec' = [rec EXCEPT !.envelope_to = IF ~EnableMruby THEN @
                                    ELSE IF macro = NULL THEN NULL ELSE "live"]
      BY <1>9, <2>1, <2>5 DEF mrb_xxfi_envrcpt, Handler, HasScript
    <3>2. rec'.envelope_to = "live"
      BY <2>2, <2>3, <3>1 DEF RecordOK, Records
    <3>3. QED
      BY <2>1, <3>1, <3>2 DEF engineVars, RcptInv
  <2>6. QED
    BY <2>4, <2>5
<1>10. CASE mrb_xxfi_header
  BY <1>10, HandlerKeepsRcpt DEF mrb_xxfi_header, Scriptable, Callbacks, Judging
<1>11. CASE mrb_xxfi_body
  BY <1>11, HandlerKeepsRcpt DEF mrb_xxfi_body, Scriptable, Callbacks, Judging
<1>12. ASSUME NEW cb \in {"data", "eoh", "eom", "abort", "unknown"}, mrb_xxfi_plain(cb)
       PROVE  RcptInv'
  BY <1>12, HandlerKeepsRcpt DEF mrb_xxfi_plain, Scriptable, Callbacks, Judging
<1>13. CASE mrb_xxfi_close
  <2>1. Current = "close" /\ "close" \in Scriptable /\ "close" \in Callbacks \ {"envrcpt"}
    BY <1>13 DEF mrb_xxfi_close, Scriptable, Callbacks
  <2>2. rcpt = NULL \/ ending
    BY <2>1, NoRecipientPending
  <2>3. rcpt' = rcpt /\ script' # "envrcpt"
    BY <1>13 DEF mrb_xxfi_close, Close, Return
  <2>4. CASE UNCHANGED engineVars
    BY <2>2, <2>3, <2>4 DEF engineVars, RcptInv
  <2>5. CASE ~UNCHANGED engineVars
    <3>1. PICK r : EngineGoesOn("close", r)
      BY <1>13, <2>5 DEF mrb_xxfi_close, Close, Return
    <3>2. (ending => ending') /\ call' # "envrcpt"
      BY <2>1, <3>1, ReturnMoves
    <3>3. QED
      BY <2>2, <2>3, <3>2 DEF RcptInv
  <2>6. QED
    BY <2>4, <2>5
<1>14. ASSUME NEW r \in Verdicts, ScriptEnds(r) PROVE RcptInv'
  <2>1. script \in Scriptable /\ script = Current /\ script' = "none"
    BY <1>14 DEF ScriptEnds, ScriptInv
  <2>2. EngineGoesOn(script, r) /\ rcpt' = IF script = "envrcpt" THEN NULL ELSE rcpt
    BY <1>14 DEF ScriptEnds, Close, Return
  <2>3. (ending => ending') /\ call' # "envrcpt"
    BY <2>1, <2>2, ReturnMoves
  <2>4. script # "envrcpt" => rcpt = NULL \/ ending
    BY <2>1, NoRecipientPending DEF Scriptable
  <2>5. QED
    BY <2>1, <2>2, <2>3, <2>4 DEF RcptInv
<1>15. CASE UNCHANGED vars
  BY <1>15 DEF vars, RcptInv
<1>16. QED
  BY <1>1, <1>2, <1>3, <1>4, <1>5, <1>6, <1>7, <1>8, <1>9, <1>10, <1>11, <1>12,
     <1>13, <1>14, <1>15 DEF SessionNext

\* The recipient an RCPT script reads is the one of the RCPT in hand, for every
\* order of commands, if the MTA sends {rcpt_addr} before every RCPT.
THEOREM RecipientMatchesHolds ==
  ASSUME RcptMacro
  PROVE  SessionSpec => []RecipientMatches
<1> DEFINE Inv == EngineInv /\ ScriptInv /\ RecordOK /\ RestOK /\ RcptInv
<1>1. SessionInit => Inv
  BY PrivInvInit, RecordHelpers, SessionAssumption
     DEF SessionInit, EngineInit, RecordOK, RestOK, RcptInv
<1>2. Inv /\ [SessionNext]_vars => Inv'
  BY SessionSteps, EngineInvStep, SessionTypeStep, RcptInvStep
<1>3. Inv => RecipientMatches
  BY DEF RcptInv, ScriptInv, Current, EngineInv, PendingMatches, RecipientMatches
<1>4. QED
  BY <1>1, <1>2, <1>3, PTL DEF SessionSpec

-----------------------------------------------------------------------------
(***************************************************************************)
(* What the scripts read.  Once the first xxfi_envrcpt of a message is     *)
(* back, the buffer envelope_to points into stays until the next RCPT is   *)
(* announced or the message is over.                                       *)
(***************************************************************************)
PastRcpt == {"DATA", "HDRS", "EOHS", "BODY", "ENDM"}

ReadsInv ==
  /\ state # "UNKN"
  /\ script = "header" => rec.header = "live"
  /\ script = "body" => rec.body_chunk = "live"
  /\ /\ EnableMruby
     /\ ~ending
     /\ state \in PastRcpt \/ (state = "RCPT" /\ rcpt = NULL)
     => rec.envelope_to # "dangling"

\* Without SMFIC_UNKNOWN the states past RCPT are reached only through it.
LEMMA ReadFacts ==
  ASSUME NEW c \in AllCommands, c # "UNKNOWN", NEW st \in States, st # "UNKN"
  PROVE  /\ CommandState[c] # "UNKN"
         /\ CommandState[c] = "RCPT" => c = "RCPT"
         /\ TransOK(st, CommandState[c]) /\ CommandState[c] \in PastRcpt =>
              (st \in PastRcpt \/ st = "RCPT") /\ c # "RCPT"
         /\ TransOK("HELO", CommandState[c]) => CommandState[c] \notin PastRcpt \cup {"RCPT"}
<1>1. CommandState[c] # "UNKN" /\ (CommandState[c] = "RCPT" => c = "RCPT")
  BY StateRows DEF AllCommands
<1>2. NextStates[st] \cap PastRcpt # {} => st \in PastRcpt \/ st = "RCPT"
  <2>1. CASE st \in {"INIT", "OPTS", "CONN"}
    BY <2>1, TransRows DEF PastRcpt
  <2>2. CASE st \in {"HELO", "MAIL"}
    BY <2>2, TransRows DEF PastRcpt
  <2>3. CASE st \in {"QUIT", "ABRT", "Q_NC"}
    BY <2>3, TransRows DEF PastRcpt
  <2>4. QED
    BY <2>1, <2>2, <2>3 DEF States, PastRcpt
<1>3. QED
  BY <1>1, <1>2, StateRows, TransRows DEF TransOK, PastRcpt

\* A callback that leaves envelope_to alone keeps it valid when it returns.
LEMMA ReturnKeepsReads ==
  ASSUME NEW cb \in Scriptable \ {"envrcpt"}, NEW r, NEW r2 \in Records, Current = cb,
         EngineInv, ReadsInv, Return(cb, r, r2), script' = "none",
         r2.envelope_to \in {rec.envelope_to, NULL}
  PROVE  ReadsInv'
<1>1. state' \in {state, "HELO"} /\ (ending => ending')
  BY ReturnMoves DEF Return
<1>2. rcpt' = rcpt /\ rec'.envelope_to \in {rec.envelope_to, NULL}
  BY BufferKeepsRecipient DEF Return
<1>3. QED
  BY <1>1, <1>2 DEF ReadsInv, PastRcpt, NULL

\* So do the handlers that leave it alone.
LEMMA HandlerKeepsReads ==
  ASSUME NEW cb \in Scriptable \ {"envrcpt"}, NEW r2 \in Records, NEW lost,
         Handler(cb, r2, lost), EngineInv, ReadsInv,
         r2.envelope_to = rec.envelope_to,
         cb = "header" /\ EnableMruby => r2.header = "live",
         cb = "body" /\ HasScript("body") => r2.body_chunk = "live"
  PROVE  ReadsInv'
<1>1. Current = cb /\ script = "none"
  BY DEF Handler
<1>2. CASE script' = "none"
  <2>1. PICK r : Return(cb, r, r2)
    BY <1>2 DEF Handler, Scriptable, Callbacks, Judging
  <2>2. QED
    BY <1>1, <1>2, <2>1, ReturnKeepsReads
<1>3. CASE script' # "none"
  <2>1. script' = cb /\ HasScript(cb) /\ rec' = r2 /\ UNCHANGED engineVars /\ rcpt' = rcpt
    BY <1>1, <1>3 DEF Handler
  <2>2. QED
    BY <2>1 DEF ReadsInv, HasScript, engineVars
<1>4. QED
  BY <1>2, <1>3

\* A handler in a state before RCPT may free what envelope_to points into.
LEMMA EarlyHandlerKeepsReads ==
  ASSUME NEW cb \in {"helo", "envfrom"}, NEW r2, NEW lost,
         Handler(cb, r2, lost), EngineInv, ReadsInv
  PROVE  ReadsInv'
<1>1. Current = cb /\ script = "none" /\ cb \in Scriptable
  BY DEF Handler, Scriptable, Callbacks, Judging
<1>2. call = cb /\ cb \in Callbacks
  BY <1>1 DEF Current, Scriptable
<1>3. state \in {"HELO", "MAIL"}
  BY <1>2, PendingPlace
<1>4. state' \in {"HELO", "MAIL"}
  <2>1. CASE UNCHANGED engineVars
    BY <1>3, <2>1 DEF engineVars
  <2>2. CASE ~UNCHANGED engineVars
    <3>1. PICK r : EngineGoesOn(cb, r)
      BY <2>2 DEF Handler, Return
    <3>2. QED
      BY <1>1, <1>3, <3>1, ReturnMoves
  <2>3. QED
    BY <2>1, <2>2
<1>5. script' \in {"none", cb}
  BY <1>1 DEF Handler
<1>6. QED
  BY <1>4, <1>5 DEF ReadsInv, PastRcpt

\* Every step keeps ReadsInv.
LEMMA ReadsInvStep ==
  ASSUME RcptMacro, "UNKNOWN" \notin Commands,
         EngineInv, ScriptInv, RecordOK, RestOK, RcptInv, ReadsInv, [SessionNext]_vars
  PROVE  ReadsInv'
<1> USE EngineAssumption, SessionAssumption
<1>1. ASSUME NEW c \in Commands, Command(c) PROVE ReadsInv'
  <2>1. /\ (c = "RCPT") = (rcpt # NULL)
        /\ rcpt' = rcpt /\ rec' = rec /\ script' = "none" /\ Idle
    BY <1>1 DEF Command, Receive, ReceiveFromHelo, Ignore
  <2>2. c \in AllCommands /\ c # "UNKNOWN" /\ state \in States /\ state # "UNKN"
    BY DEF EngineInv, SymbolsOK, ReadsInv
  <2>3. CASE Receive(c)
    <3>1. state' = CommandState[c] /\ TransOK(state, CommandState[c]) /\ ~ending
      BY <2>3 DEF Receive, Dispatch, Idle
    <3>2. QED
      BY <2>1, <2>2, <3>1, ReadFacts DEF ReadsInv
  <2>4. CASE ReceiveFromHelo(c)
    <3>1. state' = CommandState[c] /\ TransOK("HELO", CommandState[c])
      BY <2>4 DEF ReceiveFromHelo, Dispatch
    <3>2. QED
      BY <2>1, <2>2, <3>1, ReadFacts DEF ReadsInv
  <2>5. CASE Ignore(c)
    BY <2>1, <2>5 DEF Ignore, ReadsInv, PastRcpt
  <2>6. QED
    BY <1>1, <2>3, <2>4, <2>5 DEF Command
<1>2. ASSUME NEW a \in Recipients, Macro(a) PROVE ReadsInv'
  BY <1>2 DEF Macro, engineVars, ReadsInv, PastRcpt
<1>3. CASE MtaGone
  BY <1>3 DEF MtaGone, Lost, Expired, Leave, ReadsInv
<1>4. CASE Undecoded
  <2>1. script' = "none"
    BY <1>4 DEF Undecoded, GiveUp, ScriptInv, Current, Scriptable, Callbacks, Judging
  <2>2. state' = state /\ (ending' \/ state = "HELO")
    BY <1>4 DEF Undecoded, GiveUp, Leave
  <2>3. QED
    BY <2>1, <2>2 DEF ReadsInv, PastRcpt
<1>5. CASE mrb_xxfi_negotiate
  <2>1. call = "negotiate" /\ rec' = rec /\ script' = script /\ ~abortFirst
    BY <1>5 DEF mrb_xxfi_negotiate, Returns, LastChunkPasses, Answer
  <2>2. state = "OPTS" /\ script = "none"
    BY <2>1 DEF EngineInv, PendingMatches, CallbackStates, Callbacks, Judging, ScriptInv,
                Current, Scriptable
  <2>3. state' \in {"OPTS", "HELO"}
    BY <1>5, <2>2 DEF mrb_xxfi_negotiate, Returns, LastChunkPasses, Answer, Leave, AfterVerdict
  <2>4. QED
    BY <2>1, <2>2, <2>3 DEF ReadsInv, PastRcpt
<1>6. CASE mrb_xxfi_connect
  <2>1. Current = "connect" /\ "connect" \in Scriptable
    BY <1>6 DEF mrb_xxfi_connect, Scriptable, Callbacks, Judging
  <2>2. state = "CONN"
    BY <2>1, PendingPlace DEF Current
  <2>3. state' \in {"CONN", "HELO"}
    <3>1. CASE UNCHANGED engineVars
      BY <2>2, <3>1 DEF engineVars
    <3>2. CASE ~UNCHANGED engineVars
      <4>1. PICK r : EngineGoesOn("connect", r)
        BY <1>6, <3>2 DEF mrb_xxfi_connect, Return
      <4>2. QED
        BY <2>1, <2>2, <4>1, ReturnMoves
    <3>3. QED
      BY <3>1, <3>2
  <2>4. script' \in {"none", "connect"}
    BY <1>6 DEF mrb_xxfi_connect
  <2>5. QED
    BY <2>3, <2>4 DEF ReadsInv, PastRcpt
<1>7. CASE mrb_xxfi_helo
  BY <1>7, EarlyHandlerKeepsReads DEF mrb_xxfi_helo
<1>8. CASE mrb_xxfi_envfrom
  BY <1>8, EarlyHandlerKeepsReads DEF mrb_xxfi_envfrom
<1>9. CASE mrb_xxfi_envrcpt
  <2> DEFINE r2 == [rec EXCEPT !.envelope_to = IF ~EnableMruby THEN @
                                  ELSE IF macro = NULL THEN NULL ELSE "live"]
  <2>1. r2 \in Records /\ (EnableMruby => r2.envelope_to # "dangling")
    BY DEF RecordOK, Records, NULL
  <2>2. Handler("envrcpt", r2, {})
    BY <1>9 DEF mrb_xxfi_envrcpt
  <2> HIDE DEF r2
  <2>3. Current = "envrcpt" /\ script = "none" /\ "envrcpt" \in Scriptable
    BY <2>2 DEF Handler, Scriptable, Callbacks, Judging
  <2>4. script' \in {"none", "envrcpt"}
    BY <2>2 DEF Handler
  <2>5. CASE script' = "none"
    <3>1. PICK r : Return("envrcpt", r, r2)
      BY <2>2, <2>5 DEF Handler
    <3>2. state' \in {state, "HELO"}
      BY <2>3, <3>1, ReturnMoves DEF Return
    <3>3. rec'.envelope_to = r2.envelope_to
      BY <2>1, <3>1, BufferKeepsRecipient DEF Return
    <3>4. QED
      BY <2>1, <2>5, <3>2, <3>3 DEF ReadsInv
  <2>6. CASE script' # "none"
    <3>1. rec' = r2 /\ UNCHANGED engineVars
      BY <2>2, <2>3, <2>6 DEF Handler
    <3>2. QED
      BY <2>1, <2>4, <2>6, <3>1 DEF engineVars, ReadsInv
  <2>7. QED
    BY <2>5, <2>6
<1>10. CASE mrb_xxfi_header
  <2> DEFINE r2 == [rec EXCEPT !.header = IF EnableMruby THEN "live" ELSE @]
  <2>1. /\ r2 \in Records
        /\ r2.envelope_to = rec.envelope_to
        /\ EnableMruby => r2.header = "live"
    BY DEF RecordOK, Records
  <2>2. Handler("header", r2, {})
    BY <1>10 DEF mrb_xxfi_header
  <2> HIDE DEF r2
  <2>3. QED
    BY <2>1, <2>2, HandlerKeepsReads DEF Scriptable, Callbacks, Judging
<1>11. CASE mrb_xxfi_body
  <2> DEFINE r2 == [rec EXCEPT !.body_chunk = IF HasScript("body") THEN "live" ELSE @]
  <2>1. /\ r2 \in Records
        /\ r2.envelope_to = rec.envelope_to
        /\ HasScript("body") => r2.body_chunk = "live"
    BY DEF RecordOK, Records
  <2>2. Handler("body", r2, {})
    BY <1>11 DEF mrb_xxfi_body
  <2> HIDE DEF r2
  <2>3. QED
    BY <2>1, <2>2, HandlerKeepsReads DEF Scriptable, Callbacks, Judging
<1>12. ASSUME NEW cb \in {"data", "eoh", "eom", "abort", "unknown"}, mrb_xxfi_plain(cb)
       PROVE  ReadsInv'
  BY <1>12, HandlerKeepsReads DEF mrb_xxfi_plain, RecordOK, Scriptable, Callbacks, Judging
<1>13. CASE mrb_xxfi_close
  <2>1. Current = "close" /\ script = "none" /\ "close" \in Scriptable \ {"envrcpt"}
    BY <1>13 DEF mrb_xxfi_close, Scriptable, Callbacks
  <2>2. CASE script' = "none"
    <3>1. \E r : Return("close", r, rec) \/ Return("close", r, NewRecord)
      BY <1>13, <2>2 DEF mrb_xxfi_close, Close
    <3>2. NewRecord \in Records /\ NewRecord.envelope_to = NULL
      BY RecordHelpers DEF NewRecord
    <3>3. QED
      BY <2>1, <2>2, <3>1, <3>2, ReturnKeepsReads DEF RecordOK
  <2>3. CASE script' # "none"
    <3>1. script' = "close" /\ rec' = rec /\ UNCHANGED engineVars /\ rcpt' = rcpt
      BY <1>13, <2>1, <2>3 DEF mrb_xxfi_close
    <3>2. QED
      BY <3>1 DEF engineVars, ReadsInv
  <2>4. QED
    BY <2>2, <2>3
<1>14. ASSUME NEW r \in Verdicts, ScriptEnds(r) PROVE ReadsInv'
  <2>1. script \in Scriptable /\ script = Current /\ script' = "none"
    BY <1>14 DEF ScriptEnds, ScriptInv
  <2>2. CASE script = "envrcpt"
    <3>1. Return("envrcpt", r, rec) /\ rec.envelope_to = "live"
      BY <1>14, <2>2 DEF ScriptEnds, RcptInv
    <3>2. rec'.envelope_to = "live" /\ state' \in {state, "HELO"}
      BY <2>1, <2>2, <3>1, BufferKeepsRecipient, ReturnMoves DEF Return, RecordOK
    <3>3. QED
      BY <2>1, <3>2 DEF ReadsInv
  <2>3. CASE script # "envrcpt"
    <3>1. \E r2 \in {rec, NewRecord, PerSessionFreed(rec)} : Return(script, r, r2)
      BY <1>14 DEF ScriptEnds, Close
    <3>2. \A r2 \in {rec, NewRecord, PerSessionFreed(rec)} :
            r2 \in Records /\ r2.envelope_to \in {rec.envelope_to, NULL}
      <4>1. rec \in Records /\ NewRecord \in Records /\ PerSessionFreed(rec) \in Records
        BY RecordHelpers DEF RecordOK
      <4>2. NewRecord.envelope_to = NULL
        BY DEF NewRecord
      <4>3. PerSessionFreed(rec).envelope_to = NULL
        BY <4>1 DEF PerSessionFreed, Records
      <4>4. QED
        BY <4>1, <4>2, <4>3
    <3>3. QED
      BY <2>1, <2>3, <3>1, <3>2, ReturnKeepsReads
  <2>4. QED
    BY <2>2, <2>3
<1>15. CASE UNCHANGED vars
  BY <1>15 DEF vars, ReadsInv
<1>16. QED
  BY <1>1, <1>2, <1>3, <1>4, <1>5, <1>6, <1>7, <1>8, <1>9, <1>10, <1>11, <1>12,
     <1>13, <1>14, <1>15 DEF SessionNext

\* No script of the handler directory reads through a pointer into a buffer
\* that libmilter has freed, if the MTA sends {rcpt_addr} before every RCPT and
\* no SMFIC_UNKNOWN.
THEOREM ReadsValidHolds ==
  ASSUME RcptMacro, "UNKNOWN" \notin Commands
  PROVE  SessionSpec => []ReadsValid
<1> DEFINE Inv == EngineInv /\ ScriptInv /\ RecordOK /\ RestOK /\ RcptInv /\ ReadsInv
<1>1. SessionInit => Inv
  BY PrivInvInit, RecordHelpers, SessionAssumption
     DEF SessionInit, EngineInit, RecordOK, RestOK, RcptInv, ReadsInv, PastRcpt
<1>2. Inv /\ [SessionNext]_vars => Inv'
  BY SessionSteps, EngineInvStep, SessionTypeStep, RcptInvStep, ReadsInvStep
<1>3. ASSUME Inv, script \in DOMAIN Reads, NEW f \in Reads[script]
      PROVE  rec[f] # "dangling"
  <2>1. script \in {"envfrom", "envrcpt", "header", "body", "eom"} /\ EnableMruby
    BY <1>3 DEF Reads, ScriptInv
  <2>2. rec.envelope_from # "dangling"
    BY <1>3 DEF RecordOK, Records, NULL
  <2>3. CASE script = "eom"
    <3>1. call = "eom"
      BY <1>3, <2>3 DEF ScriptInv, Current
    <3>2. state = "ENDM" /\ ~ending
      <4>1. state = "ENDM"
        BY <1>3, <3>1, PendingPlace
      <4>2. QED
        BY <1>3, <3>1, <4>1 DEF EngineInv, PendingMatches
    <3>3. rec.envelope_to # "dangling"
      BY <1>3, <2>1, <3>2 DEF ReadsInv, PastRcpt
    <3>4. QED
      BY <1>3, <2>2, <2>3, <3>3 DEF Reads
  <2>4. CASE script = "envfrom"
    BY <1>3, <2>2, <2>4 DEF Reads
  <2>5. CASE script = "envrcpt"
    <3>1. rec.envelope_to = "live"
      BY <1>3, <2>5 DEF RcptInv
    <3>2. QED
      BY <1>3, <2>2, <2>5, <3>1 DEF Reads
  <2>6. CASE script = "header"
    <3>1. rec.header # "dangling"
      BY <1>3, <2>1, <2>6 DEF ReadsInv
    <3>2. QED
      BY <1>3, <2>2, <2>6, <3>1 DEF Reads
  <2>7. CASE script = "body"
    <3>1. rec.body_chunk # "dangling"
      BY <1>3, <2>1, <2>7 DEF ReadsInv
    <3>2. QED
      BY <1>3, <2>2, <2>7, <3>1 DEF Reads
  <2>8. QED
    BY <2>1, <2>3, <2>4, <2>5, <2>6, <2>7
<1>4. Inv => ReadsValid
  BY <1>3 DEF ReadsValid
<1>5. QED
  BY <1>1, <1>2, <1>4, PTL DEF SessionSpec

-----------------------------------------------------------------------------
(***************************************************************************)
(* The code of the scripts.  Between two callbacks, the slots of a session *)
(* that has a state hold nothing but what did not compile.                 *)
(***************************************************************************)
CodeInv ==
  EnableMruby /\ (priv = "state" \/ script # "none") =>
    \A cb \in slots : cb \in Broken \/ (cb = script /\ script # "none")

\* A handler fills one slot, and leaves it filled only if the code does not
\* compile or runs now.
LEMMA HandlerKeepsCode ==
  ASSUME NEW cb \in Scriptable, NEW r2, NEW lost, Handler(cb, r2, lost), CodeInv
  PROVE  CodeInv'
<1> SUFFICES ASSUME EnableMruby, NEW d \in slots'
             PROVE  d \in Broken \/ (d = script' /\ script' # "none")
  BY DEF CodeInv
<1>1. priv = "state" /\ script = "none" /\ slots' = SlotAfter(cb)
  BY DEF Handler
<1>2. d \in slots => d \in Broken
  BY <1>1 DEF CodeInv
<1>3. d \in slots \/ (d = cb /\ cb \in Handlers)
  BY <1>1 DEF SlotAfter
<1>4. cb \in Handlers => cb \in Broken \/ script' = cb
  BY DEF Handler, HasScript
<1>5. cb # "none"
  BY DEF Scriptable, Callbacks, Judging
<1>6. QED
  BY <1>2, <1>3, <1>4, <1>5

\* Every step keeps CodeInv.
LEMMA CodeInvStep ==
  ASSUME CodeInv, [SessionNext]_vars
  PROVE  CodeInv'
<1> USE SessionAssumption
<1>1. ASSUME UNCHANGED <<priv, slots, script>> PROVE CodeInv'
  BY <1>1 DEF CodeInv
<1>2. ASSUME NEW c \in Commands, Command(c) PROVE CodeInv'
  BY <1>1, <1>2 DEF Command
<1>3. ASSUME NEW a \in Recipients, Macro(a) PROVE CodeInv'
  BY <1>1, <1>3 DEF Macro
<1>4. CASE MtaGone \/ Undecoded \/ mrb_xxfi_negotiate
  BY <1>1, <1>4 DEF MtaGone, Undecoded, mrb_xxfi_negotiate
<1>5. CASE mrb_xxfi_connect
  <2>1. slots' = {"connect"} \cap Handlers /\ script = "none" /\ priv = "config"
    BY <1>5 DEF mrb_xxfi_connect
  <2>2. EnableMruby /\ (priv' = "state" \/ script' # "none")
          => "connect" \notin Handlers \/ script' = "connect"
    BY <1>5, <2>1 DEF mrb_xxfi_connect, HasScript
  <2>3. QED
    BY <2>1, <2>2 DEF CodeInv
<1>6. CASE mrb_xxfi_helo
  BY <1>6, HandlerKeepsCode DEF mrb_xxfi_helo, Scriptable, Callbacks, Judging
<1>7. CASE mrb_xxfi_envfrom
  BY <1>7, HandlerKeepsCode DEF mrb_xxfi_envfrom, Scriptable, Callbacks, Judging
<1>8. CASE mrb_xxfi_envrcpt
  BY <1>8, HandlerKeepsCode DEF mrb_xxfi_envrcpt, Scriptable, Callbacks, Judging
<1>9. CASE mrb_xxfi_header
  BY <1>9, HandlerKeepsCode DEF mrb_xxfi_header, Scriptable, Callbacks, Judging
<1>10. CASE mrb_xxfi_body
  BY <1>10, HandlerKeepsCode DEF mrb_xxfi_body, Scriptable, Callbacks, Judging
<1>11. ASSUME NEW cb \in {"data", "eoh", "eom", "abort", "unknown"}, mrb_xxfi_plain(cb)
       PROVE  CodeInv'
  BY <1>11, HandlerKeepsCode DEF mrb_xxfi_plain, Scriptable, Callbacks, Judging
<1>12. CASE mrb_xxfi_close
  <2>1. CASE slots' = {}
    BY <2>1 DEF CodeInv
  <2>2. CASE slots' # {}
    <3>1. /\ HasScript("close") /\ slots' = SlotAfter("close")
          /\ priv = "state" /\ script = "none"
          /\ "close" \in Broken \/ script' = "close"
      BY <1>12, <2>2 DEF mrb_xxfi_close, Close
    <3>2. QED
      BY <3>1 DEF SlotAfter, HasScript, CodeInv
  <2>3. QED
    BY <2>1, <2>2
<1>13. ASSUME NEW r \in Verdicts, ScriptEnds(r) PROVE CodeInv'
  <2>1. script # "none" /\ (slots' = {} \/ slots' = slots \ {script})
    BY <1>13 DEF ScriptEnds, Close
  <2>2. QED
    BY <2>1 DEF CodeInv
<1>14. CASE UNCHANGED vars
  BY <1>1, <1>14 DEF vars
<1>15. QED
  BY <1>2, <1>3, <1>4, <1>5, <1>6, <1>7, <1>8, <1>9, <1>10, <1>11, <1>12, <1>13, <1>14
     DEF SessionNext

\* Between two callbacks a session holds the code of scripts that do not compile
\* and no other, for every set of scripts and every order of commands.
THEOREM CodeFreedHolds ==
  SessionSpec => []CodeFreed
<1>1. SessionInit => CodeInv
  BY DEF SessionInit, CodeInv
<1>2. CodeInv /\ [SessionNext]_vars => CodeInv'
  BY CodeInvStep
<1>3. CodeInv => CodeFreed
  BY DEF CodeInv, CodeFreed
<1>4. QED
  BY <1>1, <1>2, <1>3, PTL DEF SessionSpec

-----------------------------------------------------------------------------
(***************************************************************************)
(* The copy of the sender.  After an xxfi_eom whose script ran it is       *)
(* freed, and only the next xxfi_envfrom makes another.                    *)
(***************************************************************************)
SenderInv ==
  HasScript("eom") /\ tx = "eom" =>
    rec.envelope_from = NULL \/ "eom" \in slots \/ script = "envfrom"

\* A message has reached its end only once xxfi_eom is back, and the next one
\* has not once its xxfi_envfrom is.
LEMMA ReturnEnds ==
  ASSUME NEW cb \in Scriptable, NEW r \in Verdicts, Current = cb, EngineGoesOn(cb, r),
         tx' = "eom"
  PROVE  cb = "eom" \/ (tx = "eom" /\ cb # "envfrom")
<1>1. CASE cb = "abort"
  BY <1>1 DEF EngineGoesOn, AbortReturns
<1>2. CASE cb = "close"
  BY <1>2 DEF EngineGoesOn, CloseReturns
<1>3. CASE cb \notin {"abort", "close"}
  <2>1. Returns(r) /\ call = cb
    BY <1>3 DEF EngineGoesOn, Current
  <2>2. CASE LastChunkPasses(r)
    BY <2>1, <2>2 DEF LastChunkPasses
  <2>3. CASE Answer(r)
    <3>1. r # "ABORT"
      BY EngineAssumption DEF AllVerdicts
    <3>2. tx' \in {Settled(call, r), Announced(call)}
      BY <2>3, <3>1 DEF Answer
    <3>3. QED
      BY <2>1, <3>2 DEF Settled, Announced
  <2>4. QED
    BY <2>1, <2>2, <2>3 DEF Returns
<1>4. QED
  BY <1>1, <1>2, <1>3

\* The pointer to the sender's copy is not touched when buffers are freed.
LEMMA BuffersKeepSender ==
  ASSUME NEW r \in Records
  PROVE  /\ BufferFreed(r).envelope_from = r.envelope_from
         /\ MacrosFreed(r).envelope_from = r.envelope_from
         /\ PerSessionFreed(r).envelope_from = NULL
         /\ NewRecord.envelope_from = NULL
<1>1. BufferFreed(r).envelope_from = r.envelope_from
  BY DEF BufferFreed, Records
<1>2. MacrosFreed(r).envelope_from = r.envelope_from
  BY DEF MacrosFreed, Records
<1>3. PerSessionFreed(r).envelope_from = NULL /\ NewRecord.envelope_from = NULL
  BY DEF PerSessionFreed, NewRecord, Records
<1>4. QED
  BY <1>1, <1>2, <1>3

\* Handlers other than envfrom's keep SenderInv.
LEMMA HandlerKeepsSender ==
  ASSUME NEW cb \in Scriptable \ {"envfrom"}, NEW r2 \in Records, NEW lost,
         Handler(cb, r2, lost), SenderInv, r2.envelope_from = rec.envelope_from
  PROVE  SenderInv'
<1> USE SessionAssumption
<1> SUFFICES ASSUME HasScript("eom"), tx' = "eom"
             PROVE  rec'.envelope_from = NULL \/ "eom" \in slots'
  BY DEF SenderInv, HasScript
<1>1. Current = cb /\ script = "none" /\ slots' = SlotAfter(cb)
  BY DEF Handler
<1>2. "eom" \in slots \/ cb = "eom" => "eom" \in slots'
  BY <1>1 DEF SlotAfter, HasScript
<1>3. cb = "eom" \/ tx = "eom"
  <2>1. CASE UNCHANGED engineVars
    BY <2>1 DEF engineVars
  <2>2. CASE ~UNCHANGED engineVars
    <3>1. PICK r \in Verdicts : EngineGoesOn(cb, r)
      BY <2>2 DEF Handler, Return, StatusReset
    <3>2. QED
      BY <1>1, <3>1, ReturnEnds
  <2>3. QED
    BY <2>1, <2>2
<1>4. rec'.envelope_from = rec.envelope_from
  BY BuffersKeepSender DEF Handler, Return
<1>5. QED
  BY <1>1, <1>2, <1>3, <1>4 DEF SenderInv

\* Every step keeps SenderInv.
LEMMA SenderInvStep ==
  ASSUME ScriptInv, RecordOK, SenderInv, [SessionNext]_vars
  PROVE  SenderInv'
<1> USE EngineAssumption, SessionAssumption
<1>1. ASSUME tx' = tx, slots' = slots, script' = script,
             rec'.envelope_from = rec.envelope_from
      PROVE  SenderInv'
  BY <1>1 DEF SenderInv, HasScript
<1>2. ASSUME NEW c \in Commands, Command(c) PROVE SenderInv'
  BY <1>1, <1>2 DEF Command, Receive, ReceiveFromHelo, Ignore
<1>3. ASSUME NEW a \in Recipients, Macro(a) PROVE SenderInv'
  BY <1>1, <1>3, BuffersKeepSender DEF Macro, engineVars, RecordOK
<1>4. CASE MtaGone
  BY <1>1, <1>4 DEF MtaGone, Lost, Expired
<1>5. CASE Undecoded
  BY <1>1, <1>5, BuffersKeepSender DEF Undecoded, GiveUp, RecordOK
<1>6. CASE mrb_xxfi_negotiate
  <2>1. call = "negotiate" /\ Answer("OPTIONS")
    BY <1>6 DEF mrb_xxfi_negotiate, Returns, LastChunkPasses
  <2>2. tx' \in {Settled(call, "OPTIONS"), Announced(call)}
    BY <2>1 DEF Answer
  <2>3. tx' = tx \/ tx' # "eom"
    BY <2>1, <2>2 DEF Settled, Announced
  <2>4. slots' = slots /\ script' = script /\ rec' = rec
    BY <1>6 DEF mrb_xxfi_negotiate
  <2>5. QED
    BY <2>3, <2>4 DEF SenderInv, HasScript
<1>7. CASE mrb_xxfi_connect
  <2>1. rec' \in {NewRecord, BufferFreed(NewRecord)}
    BY <1>7 DEF mrb_xxfi_connect, Return
  <2>2. rec'.envelope_from = NULL
    BY <2>1, BuffersKeepSender, RecordHelpers
  <2>3. QED
    BY <2>2 DEF SenderInv
<1>8. CASE mrb_xxfi_helo
  <2> DEFINE r2 == [MacrosFreed(rec) EXCEPT !.helohost = IF EnableMruby THEN "copy" ELSE @]
  <2>1. MacrosFreed(rec) \in Records
    BY RecordHelpers DEF RecordOK
  <2>2. r2 \in Records /\ r2.envelope_from = MacrosFreed(rec).envelope_from
    BY <2>1 DEF Records
  <2>3. PICK lost : Handler("helo", r2, lost)
    BY <1>8 DEF mrb_xxfi_helo
  <2> HIDE DEF r2
  <2>4. QED
    BY <2>2, <2>3, HandlerKeepsSender, BuffersKeepSender
       DEF Scriptable, Callbacks, Judging, RecordOK
<1>9. CASE mrb_xxfi_envfrom
  <2>1. CASE UNCHANGED engineVars /\ script' = "envfrom"
    BY <2>1 DEF SenderInv
  <2>2. CASE ~(UNCHANGED engineVars /\ script' = "envfrom")
    <3>1. PICK r \in Verdicts : EngineGoesOn("envfrom", r)
      BY <1>9, <2>2 DEF mrb_xxfi_envfrom, Handler, Return, StatusReset
    <3>2. Current = "envfrom"
      BY <1>9 DEF mrb_xxfi_envfrom, Handler
    <3>3. tx' # "eom"
      BY <3>1, <3>2, ReturnEnds DEF Scriptable, Callbacks, Judging
    <3>4. QED
      BY <3>3 DEF SenderInv
  <2>3. QED
    BY <2>1, <2>2
<1>10. CASE mrb_xxfi_envrcpt
  <2> DEFINE r2 == [rec EXCEPT !.envelope_to = IF ~EnableMruby THEN @
                                     ELSE IF macro = NULL THEN NULL ELSE "live"]
  <2>1. r2 \in Records /\ r2.envelope_from = rec.envelope_from
    BY DEF RecordOK, Records
  <2>2. Handler("envrcpt", r2, {})
    BY <1>10 DEF mrb_xxfi_envrcpt
  <2> HIDE DEF r2
  <2>3. QED
    BY <2>1, <2>2, HandlerKeepsSender DEF Scriptable, Callbacks, Judging
<1>11. CASE mrb_xxfi_header
  <2> DEFINE r2 == [rec EXCEPT !.header = IF EnableMruby THEN "live" ELSE @]
  <2>1. r2 \in Records /\ r2.envelope_from = rec.envelope_from
    BY DEF RecordOK, Records
  <2>2. Handler("header", r2, {})
    BY <1>11 DEF mrb_xxfi_header
  <2> HIDE DEF r2
  <2>3. QED
    BY <2>1, <2>2, HandlerKeepsSender DEF Scriptable, Callbacks, Judging
<1>12. CASE mrb_xxfi_body
  <2> DEFINE r2 == [rec EXCEPT !.body_chunk = IF HasScript("body") THEN "live" ELSE @]
  <2>1. r2 \in Records /\ r2.envelope_from = rec.envelope_from
    BY DEF RecordOK, Records
  <2>2. Handler("body", r2, {})
    BY <1>12 DEF mrb_xxfi_body
  <2> HIDE DEF r2
  <2>3. QED
    BY <2>1, <2>2, HandlerKeepsSender DEF Scriptable, Callbacks, Judging
<1>13. ASSUME NEW cb \in {"data", "eoh", "eom", "abort", "unknown"}, mrb_xxfi_plain(cb)
       PROVE  SenderInv'
  BY <1>13, HandlerKeepsSender DEF mrb_xxfi_plain, Scriptable, Callbacks, Judging, RecordOK
<1>14. CASE mrb_xxfi_close
  <2>1. tx' = tx /\ script = "none"
    BY <1>14 DEF mrb_xxfi_close, Close, Return, EngineGoesOn, CloseReturns, engineVars
  <2>2. CASE slots' = {}
    <3>1. EnableMruby => rec' = BufferFreed(NewRecord)
      BY <1>14, <2>2 DEF mrb_xxfi_close, Close, Return, SlotAfter, HasScript
    <3>2. BufferFreed(NewRecord).envelope_from = NULL
      BY BuffersKeepSender, RecordHelpers
    <3>3. QED
      BY <3>1, <3>2 DEF SenderInv, HasScript
  <2>3. CASE slots' # {}
    <3>1. slots' = slots \cup {"close"} /\ rec' \in {rec, BufferFreed(rec)}
      BY <1>14, <2>3 DEF mrb_xxfi_close, Close, Return, SlotAfter, HasScript
    <3>2. rec'.envelope_from = rec.envelope_from
      BY <3>1, BuffersKeepSender DEF RecordOK
    <3>3. QED
      BY <2>1, <3>1, <3>2 DEF SenderInv, HasScript
  <2>4. QED
    BY <2>2, <2>3
<1>15. ASSUME NEW r \in Verdicts, ScriptEnds(r) PROVE SenderInv'
  <2>1. script \in Scriptable /\ script = Current /\ EnableMruby
    BY <1>15 DEF ScriptEnds, ScriptInv
  <2>2. EngineGoesOn(script, r)
    BY <1>15 DEF ScriptEnds, Close, Return
  <2>3. CASE script = "close"
    <3>1. rec' = BufferFreed(NewRecord)
      BY <1>15, <2>1, <2>3 DEF ScriptEnds, Close, Return
    <3>2. BufferFreed(NewRecord).envelope_from = NULL
      BY BuffersKeepSender, RecordHelpers
    <3>3. QED
      BY <3>1, <3>2 DEF SenderInv
  <2>4. CASE script = "eom"
    <3>1. rec' = BufferFreed(PerSessionFreed(rec))
      BY <1>15, <2>4 DEF ScriptEnds, Return
    <3>2. PerSessionFreed(rec) \in Records /\ PerSessionFreed(rec).envelope_from = NULL
      BY BuffersKeepSender, RecordHelpers DEF RecordOK
    <3>3. rec'.envelope_from = NULL
      BY <3>1, <3>2, BuffersKeepSender
    <3>4. QED
      BY <3>3 DEF SenderInv
  <2>5. CASE script \notin {"close", "eom"}
    <3>1. rec' = BufferFreed(rec) /\ slots' = slots \ {script}
      BY <1>15, <2>5 DEF ScriptEnds, Return
    <3>2. rec'.envelope_from = rec.envelope_from
      BY <3>1, BuffersKeepSender DEF RecordOK
    <3>3. tx' = "eom" => tx = "eom" /\ script # "envfrom"
      BY <2>1, <2>2, <2>5, ReturnEnds
    <3>4. QED
      BY <2>5, <3>1, <3>2, <3>3 DEF SenderInv, HasScript
  <2>6. QED
    BY <2>3, <2>4, <2>5
<1>16. CASE UNCHANGED vars
  BY <1>1, <1>16 DEF vars
<1>17. QED
  BY <1>2, <1>3, <1>4, <1>5, <1>6, <1>7, <1>8, <1>9, <1>10, <1>11, <1>12, <1>13,
     <1>14, <1>15, <1>16 DEF SessionNext

\* A sender's copy is dropped by mrb_xxfi_envfrom alone, where it finds one.
LEMMA SenderDropped ==
  ASSUME [SessionNext]_vars, ~UNCHANGED vars, "envelope_from" \in dropped'
  PROVE  script = "none" /\ rec.envelope_from # NULL
<1>h. ASSUME NEW cb, NEW r2, NEW lost, Handler(cb, r2, lost), "envelope_from" \notin lost
      PROVE  FALSE
  BY <1>h DEF Handler, CodeLost, Unfinished
<1>1. ASSUME NEW c \in Commands, Command(c) PROVE FALSE
  BY <1>1 DEF Command
<1>2. ASSUME NEW a \in Recipients, Macro(a) PROVE FALSE
  BY <1>2 DEF Macro
<1>3. CASE MtaGone \/ Undecoded \/ mrb_xxfi_negotiate
  BY <1>3 DEF MtaGone, Undecoded, mrb_xxfi_negotiate
<1>4. CASE mrb_xxfi_connect
  BY <1>4 DEF mrb_xxfi_connect, Unfinished
<1>5. CASE mrb_xxfi_helo
  BY <1>5, <1>h DEF mrb_xxfi_helo
<1>6. CASE mrb_xxfi_envfrom
  <2>1. CASE rec.envelope_from = NULL
    BY <1>6, <1>h, <2>1 DEF mrb_xxfi_envfrom
  <2>2. script = "none"
    BY <1>6 DEF mrb_xxfi_envfrom, Handler
  <2>3. QED
    BY <2>1, <2>2
<1>7. CASE mrb_xxfi_envrcpt
  BY <1>7, <1>h DEF mrb_xxfi_envrcpt
<1>8. CASE mrb_xxfi_header
  BY <1>8, <1>h DEF mrb_xxfi_header
<1>9. CASE mrb_xxfi_body
  BY <1>9, <1>h DEF mrb_xxfi_body
<1>10. ASSUME NEW cb \in {"data", "eoh", "eom", "abort", "unknown"}, mrb_xxfi_plain(cb)
       PROVE  FALSE
  BY <1>10, <1>h DEF mrb_xxfi_plain
<1>11. CASE mrb_xxfi_close
  BY <1>11 DEF mrb_xxfi_close, CodeLost, Unfinished
<1>12. ASSUME NEW r \in Verdicts, ScriptEnds(r) PROVE FALSE
  BY <1>12 DEF ScriptEnds
<1>13. QED
  BY <1>1, <1>2, <1>3, <1>4, <1>5, <1>6, <1>7, <1>8, <1>9, <1>10, <1>11, <1>12
     DEF SessionNext

\* With an eom script the sender's copy is lost only after a message that did not
\* reach xxfi_eom, or whose eom script did not compile, whatever else the scripts
\* and the MTA do: SenderFreed fails in these cases and in no other.
THEOREM SenderLostEarlyHolds ==
  SessionSpec => SenderLostEarly
<1> DEFINE Inv == EngineInv /\ ScriptInv /\ RecordOK /\ RestOK /\ SenderInv
<1>1. SessionInit => Inv
  BY PrivInvInit, RecordHelpers, SessionAssumption
     DEF SessionInit, EngineInit, RecordOK, RestOK, SenderInv
<1>2. Inv /\ [SessionNext]_vars => Inv'
  BY SessionSteps, EngineInvStep, SessionTypeStep, SenderInvStep
<1>3. Inv /\ [SessionNext]_vars =>
        [HasScript("eom") /\ "envelope_from" \in dropped' => tx # "eom" \/ "eom" \in slots]_vars
  BY SenderDropped DEF SenderInv
<1>4. QED
  BY <1>1, <1>2, <1>3, PTL DEF SessionSpec, SenderLostEarly

-----------------------------------------------------------------------------
(***************************************************************************)
(* What holds of the engine holds of every session of pmilter.             *)
(***************************************************************************)

\* Seen by pmilter's scripts, a session is a behaviour of MilterContract: every
\* message has one end, every connection one close.  The conditions are those of
\* the engine's own theorem.
THEOREM SessionKeepsContract ==
  ASSUME "UNKNOWN" \notin Commands, "MAIL" \notin Malformed, "expired" \notin Failures,
         "EOB_CHUNK" \in Commands =>
           Verdicts \subseteq DecidingVerdicts /\ "unsent" \notin Failures
  PROVE  SessionSpec => KeepsContract
BY SessionImplementsEngine, KeepsContractHolds

=============================================================================
