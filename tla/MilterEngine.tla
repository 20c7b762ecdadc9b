---------------------------- MODULE MilterEngine ----------------------------
(***************************************************************************)
(* The libmilter protocol engine of one MTA connection (engine.c).         *)
(*                                                                         *)
(* mi_engine reads a command, checks the state transition, runs the st_*   *)
(* function of the command (which invokes filter callbacks), and replies.  *)
(* One step here is one command received or one callback returning: a      *)
(* session is run by one thread at a time, so nothing else of this session *)
(* can happen in between.  The filter registers every callback and asks    *)
(* for every protocol step, as pmilter does: ctx_pflags stays without      *)
(* SMFIP_NO* bits, fix_stm adds no skip bit and trans_ok is a table        *)
(* lookup.                                                                 *)
(***************************************************************************)
EXTENDS Naturals

CONSTANTS
  Commands,   \* the commands this MTA sends
  Malformed,  \* those of them that may carry arguments that do not decode
  Failures,   \* what else may go wrong: subset of AllFailures
  Verdicts    \* the statuses a callback may return

States == {"INIT", "OPTS", "CONN", "HELO", "MAIL", "RCPT", "DATA", "HDRS",
           "EOHS", "BODY", "ENDM", "QUIT", "ABRT", "UNKN", "Q_NC"}

\* Fault: a message is still open once xxfi_eom has run.
InMailStates_Endm == {"MAIL", "RCPT", "DATA", "HDRS", "EOHS", "BODY", "ENDM"}

InMailStates == {"MAIL", "RCPT", "DATA", "HDRS", "EOHS", "BODY"}

\* EOB is SMFIC_BODYEOB without data, EOB_CHUNK the same with a last body chunk.
AllCommands == {"OPTNEG", "CONNECT", "HELO", "MAIL", "RCPT", "DATA", "HEADER",
                "EOH", "BODY", "EOB", "EOB_CHUNK", "ABORT", "QUIT", "QUIT_NC",
                "UNKNOWN"}

\* Commands whose st_* function decodes arguments and can give up on them.
Decoded == {"OPTNEG", "CONNECT", "HELO", "MAIL", "RCPT", "HEADER"}

\* "lost": EOF, read error, read timeout, undefined command byte, or
\* mi_stop() = MILTER_ABRT; "expired": the pool controller closes an idle
\* session (worker.c); "unsent": a reply cannot be written.
AllFailures == {"lost", "expired", "unsent"}

\* The SMFIS_* values of mfapi.h that a callback can return and that
\* pmilter exports to its scripts.
AllVerdicts == {"CONTINUE", "REJECT", "DISCARD", "ACCEPT", "TEMPFAIL",
                "NOREPLY", "SKIP", "ALL_OPTS"}

ASSUME EngineAssumption ==
  /\ Commands \subseteq AllCommands
  /\ Malformed \subseteq Commands \cap Decoded
  /\ Failures \subseteq AllFailures
  /\ Verdicts \subseteq AllVerdicts

-----------------------------------------------------------------------------
(* The tables of engine.c *)

NextStates ==
  [INIT |-> {"OPTS"},
   OPTS |-> {"CONN", "UNKN"},
   CONN |-> {"HELO", "MAIL", "UNKN"},
   HELO |-> {"HELO", "MAIL", "UNKN"},
   MAIL |-> {"RCPT", "ABRT", "UNKN"},
   RCPT |-> {"HDRS", "EOHS", "DATA", "BODY", "ENDM", "RCPT", "ABRT", "UNKN"},
   DATA |-> {"EOHS", "HDRS", "ABRT"},
   HDRS |-> {"EOHS", "HDRS", "ABRT"},
   EOHS |-> {"BODY", "ENDM", "ABRT"},
   BODY |-> {"ENDM", "BODY", "ABRT"},
   ENDM |-> {"QUIT", "MAIL", "UNKN", "Q_NC"},
   QUIT |-> {},
   ABRT |-> {},
   UNKN |-> {"HELO", "MAIL", "RCPT", "ABRT", "DATA", "BODY", "UNKN", "QUIT",
             "Q_NC"},
   Q_NC |-> {"CONN", "UNKN"}]

\* cm_next and the callback that cm_fct invokes, for each command.
CommandState ==
  [OPTNEG |-> "OPTS", CONNECT |-> "CONN", HELO |-> "HELO", MAIL |-> "MAIL",
   RCPT |-> "RCPT", DATA |-> "DATA", HEADER |-> "HDRS", EOH |-> "EOHS",
   BODY |-> "BODY", EOB |-> "ENDM", EOB_CHUNK |-> "ENDM", ABORT |-> "ABRT",
   QUIT |-> "QUIT", QUIT_NC |-> "Q_NC", UNKNOWN |-> "UNKN"]

CommandCallback ==
  [OPTNEG |-> "negotiate", CONNECT |-> "connect", HELO |-> "helo",
   MAIL |-> "envfrom", RCPT |-> "envrcpt", DATA |-> "data",
   HEADER |-> "header", EOH |-> "eoh", BODY |-> "body", EOB |-> "eom",
   EOB_CHUNK |-> "body", ABORT |-> "abort", QUIT |-> "close",
   QUIT_NC |-> "close", UNKNOWN |-> "unknown"]

\* Callbacks whose result mi_engine turns into a reply and a next state.
Judging == {"negotiate", "connect", "helo", "envfrom", "envrcpt", "data",
            "header", "eoh", "body", "eom", "unknown"}

Callbacks == Judging \cup {"abort", "close"}

\* Fault: no command has CT_IGNO.
Ignored_None == {}

\* CT_IGNO: an error of these callbacks leaves the session in its state.
Ignored == {"envrcpt", "unknown"}

TransOK(old, new) == new \in NextStates[old]

InMail(st) == st \in InMailStates

-----------------------------------------------------------------------------
VARIABLES
  state,      \* ctx_state, equal to curstate whenever a callback runs
  call,       \* the callback the command in hand still has to invoke,
              \* "malformed" if its arguments do not decode, or "none"
  abortFirst, \* xxfi_abort is to be invoked before call
  ending,     \* mi_engine has left its loop for good (not MI_CONTINUE)
  tx,         \* history: what became of the last message announced by MAIL
  connected,  \* history: xxfi_connect was invoked and xxfi_close not since
  replies     \* history: replies written for the command in hand

engineVars == <<state, call, abortFirst, ending, tx, connected, replies>>

EngineInit ==
  /\ state = "INIT"
  /\ call = "none"
  /\ abortFirst = FALSE
  /\ ending = FALSE
  /\ tx = "none"
  /\ connected = FALSE
  /\ replies = 0

\* mi_engine is at the top of its loop, or the session waits in the pool.
Idle == call = "none" /\ ~abortFirst /\ ~ending

\* The session is over: its context is cleared and freed.
Ended == call = "none" /\ ~abortFirst /\ ending

\* Fault: xxfi_close without the xxfi_abort of the message in progress.
Leave_NoAbort(st) ==
  /\ state' = st
  /\ abortFirst' = FALSE
  /\ call' = "close"
  /\ ending' = TRUE

\* mi_engine leaves the loop with MI_FAILURE in state st: abort if a message
\* is in progress, then close.
Leave(st) ==
  /\ state' = st
  /\ abortFirst' = InMail(st)
  /\ call' = "close"
  /\ ending' = TRUE

(***************************************************************************)
(* A command arrives.  If its state cannot be reached, xxfi_abort runs when *)
(* a message is in progress and the command is tried again from HELO.      *)
(***************************************************************************)
Dispatch(c) ==
  /\ state' = CommandState[c]
  /\ call' \in {CommandCallback[c]} \cup {x \in {"malformed"} : c \in Malformed}
  /\ ending' = (c = "QUIT")

Receive(c) ==
  /\ Idle
  /\ TransOK(state, CommandState[c])
  /\ abortFirst' = FALSE
  /\ Dispatch(c)
  /\ replies' = 0
  /\ UNCHANGED <<tx, connected>>

\* Fault: the message in progress is dropped without xxfi_abort.
ReceiveFromHelo_NoAbort(c) ==
  /\ Idle
  /\ ~TransOK(state, CommandState[c])
  /\ TransOK("HELO", CommandState[c])
  /\ abortFirst' = FALSE
  /\ Dispatch(c)
  /\ replies' = 0
  /\ UNCHANGED <<tx, connected>>

ReceiveFromHelo(c) ==
  /\ Idle
  /\ ~TransOK(state, CommandState[c])
  /\ TransOK("HELO", CommandState[c])
  /\ abortFirst' = InMail(state)
  /\ Dispatch(c)
  /\ replies' = 0
  /\ UNCHANGED <<tx, connected>>

\* Not reachable from HELO either: the command is ignored.  The loop
\* condition is still evaluated, so an ignored QUIT ends the session.
Ignore(c) ==
  /\ Idle
  /\ ~TransOK(state, CommandState[c])
  /\ ~TransOK("HELO", CommandState[c])
  /\ state' = "HELO"
  /\ abortFirst' = InMail(state)
  /\ call' = IF c = "QUIT" THEN "close" ELSE "none"
  /\ ending' = (c = "QUIT")
  /\ replies' = 0
  /\ UNCHANGED <<tx, connected>>

\* The arguments do not decode: st_helo sends no reply and goes on, the
\* others return _SMFIS_ABORT.
GiveUp ==
  /\ call = "malformed" /\ ~abortFirst
  /\ \/ /\ state = "HELO"
        /\ call' = "none"
        /\ UNCHANGED <<state, abortFirst, ending>>
     \/ /\ state # "HELO"
        /\ Leave(state)
  /\ UNCHANGED <<tx, connected, replies>>

-----------------------------------------------------------------------------
(* A callback returns *)

\* Fault: xxfi_abort is still to be invoked.
AbortReturns_Again ==
  /\ abortFirst \/ call = "abort"
  /\ call' = IF abortFirst THEN call ELSE "none"
  /\ tx' = "aborted"
  /\ UNCHANGED <<state, abortFirst, ending, connected, replies>>

AbortReturns ==
  /\ abortFirst \/ call = "abort"
  /\ abortFirst' = FALSE
  /\ call' = IF abortFirst THEN call ELSE "none"
  /\ tx' = "aborted"
  /\ UNCHANGED <<state, ending, connected, replies>>

CloseReturns ==
  /\ call = "close" /\ ~abortFirst
  /\ call' = "none"
  /\ connected' = FALSE
  /\ UNCHANGED <<state, abortFirst, ending, tx, replies>>

\* Fault: SKIP has no case.
Replied_NoSkip == {"CONTINUE", "TEMPFAIL", "REJECT", "DISCARD", "ACCEPT", "OPTIONS"}

\* sendreply writes something for these.
Replied == {"CONTINUE", "TEMPFAIL", "REJECT", "DISCARD", "ACCEPT", "SKIP",
            "OPTIONS"}

\* The session state after callback cb returned r in state st.
AfterVerdict(st, cb, r) ==
  IF \/ r = "ACCEPT"
     \/ r \in {"REJECT", "DISCARD", "TEMPFAIL"} /\ cb \notin Ignored
  THEN "HELO"
  ELSE st

\* The message once callback cb has run, and once its verdict r was sent.
Announced(cb) == IF cb = "envfrom" THEN "open" ELSE IF cb = "eom" THEN "eom" ELSE tx

Settled(cb, r) ==
  IF Announced(cb) = "open" /\ AfterVerdict("ENDM", cb, r) = "HELO"
  THEN "decided"
  ELSE Announced(cb)

\* The last chunk came with the end of the body and xxfi_body let it pass:
\* st_bodyend goes on to xxfi_eom without a reply.
LastChunkPasses(r) ==
  /\ call = "body" /\ state = "ENDM" /\ ~abortFirst
  /\ r = "CONTINUE"
  /\ call' = "eom"
  /\ UNCHANGED <<state, abortFirst, ending, tx, connected, replies>>

\* Fault: a reply for the chunk, one by st_bodyend and one by mi_engine.
RepliesFor_Thrice(r) ==
  IF r \notin Replied THEN 0
  ELSE IF call = "body" /\ state = "ENDM" THEN 3 ELSE 1

\* Fault: st_bodyend replies for xxfi_eom, too.
RepliesFor_Eom(r) ==
  IF r \notin Replied THEN 0
  ELSE IF state = "ENDM" THEN 2 ELSE 1

\* Otherwise st_bodyend itself replies, and mi_engine replies once more.
RepliesFor(r) ==
  IF r \notin Replied THEN 0
  ELSE IF call = "body" /\ state = "ENDM" THEN 2 ELSE 1

Answer(r) ==
  /\ call \in Judging /\ ~abortFirst
  /\ ~(call = "body" /\ state = "ENDM" /\ r = "CONTINUE")
  /\ connected' = (connected \/ call = "connect")
  /\ \/ /\ r # "ABORT"
        /\ replies' = RepliesFor(r)
        /\ tx' = Settled(call, r)
        /\ state' = AfterVerdict(state, call, r)
        /\ call' = "none"
        /\ UNCHANGED <<abortFirst, ending>>
     \/ /\ "unsent" \in Failures
        /\ replies' \in {n \in {0, 1} : n < RepliesFor(r)}
        /\ tx' = Announced(call)
        /\ Leave(state)
     \/ /\ r = "ABORT"
        /\ replies' = 0
        /\ tx' = tx
        /\ Leave(state)

\* The callback in hand returns r.
Returns(r) == LastChunkPasses(r) \/ Answer(r)

\* st_optionneg turns whatever the negotiation yields into one of these.
Results(cb) == IF cb = "negotiate" THEN {"OPTIONS", "ABORT"} ELSE Verdicts

-----------------------------------------------------------------------------
(* The connection ends *)

Lost ==
  /\ "lost" \in Failures
  /\ Idle
  /\ Leave(state)
  /\ UNCHANGED <<tx, connected, replies>>

\* Fault: the session is dropped without xxfi_close.
Expired_NoClose ==
  /\ "expired" \in Failures
  /\ Idle
  /\ ending' = TRUE
  /\ UNCHANGED <<state, call, abortFirst, tx, connected, replies>>

\* mi_pool_controller closes a session that was idle for ctx_timeout
\* seconds: xxfi_close runs, xxfi_abort does not.
Expired ==
  /\ "expired" \in Failures
  /\ Idle
  /\ call' = "close"
  /\ ending' = TRUE
  /\ UNCHANGED <<state, abortFirst, tx, connected, replies>>

-----------------------------------------------------------------------------
EngineNext ==
  \/ \E c \in Commands : Receive(c)
  \/ \E c \in Commands : ReceiveFromHelo(c)
  \/ \E c \in Commands : Ignore(c)
  \/ GiveUp
  \/ AbortReturns
  \/ CloseReturns
  \/ \E r \in Results(call) : Returns(r)
  \/ Lost
  \/ Expired

EngineSpec == EngineInit /\ [][EngineNext]_engineVars

-----------------------------------------------------------------------------
\* The type of the engine's state.
EngineTypeOK ==
  /\ state \in States
  /\ call \in Callbacks \cup {"none", "malformed"}
  /\ abortFirst \in BOOLEAN
  /\ ending \in BOOLEAN
  /\ tx \in {"none", "open", "eom", "aborted", "decided"}
  /\ connected \in BOOLEAN
  /\ replies \in 0..2

\* Callbacks that concern the message announced by the last xxfi_envfrom.
MessageCallbacks == {"envrcpt", "data", "header", "eoh", "body", "eom"}

\* A callback about a message, xxfi_abort included, is invoked only between
\* the xxfi_envfrom that announced the message and the verdict, the
\* xxfi_eom or the xxfi_abort that ends it (trans_ok, and mi_engine's
\* call_abort): no callback follows a REJECT, no message has both an
\* xxfi_abort and an xxfi_eom, none has two of one.
MessageOrder ==
  abortFirst \/ call \in MessageCallbacks \cup {"abort"} => tx = "open"

\* No message is forgotten: when the next one is announced or the
\* connection is closed, the one before was decided, aborted or ended
\* (mi_engine's calls of xxfi_abort).
MessageClosed ==
  call \in {"envfrom", "close"} /\ ~abortFirst => tx # "open"

\* A message that is open will have its end, as far as the engine is concerned: it
\* is about to be aborted or ended, or the state is one that still leads there.
EndToCome ==
  \/ abortFirst
  \/ call \in {"abort", "eom"} \/ (call = "body" /\ state = "ENDM")
  \/ InMail(state) /\ call # "envfrom" /\ ~ending

\* Whatever the MTA sends and the filter returns, an open message is forgotten in
\* three ways only: its session is closed for its age (mi_pool_controller), an
\* unrecognized SMTP command comes in between (ST_UNKN), or xxfi_body has a
\* verdict of its own on the last chunk (st_bodyend).
ForgottenOnlyBy ==
  [][tx' = "open" /\ ~EndToCome' =>
       \/ tx = "open" /\ ~EndToCome
       \/ Expired
       \/ state' = "UNKN"
       \/ call = "body" /\ state = "ENDM"]_engineVars

\* Every xxfi_connect is matched by an xxfi_close before the next
\* xxfi_connect and before the session is dropped, however it ends.
ConnectionBalanced ==
  call = "connect" \/ Ended => ~connected

Contract == INSTANCE MilterContract
              WITH connection <- connected, message <- tx, over <- Ended

\* The engine keeps the contract of mfapi.h: seen by the filter, its callbacks
\* are a behaviour of MilterContract, where every message has one end and
\* every connection one close.
KeepsContract == Contract!ContractSpec

=============================================================================
