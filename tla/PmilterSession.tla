--------------------------- MODULE PmilterSession ---------------------------
(***************************************************************************)
(* pmilter's callbacks (pmilter.c, pmilter_config.c) run by the libmilter  *)
(* engine for one MTA connection.                                          *)
(*                                                                         *)
(* MilterEngine says which callback is in hand; here each mrb_xxfi_*       *)
(* handler is an action, with what it does to the private data of the      *)
(* context, to the command_rec the mruby scripts read, to the code slots   *)
(* and to the heap.  A script is two steps, its start and its end, so that *)
(* what it can read is a state of its own.                                 *)
(*                                                                         *)
(* Outcomes the C language leaves undefined (the configuration used as a   *)
(* pmilter_state, a NULL hostaddr followed) stop the session: the handler  *)
(* has no step there.  PrivAsExpected says when the first can happen.      *)
(***************************************************************************)
EXTENDS MilterEngine

CONSTANTS
  EnableMruby,   \* config->enable_mruby_handler
  Handlers,      \* callbacks with a script path in the configuration
  Broken,        \* those whose script may fail to compile
  Families,      \* client address families: subset of AllFamilies
  Recipients,    \* recipient addresses
  RcptMacro,     \* the MTA sends {rcpt_addr} before every RCPT
  EarlyEnd       \* the MTA may hang up, or send something else, before CONNECT

\* "inet" stands for AF_INET and AF_INET6, "local" for AF_UNIX, "unknown" for
\* SMFIA_UNKNOWN, for which st_connectinfo passes a NULL hostaddr.
AllFamilies == {"inet", "local", "unknown"}

Scriptable == Callbacks \ {"negotiate"}

NULL == "NULL"

ASSUME SessionAssumption ==
  /\ EnableMruby \in BOOLEAN
  /\ Handlers \subseteq Scriptable
  /\ Broken \subseteq Handlers
  /\ Families \subseteq AllFamilies
  /\ RcptMacro \in BOOLEAN
  /\ EarlyEnd \in BOOLEAN
  /\ NULL \notin Recipients
  /\ {"CONTINUE", "TEMPFAIL"} \subseteq Verdicts

VARIABLES
  priv,    \* what ctx_privdata points to: the configuration or the state
  rec,     \* pmilter->cmd
  slots,   \* callbacks whose pmilter->mruby_*_handler is not NULL
  status,  \* pmilter->status
  script,  \* the callback whose script is running, or "none"
  dropped, \* history: kinds of memory the last step left without a pointer
  macro,   \* {rcpt_addr} among the RCPT macros of the context, or NULL
  rcpt     \* recipient of the RCPT command announced or in hand, or NULL

vars == <<state, call, abortFirst, ending, tx, connected, replies,
          priv, rec, slots, status, script, dropped, macro, rcpt>>

\* command_rec.  helohost and envelope_from own a copy; envelope_to points
\* into the macro buffer; header and body_chunk into the command's buffer.
Records ==
  [helohost : {NULL, "copy"}, envelope_from : {NULL, "copy"},
   envelope_to : {NULL, "live", "dangling"}, header : {NULL, "live", "dangling"},
   body_chunk : {NULL, "live", "dangling"}]

\* Fault: a field of the record is left uninitialized.
NewRecord_Garbage ==
  [helohost |-> NULL, envelope_from |-> NULL, envelope_to |-> NULL,
   header |-> NULL, body_chunk |-> "garbage"]

\* pmilter_command_init
NewRecord ==
  [helohost |-> NULL, envelope_from |-> NULL, envelope_to |-> NULL,
   header |-> NULL, body_chunk |-> NULL]

SessionInit ==
  /\ EngineInit
  /\ priv = "config"
  /\ rec = NewRecord
  /\ slots = {}
  /\ status = "CONTINUE"
  /\ script = "none"
  /\ dropped = {}
  /\ macro = NULL
  /\ rcpt = NULL

-----------------------------------------------------------------------------
(* What the MTA sends *)

\* Unless EarlyEnd, it begins with OPTNEG and CONNECT.
MaySend(c) ==
  \/ EarlyEnd
  \/ connected
  \/ c \in {"OPTNEG", "CONNECT"} /\ TransOK(state, CommandState[c])

\* RCPT names a recipient; with RcptMacro, the one its macros announced.
Command(c) ==
  /\ script = "none"
  /\ MaySend(c)
  /\ RcptMacro => (c = "RCPT") = (rcpt # NULL)
  /\ Receive(c) \/ ReceiveFromHelo(c) \/ Ignore(c)
  /\ IF ~RcptMacro /\ call' = "envrcpt" THEN rcpt' \in Recipients ELSE rcpt' = rcpt
  /\ dropped' = {}
  /\ UNCHANGED <<priv, rec, slots, status, script, macro>>

\* mi_clr_macros and st_macros free the buffer that envelope_to points into.
MacrosFreed(r) ==
  [r EXCEPT !.envelope_to = IF @ = "live" THEN "dangling" ELSE @]

\* Fault: smfi_getsymval finds the macros of the first RCPT.
Macro_First(a) ==
  /\ Idle /\ script = "none"
  /\ RcptMacro /\ rcpt = NULL
  /\ state \in {"MAIL", "RCPT"}
  /\ macro' = IF macro = NULL THEN a ELSE macro
  /\ rcpt' = a
  /\ rec' = MacrosFreed(rec)
  /\ UNCHANGED engineVars
  /\ dropped' = {}
  /\ UNCHANGED <<priv, slots, status, script>>

\* SMFIC_MACRO for RCPT.
Macro(a) ==
  /\ Idle /\ script = "none"
  /\ RcptMacro /\ rcpt = NULL
  /\ state \in {"MAIL", "RCPT"}
  /\ macro' = a
  /\ rcpt' = a
  /\ rec' = MacrosFreed(rec)
  /\ UNCHANGED engineVars
  /\ dropped' = {}
  /\ UNCHANGED <<priv, slots, status, script>>

MtaGone ==
  /\ script = "none"
  /\ EarlyEnd \/ connected
  /\ Lost \/ Expired
  /\ dropped' = {}
  /\ UNCHANGED <<priv, rec, slots, status, script, macro, rcpt>>

\* The arguments do not decode; st_helo, st_sender and st_connectinfo have
\* cleared the later macros by then.
Undecoded ==
  /\ GiveUp
  /\ IF state \in {"OPTS", "CONN", "HELO", "MAIL"}
     THEN macro' = NULL /\ rec' = MacrosFreed(rec)
     ELSE UNCHANGED <<macro, rec>>
  /\ dropped' = {}
  /\ UNCHANGED <<priv, slots, status, script, rcpt>>

-----------------------------------------------------------------------------
(* The parts the handlers share *)

\* The callback libmilter invokes next.
Current == IF abortFirst THEN "abort" ELSE call

\* The engine goes on with the value the callback returned.
EngineGoesOn(cb, r) ==
  \/ cb = "abort" /\ AbortReturns
  \/ cb = "close" /\ CloseReturns
  \/ cb \notin {"abort", "close"} /\ Returns(r)

\* mi_engine frees the command's buffer, unless xxfi_eom is still to run.
BufferFreed(r) ==
  IF call' = "eom" THEN r
  ELSE [r EXCEPT !.header = IF @ = "live" THEN "dangling" ELSE @,
                 !.body_chunk = IF @ = "live" THEN "dangling" ELSE @]

\* A handler returns r to libmilter, leaving the record as r2.
Return(cb, r, r2) ==
  /\ EngineGoesOn(cb, r)
  /\ rec' = BufferFreed(r2)
  /\ rcpt' = IF cb = "envrcpt" THEN NULL ELSE rcpt

\* pmilter_mrb_code_from_file: a fresh code in the slot, NULL without a path.
SlotAfter(cb) == IF cb \in Handlers THEN slots \cup {cb} ELSE slots \ {cb}

\* What the slot held before is lost.
CodeLost(cb) == {k \in {"code"} : cb \in slots}

\* Compilation stopped: at a file that cannot be opened, or at a syntax error,
\* which leaves the mrbc_context behind.
Unfinished(lost) == {lost, lost \cup {"context"}}

\* Fault: the status of the callback before is kept.
StatusReset_Kept == UNCHANGED status

\* Every handler begins with it.
StatusReset == status' = "CONTINUE"

HasScript(cb) == EnableMruby /\ cb \in Handlers

(***************************************************************************)
(* The body of mrb_xxfi_<cb>, for every callback but connect and close:    *)
(* the status is reset, the slot filled, the record becomes r2, memory of  *)
(* the kinds in lost is dropped; then no script, a script that does not    *)
(* compile, or a script that starts.                                       *)
(***************************************************************************)
Handler(cb, r2, lost) ==
  /\ Current = cb
  /\ script = "none"
  /\ priv = "state"
  /\ StatusReset
  /\ slots' = SlotAfter(cb)
  /\ \/ /\ ~HasScript(cb)
        /\ Return(cb, status', r2)
        /\ dropped' = lost \cup CodeLost(cb)
        /\ UNCHANGED script
     \/ /\ HasScript(cb) /\ cb \in Broken
        /\ Return(cb, "TEMPFAIL", r2)
        /\ dropped' \in Unfinished(lost \cup CodeLost(cb))
        /\ UNCHANGED script
     \/ /\ HasScript(cb)
        /\ script' = cb
        /\ rec' = r2
        /\ dropped' = lost \cup CodeLost(cb)
        /\ UNCHANGED engineVars
        /\ UNCHANGED rcpt
  /\ UNCHANGED priv

-----------------------------------------------------------------------------
(* The handlers *)

mrb_xxfi_negotiate ==
  /\ call = "negotiate" /\ priv = "config"
  /\ Returns("OPTIONS")
  /\ EarlyEnd \/ call' = "none"
  /\ macro' = NULL
  /\ dropped' = {}
  /\ UNCHANGED <<priv, rec, slots, status, script, rcpt>>

\* The state is created, but becomes the private data only at the end: an
\* early return leaves the configuration there and drops the state.
mrb_xxfi_connect ==
  /\ Current = "connect"
  /\ script = "none"
  /\ priv = "config"
  /\ macro' = NULL
  /\ StatusReset
  /\ slots' = {"connect"} \cap Handlers
  /\ \E family \in Families :
       \/ /\ EnableMruby /\ family = "local"
          /\ Return("connect", "TEMPFAIL", NewRecord)
          /\ dropped' = {"state"}
          /\ UNCHANGED <<priv, script>>
       \/ /\ EnableMruby => family = "inet"
          /\ ~HasScript("connect")
          /\ Return("connect", status', NewRecord)
          /\ priv' = "state"
          /\ dropped' = {}
          /\ UNCHANGED script
       \/ /\ family = "inet"
          /\ HasScript("connect") /\ "connect" \in Broken
          /\ Return("connect", "TEMPFAIL", NewRecord)
          /\ dropped' \in Unfinished({"state"})
          /\ UNCHANGED <<priv, script>>
       \/ /\ family = "inet"
          /\ HasScript("connect")
          /\ script' = "connect"
          /\ rec' = NewRecord
          /\ UNCHANGED engineVars
          /\ dropped' = {}
          /\ UNCHANGED <<priv, rcpt>>

mrb_xxfi_helo ==
  /\ Handler("helo",
             [MacrosFreed(rec) EXCEPT !.helohost = IF EnableMruby THEN "copy" ELSE @],
             {k \in {"helohost"} : rec.helohost # NULL})
  /\ macro' = NULL

mrb_xxfi_envfrom ==
  /\ Handler("envfrom",
             [MacrosFreed(rec) EXCEPT !.envelope_from = IF EnableMruby THEN "copy" ELSE @],
             {k \in {"envelope_from"} : rec.envelope_from # NULL})
  /\ macro' = NULL

\* Fault: the recipient of the first RCPT stays.
mrb_xxfi_envrcpt_First ==
  /\ Handler("envrcpt",
             [rec EXCEPT !.envelope_to = IF ~EnableMruby \/ @ # NULL THEN @
                                         ELSE IF macro = NULL THEN NULL ELSE "live"],
             {})
  /\ UNCHANGED macro

\* The recipient is taken from {rcpt_addr}, not from the arguments.
mrb_xxfi_envrcpt ==
  /\ Handler("envrcpt",
             [rec EXCEPT !.envelope_to = IF ~EnableMruby THEN @
                                         ELSE IF macro = NULL THEN NULL ELSE "live"],
             {})
  /\ UNCHANGED macro

mrb_xxfi_header ==
  /\ Handler("header", [rec EXCEPT !.header = IF EnableMruby THEN "live" ELSE @], {})
  /\ UNCHANGED macro

mrb_xxfi_body ==
  /\ Handler("body",
             [rec EXCEPT !.body_chunk = IF HasScript("body") THEN "live" ELSE @], {})
  /\ UNCHANGED macro

\* eoh, data, eom, abort and unknown leave the record alone (eom's
\* receive_time apart, which no property looks at).
mrb_xxfi_plain(cb) ==
  /\ Handler(cb, rec, {})
  /\ UNCHANGED macro

\* Fault: the freed state stays the private data.
Close_KeepsPriv ==
  /\ Return("close", status', IF EnableMruby THEN NewRecord ELSE rec)
  /\ slots' = {}
  /\ macro' = NULL
  /\ UNCHANGED priv

\* pmilter_delete_conf frees the record, the slots and the interpreter; the
\* state itself too, but only with an interpreter.  st_quit and mi_clr_ctx
\* then clear the macros.  The handler's last line reads the status from the
\* freed state; mi_engine discards what xxfi_close returns, so the value read
\* makes no difference here.
Close ==
  /\ Return("close", status', IF EnableMruby THEN NewRecord ELSE rec)
  /\ slots' = {}
  /\ priv' = "config"
  /\ macro' = NULL

mrb_xxfi_close ==
  /\ Current = "close"
  /\ script = "none"
  /\ priv = "state"
  /\ StatusReset
  /\ \/ /\ ~HasScript("close")
        /\ Close
        /\ dropped' = {k \in {"state"} : ~EnableMruby}
        /\ UNCHANGED script
     \/ /\ HasScript("close") /\ "close" \in Broken
        /\ Return("close", "TEMPFAIL", rec)
        /\ slots' = SlotAfter("close")
        /\ dropped' \in Unfinished(CodeLost("close"))
        /\ macro' = NULL
        /\ UNCHANGED <<priv, script>>
     \/ /\ HasScript("close")
        /\ script' = "close"
        /\ slots' = SlotAfter("close")
        /\ dropped' = CodeLost("close")
        /\ UNCHANGED engineVars
        /\ UNCHANGED <<priv, rec, macro, rcpt>>

-----------------------------------------------------------------------------
(* The end of a script *)

\* Fault: the sender is not freed.
PerSessionFreed_Sender(r) ==
  [r EXCEPT !.envelope_to = NULL, !.header = NULL]

\* command_rec_free_per_session
PerSessionFreed(r) ==
  [r EXCEPT !.envelope_from = NULL, !.envelope_to = NULL, !.header = NULL]

\* Fault: the code stays in its slot.
ScriptEnds_Code(r) ==
  /\ script # "none"
  /\ script' = "none"
  /\ status' = r
  /\ dropped' = {}
  /\ \/ /\ script = "close"
        /\ Close
     \/ /\ script # "close"
        /\ UNCHANGED slots
        /\ Return(script, r, IF script = "eom" THEN PerSessionFreed(rec) ELSE rec)
        /\ priv' = IF script = "connect" THEN "state" ELSE priv
        /\ UNCHANGED macro

\* pmilter_<phase>_handler once mrb_run is back: an exception is TEMPFAIL,
\* otherwise the status is what the script set, or CONTINUE.  Then the rest
\* of mrb_xxfi_<phase>.
ScriptEnds(r) ==
  /\ script # "none"
  /\ script' = "none"
  /\ status' = r
  /\ dropped' = {}
  /\ \/ /\ script = "close"
        /\ Close
     \/ /\ script # "close"
        /\ slots' = slots \ {script}
        /\ Return(script, r, IF script = "eom" THEN PerSessionFreed(rec) ELSE rec)
        /\ priv' = IF script = "connect" THEN "state" ELSE priv
        /\ UNCHANGED macro

-----------------------------------------------------------------------------
SessionNext ==
  \/ \E c \in Commands : Command(c)
  \/ \E a \in Recipients : Macro(a)
  \/ MtaGone
  \/ Undecoded
  \/ mrb_xxfi_negotiate
  \/ mrb_xxfi_connect
  \/ mrb_xxfi_helo
  \/ mrb_xxfi_envfrom
  \/ mrb_xxfi_envrcpt
  \/ mrb_xxfi_header
  \/ mrb_xxfi_body
  \/ \E cb \in {"data", "eoh", "eom", "abort", "unknown"} : mrb_xxfi_plain(cb)
  \/ mrb_xxfi_close
  \/ \E r \in Verdicts : ScriptEnds(r)

SessionSpec == SessionInit /\ [][SessionNext]_vars

-----------------------------------------------------------------------------
\* The type of the session's state.
SessionTypeOK ==
  /\ EngineTypeOK
  /\ priv \in {"config", "state"}
  /\ rec \in Records
  /\ slots \subseteq Handlers
  /\ status \in Verdicts
  /\ script \in Handlers \cup {"none"}
  /\ dropped \subseteq {"state", "context", "code", "helohost", "envelope_from"}
  /\ macro \in Recipients \cup {NULL}
  /\ rcpt \in Recipients \cup {NULL}

\* Every handler finds the private data it casts smfi_getpriv's result to:
\* negotiate and connect the configuration, all others the pmilter_state that
\* connect created and no close has freed.  One exception: a close script that
\* does not compile leaves its code and the state to the next xxfi_connect.
PrivAsExpected ==
  /\ call \in {"negotiate", "connect"} => priv = "config" \/ "close" \in slots
  /\ abortFirst \/ call \in Callbacks \ {"negotiate", "connect"} => priv = "state"

\* A session that is over has given its pmilter_state, interpreter included,
\* back: pmilter_delete_conf ran for each state pmilter_create_conf made, unless
\* the close script, whose code is then still in its slot, did not compile.
SessionFreed ==
  /\ Ended => priv = "config" \/ "close" \in slots
  /\ "state" \notin dropped

\* What the sample scripts of the handler directory read in each phase does
\* not point into a buffer libmilter has freed.
Reads ==
  [envfrom |-> {"envelope_from"}, envrcpt |-> {"envelope_to"}, header |-> {"header"},
   body |-> {"body_chunk"}, eom |-> {"envelope_from", "envelope_to"}]

ReadsValid ==
  script \in DOMAIN Reads => \A f \in Reads[script] : rec[f] # "dangling"

\* The recipient the RCPT script reads is the one of the RCPT in hand, although
\* it comes from a macro the MTA sent before.
RecipientMatches ==
  script = "envrcpt" => rec.envelope_to = "live" /\ macro = rcpt

\* The copy of the sender that mrb_xxfi_envfrom makes is freed before the next
\* one takes its place.
SenderFreed == "envelope_from" \notin dropped

\* The sender's copy is lost in two cases only: the message before had no xxfi_eom,
\* or the script of its xxfi_eom did not compile, and left its code behind
\* (command_rec_free_per_session is called by mrb_xxfi_eom alone).
SenderLostEarly ==
  [][HasScript("eom") /\ "envelope_from" \in dropped' =>
       tx # "eom" \/ "eom" \in slots]_vars

\* With mruby enabled the code of a script is freed when it has run: between two
\* callbacks only the code of scripts that do not compile is left, so that no other
\* is lost when its callback is invoked again (pmilter_mrb_code_from_file, the
\* *_handler functions).  Without an interpreter nothing runs, and nothing is freed.
CodeFreed ==
  EnableMruby /\ priv = "state" => slots \subseteq Broken \cup {script}

\* A message is decided only by the script of the callback in hand, or because
\* it failed to compile: no status is left over from an earlier callback, and
\* a callback without a script lets the message pass.
OnlyScriptsDecide ==
  [][tx' = "decided" /\ tx # "decided" =>
       \/ script # "none" /\ status' # "CONTINUE"
       \/ call \in Broken]_vars

=============================================================================
