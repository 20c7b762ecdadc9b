------------------------- MODULE MilterEngineProofs -------------------------
(***************************************************************************)
(* Proofs about MilterEngine, for every set of commands, failures and      *)
(* verdicts that meets the assumptions a theorem names.                    *)
(***************************************************************************)
EXTENDS MilterEngine, TLAPS

\* The state a pending callback was dispatched in.
CallbackStates ==
  [negotiate |-> {"OPTS"}, connect |-> {"CONN"}, helo |-> {"HELO"},
   envfrom |-> {"MAIL"}, envrcpt |-> {"RCPT"}, data |-> {"DATA"},
   header |-> {"HDRS"}, eoh |-> {"EOHS"}, body |-> {"BODY", "ENDM"},
   eom |-> {"ENDM"}, unknown |-> {"UNKN"}, abort |-> {"ABRT"},
   close |-> States]

\* The parts of EngineTypeOK: symbols, flags and the counter.
SymbolsOK ==
  /\ state \in States
  /\ call \in Callbacks \cup {"none", "malformed"}
  /\ tx \in {"none", "open", "eom", "aborted", "decided"}

FlagsOK ==
  /\ abortFirst \in BOOLEAN
  /\ ending \in BOOLEAN
  /\ connected \in BOOLEAN

CounterOK == replies \in 0..2

\* What is pending agrees with the session state.
PendingMatches ==
  /\ call \in Callbacks => state \in CallbackStates[call]
  /\ call = "close" /\ ~ending => state = "Q_NC"
  /\ call = "malformed" =>
       state \in {"OPTS", "CONN", "HELO", "MAIL", "RCPT", "HDRS"}
  /\ ending => call \in {"close", "none"}
  /\ ending /\ abortFirst => call = "close"
  /\ abortFirst => \/ call = "close"
                   \/ call \in {"none", "helo", "malformed"} /\ state = "HELO"
                   \/ call \in {"envfrom", "malformed"} /\ state = "MAIL"
                   \/ call = "unknown"

EngineInv == SymbolsOK /\ FlagsOK /\ CounterOK /\ PendingMatches

\* Rows of the transition table, one by one: what may follow each state.
LEMMA TransRows ==
  /\ NextStates["INIT"] = {"OPTS"}
  /\ NextStates["OPTS"] = {"CONN", "UNKN"}
  /\ NextStates["CONN"] = {"HELO", "MAIL", "UNKN"}
  /\ NextStates["HELO"] = {"HELO", "MAIL", "UNKN"}
  /\ NextStates["MAIL"] = {"RCPT", "ABRT", "UNKN"}
  /\ "RCPT" \in NextStates["RCPT"] /\ "DATA" \in NextStates["RCPT"]
  /\ NextStates["DATA"] = {"EOHS", "HDRS", "ABRT"}
  /\ NextStates["HDRS"] = {"EOHS", "HDRS", "ABRT"}
  /\ NextStates["EOHS"] = {"BODY", "ENDM", "ABRT"}
  /\ NextStates["BODY"] = {"ENDM", "BODY", "ABRT"}
  /\ NextStates["QUIT"] = {} /\ NextStates["ABRT"] = {}
  /\ "RCPT" \in NextStates["UNKN"] /\ "DATA" \in NextStates["UNKN"]
  /\ NextStates["Q_NC"] = {"CONN", "UNKN"}
BY DEF NextStates

\* The states of the commands, one by one.
LEMMA StateRows ==
  /\ CommandState["OPTNEG"] = "OPTS" /\ CommandState["CONNECT"] = "CONN"
  /\ CommandState["HELO"] = "HELO" /\ CommandState["MAIL"] = "MAIL"
  /\ CommandState["RCPT"] = "RCPT" /\ CommandState["DATA"] = "DATA"
  /\ CommandState["HEADER"] = "HDRS" /\ CommandState["EOH"] = "EOHS"
  /\ CommandState["BODY"] = "BODY" /\ CommandState["EOB"] = "ENDM"
  /\ CommandState["EOB_CHUNK"] = "ENDM" /\ CommandState["ABORT"] = "ABRT"
  /\ CommandState["QUIT"] = "QUIT" /\ CommandState["QUIT_NC"] = "Q_NC"
  /\ CommandState["UNKNOWN"] = "UNKN"
BY DEF CommandState

\* The callbacks of the commands, one by one.
LEMMA CallbackRows ==
  /\ CommandCallback["OPTNEG"] = "negotiate" /\ CommandCallback["CONNECT"] = "connect"
  /\ CommandCallback["HELO"] = "helo" /\ CommandCallback["MAIL"] = "envfrom"
  /\ CommandCallback["RCPT"] = "envrcpt" /\ CommandCallback["DATA"] = "data"
  /\ CommandCallback["HEADER"] = "header" /\ CommandCallback["EOH"] = "eoh"
  /\ CommandCallback["BODY"] = "body" /\ CommandCallback["EOB"] = "eom"
  /\ CommandCallback["EOB_CHUNK"] = "body" /\ CommandCallback["ABORT"] = "abort"
  /\ CommandCallback["QUIT"] = "close" /\ CommandCallback["QUIT_NC"] = "close"
  /\ CommandCallback["UNKNOWN"] = "unknown"
BY DEF CommandCallback

\* Only RCPT is for xxfi_envrcpt.
LEMMA EnvrcptRow ==
  ASSUME NEW c \in AllCommands, c # "RCPT"
  PROVE  CommandCallback[c] # "envrcpt"
BY CallbackRows DEF AllCommands

\* The states some pending callbacks are dispatched in.
LEMMA PendingPlace ==
  ASSUME EngineInv
  PROVE  /\ call = "negotiate" => state = "OPTS"
         /\ call = "connect" => state = "CONN"
         /\ call = "helo" => state = "HELO"
         /\ call = "envfrom" => state = "MAIL"
         /\ call = "eom" => state = "ENDM"
         /\ call \in Callbacks /\ state = "ENDM" => call \in {"body", "eom", "close"}
<1>1. call \in Callbacks => state \in CallbackStates[call]
  BY DEF EngineInv, PendingMatches
<1>2. /\ CallbackStates["negotiate"] = {"OPTS"} /\ CallbackStates["connect"] = {"CONN"}
      /\ CallbackStates["helo"] = {"HELO"} /\ CallbackStates["envfrom"] = {"MAIL"}
  BY DEF CallbackStates
<1>3. CallbackStates["eom"] = {"ENDM"}
  BY DEF CallbackStates
<1>4. {"negotiate", "connect", "helo", "envfrom", "eom"} \subseteq Callbacks
  BY DEF Callbacks, Judging
<1>5. \A cb \in Callbacks : "ENDM" \in CallbackStates[cb] => cb \in {"body", "eom", "close"}
  <2>1. /\ CallbackStates["envrcpt"] = {"RCPT"} /\ CallbackStates["data"] = {"DATA"}
        /\ CallbackStates["header"] = {"HDRS"} /\ CallbackStates["eoh"] = {"EOHS"}
    BY DEF CallbackStates
  <2>2. CallbackStates["unknown"] = {"UNKN"} /\ CallbackStates["abort"] = {"ABRT"}
    BY DEF CallbackStates
  <2>3. QED
    BY <1>2, <2>1, <2>2 DEF Callbacks, Judging
<1>6. QED
  BY <1>1, <1>2, <1>3, <1>4, <1>5

\* Facts about the tables, evaluated once so that the proofs below need not
\* expand them.
LEMMA DispatchFacts ==
  ASSUME NEW c \in AllCommands
  PROVE  /\ CommandState[c] \in States
         /\ CommandCallback[c] \in Callbacks
         /\ CommandState[c] \in CallbackStates[CommandCallback[c]]
         /\ CommandCallback[c] = "close" => c \in {"QUIT", "QUIT_NC"}
         /\ c = "QUIT_NC" => CommandState[c] = "Q_NC"
         /\ c = "QUIT" => CommandCallback[c] = "close" /\ CommandState[c] = "QUIT"
         /\ c \in Decoded => CommandState[c] \in
              {"OPTS", "CONN", "HELO", "MAIL", "RCPT", "HDRS"}
         /\ TransOK("HELO", CommandState[c]) =>
              \/ CommandCallback[c] = "helo" /\ CommandState[c] = "HELO"
              \/ CommandCallback[c] = "envfrom" /\ CommandState[c] = "MAIL"
              \/ /\ CommandCallback[c] = "unknown"
                 /\ CommandState[c] = "UNKN"
                 /\ c = "UNKNOWN"
  BY DEF AllCommands, CommandState, CommandCallback, States, Callbacks, Judging,
         CallbackStates, Decoded, TransOK, NextStates

\* Every step of the engine keeps its state well typed and what is pending in
\* agreement with it, whatever the MTA sends and however callbacks return.
LEMMA EngineInvStep ==
  ASSUME EngineInv, [EngineNext]_engineVars
  PROVE  EngineInv'
<1> USE EngineAssumption DEF EngineInv
<1>1. ASSUME NEW c \in Commands, Receive(c)
      PROVE  EngineInv'
  <2>1. c \in AllCommands /\ (c \in Malformed => c \in Decoded)
    OBVIOUS
  <2>2. SymbolsOK'
    BY <1>1, <2>1, DispatchFacts DEF Receive, Dispatch, SymbolsOK
  <2>3. FlagsOK'
    BY <1>1 DEF Receive, Dispatch, FlagsOK
  <2>c. CounterOK'
    BY <1>1 DEF Receive, Dispatch, CounterOK
  <2>4. PendingMatches'
    BY <1>1, <2>1, DispatchFacts
       DEF Receive, Dispatch, PendingMatches, Callbacks, Judging
  <2>5. QED
    BY <2>2, <2>3, <2>4, <2>c
<1>2. ASSUME NEW c \in Commands, ReceiveFromHelo(c)
      PROVE  EngineInv'
  <2>1. c \in AllCommands /\ (c \in Malformed => c \in Decoded)
    OBVIOUS
  <2>2. SymbolsOK'
    BY <1>2, <2>1, DispatchFacts DEF ReceiveFromHelo, Dispatch, SymbolsOK
  <2>3. FlagsOK'
    BY <1>2 DEF ReceiveFromHelo, Dispatch, FlagsOK, InMail
  <2>c. CounterOK'
    BY <1>2 DEF ReceiveFromHelo, Dispatch, CounterOK
  <2>4. PendingMatches'
    BY <1>2, <2>1, DispatchFacts
       DEF ReceiveFromHelo, Dispatch, PendingMatches, Callbacks, Judging
  <2>5. QED
    BY <2>2, <2>3, <2>4, <2>c
<1>3. ASSUME NEW c \in Commands, Ignore(c)
      PROVE  EngineInv'
  <2>1. SymbolsOK'
    BY <1>3 DEF Ignore, SymbolsOK, States, Callbacks
  <2>2. FlagsOK'
    BY <1>3 DEF Ignore, FlagsOK, InMail
  <2>c. CounterOK'
    BY <1>3 DEF Ignore, CounterOK
  <2>3. PendingMatches'
    BY <1>3 DEF Ignore, PendingMatches, States, CallbackStates, Callbacks, Judging
  <2>4. QED
    BY <2>1, <2>2, <2>3, <2>c
<1>4. CASE GiveUp
  <2>1. SymbolsOK'
    BY <1>4 DEF GiveUp, Leave, SymbolsOK, Callbacks
  <2>a. InMail(state) \in BOOLEAN
    BY DEF InMail
  <2>2. FlagsOK'
    BY <1>4, <2>a, Zenon DEF GiveUp, Leave, FlagsOK
  <2>c. CounterOK'
    BY <1>4 DEF GiveUp, Leave, CounterOK
  <2>3. PendingMatches'
    BY <1>4 DEF GiveUp, Leave, PendingMatches, SymbolsOK, CallbackStates, Callbacks, Judging
  <2>4. QED
    BY <2>1, <2>2, <2>3, <2>c
<1>5. CASE AbortReturns
  BY <1>5 DEF AbortReturns, SymbolsOK, FlagsOK, CounterOK, PendingMatches, CallbackStates, Callbacks, Judging
<1>6. CASE CloseReturns
  BY <1>6 DEF CloseReturns, SymbolsOK, FlagsOK, CounterOK, PendingMatches, CallbackStates, Callbacks, Judging
<1>7. ASSUME NEW r \in Results(call), LastChunkPasses(r)
      PROVE  EngineInv'
  BY <1>7 DEF LastChunkPasses, SymbolsOK, FlagsOK, CounterOK, PendingMatches, CallbackStates, Callbacks,
              Judging
<1>8. ASSUME NEW r \in Results(call), Answer(r)
      PROVE  EngineInv'
  <2>1. RepliesFor(r) \in 0..2
    BY DEF RepliesFor
  <2>2. Announced(call) \in {"none", "open", "eom", "aborted", "decided"}
    BY DEF Announced, SymbolsOK
  <2>3. Settled(call, r) \in {"none", "open", "eom", "aborted", "decided"}
    BY <2>2 DEF Settled
  <2>4. AfterVerdict(state, call, r) \in States
    BY DEF AfterVerdict, SymbolsOK, States
  <2>5. ~ending
    BY <1>8 DEF Answer, PendingMatches, Judging
  <2>6. SymbolsOK'
    BY <1>8, <2>2, <2>3, <2>4 DEF Answer, Leave, SymbolsOK, Callbacks
  <2>a. InMail(state) \in BOOLEAN
    BY DEF InMail
  <2>7. FlagsOK'
    BY <1>8, <2>a, Zenon DEF Answer, Leave, FlagsOK
  <2>c. CounterOK'
    BY <1>8, <2>1 DEF Answer, CounterOK
  <2>8. PendingMatches'
    BY <1>8, <2>5 DEF Answer, Leave, SymbolsOK, PendingMatches, CallbackStates, Callbacks, Judging
  <2>9. QED
    BY <2>6, <2>7, <2>8, <2>c
<1>9. CASE Lost
  BY <1>9 DEF Lost, Leave, Idle, InMail, SymbolsOK, FlagsOK, CounterOK, PendingMatches, CallbackStates,
              Callbacks, Judging
<1>10. CASE Expired
  BY <1>10 DEF Expired, Idle, SymbolsOK, FlagsOK, CounterOK, PendingMatches, CallbackStates, Callbacks,
               Judging
<1>11. CASE UNCHANGED engineVars
  BY <1>11 DEF engineVars, SymbolsOK, FlagsOK, CounterOK, PendingMatches
<1>12. QED
  BY <1>1, <1>2, <1>3, <1>4, <1>5, <1>6, <1>7, <1>8, <1>9, <1>10, <1>11
     DEF EngineNext, Returns

\* Before its first command the engine is well typed and has nothing pending.
LEMMA EngineInvInit ==
  EngineInit => EngineInv
<1> SUFFICES ASSUME EngineInit PROVE EngineInv
  OBVIOUS
<1>1. SymbolsOK
  BY DEF EngineInit, SymbolsOK, States
<1>2. FlagsOK
  BY DEF EngineInit, FlagsOK
<1>c. CounterOK
  BY DEF EngineInit, CounterOK
<1>3. PendingMatches
  BY DEF EngineInit, PendingMatches, Callbacks, Judging
<1>4. QED
  BY <1>1, <1>2, <1>3, <1>c DEF EngineInv

\* The engine's state is always well typed.
THEOREM EngineTypeCorrect ==
  EngineSpec => []EngineTypeOK
<1>1. EngineInit => EngineInv
  BY EngineInvInit
<1>2. EngineInv /\ [EngineNext]_engineVars => EngineInv'
  BY EngineInvStep
<1>3. EngineInv => EngineTypeOK
  BY DEF EngineInv, SymbolsOK, FlagsOK, CounterOK, EngineTypeOK
<1>4. QED
  BY <1>1, <1>2, <1>3, PTL DEF EngineSpec

-----------------------------------------------------------------------------
(***************************************************************************)
(* The order of the callbacks of a message.  MessageOrder by itself is not *)
(* inductive: it says nothing of the states in which the engine waits for  *)
(* a command.  The strengthening ties those to the message: a session that *)
(* waits inside a mail transaction has an open message.                    *)
(***************************************************************************)
OrderInv ==
  /\ state # "UNKN"
  /\ call = "malformed" => state # "MAIL"
  /\ MessageOrder
  /\ call \in {"none", "malformed"} /\ ~abortFirst /\ ~ending /\ InMail(state)
       => tx = "open"

\* What a command does when its state is reached from where mi_engine waits
\* (or from HELO), for an MTA that sends no SMFIC_UNKNOWN.
LEMMA OrderFacts ==
  ASSUME NEW c \in AllCommands, c # "UNKNOWN"
  PROVE  /\ CommandState[c] # "UNKN"
         /\ CommandState[c] = "MAIL" => c = "MAIL"
         /\ \A st \in States \ {"UNKN"} :
              /\ TransOK(st, CommandState[c])
              /\ \/ CommandCallback[c] \in MessageCallbacks \cup {"abort"}
                 \/ InMail(CommandState[c]) /\ c # "MAIL"
              => InMail(st)
         /\ \A st \in States \ {"UNKN"} :
              /\ TransOK(st, CommandState[c])
              /\ InMail(st)
              => \/ CommandCallback[c] \in MessageCallbacks \cup {"abort"}
         /\ TransOK("HELO", CommandState[c]) =>
              /\ CommandCallback[c] \notin MessageCallbacks \cup {"abort"}
              /\ c # "MAIL" => ~InMail(CommandState[c])
  BY DEF AllCommands, CommandState, CommandCallback, States, InMail, InMailStates,
         MessageCallbacks, TransOK, NextStates

\* Every step keeps OrderInv, for an MTA that sends no SMFIC_UNKNOWN and no
\* SMFIC_MAIL that does not decode.
LEMMA OrderInvStep ==
  ASSUME "UNKNOWN" \notin Commands, "MAIL" \notin Malformed,
         EngineInv, OrderInv, [EngineNext]_engineVars
  PROVE  OrderInv'
<1> USE EngineAssumption
<1>1. ASSUME NEW c \in Commands, Receive(c)
      PROVE  OrderInv'
  <2>1. c \in AllCommands /\ c # "UNKNOWN" /\ (c = "MAIL" => c \notin Malformed)
    OBVIOUS
  <2>2. InMail(state) => tx = "open"
    BY <1>1 DEF Receive, Idle, OrderInv
  <2>3. state \in States \ {"UNKN"}
    BY DEF EngineInv, SymbolsOK, OrderInv
  <2>4. MessageOrder'
    BY <1>1, <2>1, <2>2, <2>3, OrderFacts DEF Receive, Dispatch, MessageOrder, MessageCallbacks
  <2>5. QED
    BY <1>1, <2>1, <2>2, <2>3, <2>4, OrderFacts, DispatchFacts
       DEF Receive, Dispatch, InMail, OrderInv, Callbacks, Judging
<1>2. ASSUME NEW c \in Commands, ReceiveFromHelo(c)
      PROVE  OrderInv'
  <2>1. c \in AllCommands /\ c # "UNKNOWN" /\ (c = "MAIL" => c \notin Malformed)
    OBVIOUS
  <2>2. InMail(state) => tx = "open"
    BY <1>2 DEF ReceiveFromHelo, Idle, OrderInv
  <2>3. MessageOrder'
    BY <1>2, <2>1, <2>2, OrderFacts DEF ReceiveFromHelo, Dispatch, MessageOrder, MessageCallbacks
  <2>4. QED
    BY <1>2, <2>1, <2>3, OrderFacts, DispatchFacts
       DEF ReceiveFromHelo, Dispatch, InMail, OrderInv, Callbacks, Judging
<1>3. ASSUME NEW c \in Commands, Ignore(c)
      PROVE  OrderInv'
  <2>1. InMail(state) => tx = "open"
    BY <1>3 DEF Ignore, Idle, OrderInv
  <2>2. QED
    BY <1>3, <2>1 DEF Ignore, InMail, InMailStates, OrderInv, MessageOrder, MessageCallbacks
<1>4. CASE GiveUp
  <2>1. InMail(state) => tx = "open"
    BY <1>4 DEF GiveUp, EngineInv, PendingMatches, OrderInv
  <2>2. state = "HELO" => ~InMail(state)
    BY DEF InMail, InMailStates
  <2>3. CASE state = "HELO"
    BY <1>4, <2>2, <2>3 DEF GiveUp, InMail, OrderInv, MessageOrder, MessageCallbacks
  <2>4. CASE state # "HELO"
    BY <1>4, <2>1, <2>4 DEF GiveUp, Leave, OrderInv, MessageOrder, MessageCallbacks
  <2>5. QED
    BY <2>3, <2>4
<1>5. CASE AbortReturns
  <2>1. CASE abortFirst
    BY <1>5, <2>1 DEF AbortReturns, EngineInv, PendingMatches, OrderInv, MessageOrder,
                      MessageCallbacks, InMail, InMailStates
  <2>2. CASE ~abortFirst
    BY <1>5, <2>2 DEF AbortReturns, EngineInv, PendingMatches, CallbackStates, Callbacks,
                      OrderInv, MessageOrder, MessageCallbacks, InMail, InMailStates
  <2>3. QED
    BY <2>1, <2>2
<1>6. CASE CloseReturns
  BY <1>6 DEF CloseReturns, EngineInv, PendingMatches, OrderInv, MessageOrder,
              MessageCallbacks, InMail, InMailStates
<1>7. ASSUME NEW r \in Results(call), LastChunkPasses(r)
      PROVE  OrderInv'
  BY <1>7 DEF LastChunkPasses, OrderInv, MessageOrder, MessageCallbacks
<1>8. ASSUME NEW r \in Results(call), Answer(r)
      PROVE  OrderInv'
  <2>1. /\ call \in Judging
        /\ state \in CallbackStates[call]
        /\ call \in MessageCallbacks => tx = "open"
        /\ state # "UNKN"
        /\ ~abortFirst
    BY <1>8 DEF Answer, EngineInv, PendingMatches, Callbacks, OrderInv, MessageOrder
  <2>2. InMail(state) => Announced(call) = "open"
    BY <2>1 DEF InMail, InMailStates, CallbackStates, Judging, MessageCallbacks, Announced
  <2>3. /\ AfterVerdict(state, call, r) # "UNKN"
        /\ InMail(AfterVerdict(state, call, r)) =>
             /\ InMail(state)
             /\ AfterVerdict("ENDM", call, r) = "ENDM"
    BY <2>1 DEF AfterVerdict, InMail, InMailStates
  <2>4. InMail(AfterVerdict(state, call, r)) => Settled(call, r) = "open"
    BY <2>2, <2>3 DEF Settled
  <2>5. CASE call' = "none"
    <3>1. /\ state' = AfterVerdict(state, call, r)
          /\ tx' = Settled(call, r)
          /\ abortFirst' = abortFirst
      BY <1>8, <2>5 DEF Answer, Leave
    <3>2. QED
      BY <2>1, <2>3, <2>4, <2>5, <3>1 DEF OrderInv, MessageOrder, MessageCallbacks, InMail
  <2>6. CASE call' # "none"
    <3>1. Leave(state) /\ (tx' = Announced(call) \/ (r = "ABORT" /\ tx' = tx))
      BY <1>8, <2>6 DEF Answer
    <3>2. r = "ABORT" => call = "negotiate"
      BY DEF Results, AllVerdicts
    <3>3. abortFirst' => tx' = "open"
      BY <2>2, <3>1, <3>2 DEF Leave, Announced
    <3>4. QED
      BY <2>1, <3>1, <3>3 DEF Leave, OrderInv, MessageOrder, MessageCallbacks
  <2>7. QED
    BY <2>5, <2>6
<1>9. CASE Lost
  BY <1>9 DEF Lost, Leave, Idle, InMail, OrderInv, MessageOrder, MessageCallbacks
<1>10. CASE Expired
  BY <1>10 DEF Expired, Idle, OrderInv, MessageOrder, MessageCallbacks
<1>11. CASE UNCHANGED engineVars
  BY <1>11 DEF engineVars, OrderInv, MessageOrder, InMail
<1>12. QED
  BY <1>1, <1>2, <1>3, <1>4, <1>5, <1>6, <1>7, <1>8, <1>9, <1>10, <1>11
     DEF EngineNext, Returns

\* mi_engine invokes the callbacks of a message, xxfi_abort included, only
\* while the message is open, unless the MTA sends SMFIC_UNKNOWN or a
\* SMFIC_MAIL that does not decode.
THEOREM MessageOrderHolds ==
  ASSUME "UNKNOWN" \notin Commands, "MAIL" \notin Malformed
  PROVE  EngineSpec => []MessageOrder
<1>1. EngineInit => EngineInv /\ OrderInv
  BY EngineInvInit DEF EngineInit, OrderInv, MessageOrder, MessageCallbacks, InMail, InMailStates
<1>2. EngineInv /\ OrderInv /\ [EngineNext]_engineVars => (EngineInv /\ OrderInv)'
  BY EngineInvStep, OrderInvStep
<1>3. OrderInv => MessageOrder
  BY DEF OrderInv
<1>4. QED
  BY <1>1, <1>2, <1>3, PTL DEF EngineSpec

-----------------------------------------------------------------------------
(***************************************************************************)
(* No message is forgotten.  Besides OrderInv, the converse is needed: a   *)
(* message is open only inside a mail transaction or while one of its      *)
(* callbacks is pending.                                                   *)
(***************************************************************************)
ClosedInv ==
  /\ tx = "open" => \/ abortFirst
                    \/ call \in MessageCallbacks \cup {"abort"}
                    \/ call \in {"none", "malformed"} /\ InMail(state)
  /\ call = "body" /\ state = "ENDM" => "EOB_CHUNK" \in Commands

\* The statuses after which nothing more is expected of the filter, and
\* CONTINUE.
DecidingVerdicts == {"CONTINUE", "REJECT", "DISCARD", "ACCEPT", "TEMPFAIL"}

\* Only a last chunk that comes with the end of the body has xxfi_body run in
\* ENDM, and every command that leaves a mail transaction legally belongs to
\* the message.
LEMMA ClosedFacts ==
  ASSUME NEW c \in AllCommands, NEW st \in States, c # "UNKNOWN"
  PROVE  /\ CommandCallback[c] = "body" /\ CommandState[c] = "ENDM" => c = "EOB_CHUNK"
         /\ TransOK(st, CommandState[c]) /\ InMail(st) =>
              /\ CommandCallback[c] \in MessageCallbacks \cup {"abort"}
              /\ c \in Decoded => InMail(CommandState[c])
  BY DEF AllCommands, CommandState, CommandCallback, States, InMail, InMailStates,
         MessageCallbacks, TransOK, NextStates, Decoded

\* Every step keeps ClosedInv, for an orderly MTA whose connections are not
\* closed by the pool controller.
LEMMA ClosedInvStep ==
  ASSUME "UNKNOWN" \notin Commands, "MAIL" \notin Malformed, "expired" \notin Failures,
         "EOB_CHUNK" \in Commands =>
           Verdicts \subseteq DecidingVerdicts /\ "unsent" \notin Failures,
         EngineInv, OrderInv, ClosedInv, [EngineNext]_engineVars
  PROVE  ClosedInv'
<1> USE EngineAssumption
<1>1. ASSUME NEW c \in Commands, Receive(c)
      PROVE  ClosedInv'
  <2>1. c \in AllCommands /\ c # "UNKNOWN" /\ (c \in Malformed => c \in Decoded)
    OBVIOUS
  <2>2. tx = "open" => InMail(state)
    BY <1>1 DEF Receive, Idle, ClosedInv, MessageCallbacks
  <2>3. state \in States
    BY DEF EngineInv, SymbolsOK
  <2>4. QED
    BY <1>1, <2>1, <2>2, <2>3, ClosedFacts DEF Receive, Dispatch, InMail, ClosedInv
<1>2. ASSUME NEW c \in Commands, ReceiveFromHelo(c)
      PROVE  ClosedInv'
  <2>1. c \in AllCommands /\ c # "UNKNOWN"
    OBVIOUS
  <2>2. tx = "open" => InMail(state)
    BY <1>2 DEF ReceiveFromHelo, Idle, ClosedInv, MessageCallbacks
  <2>3. QED
    BY <1>2, <2>1, <2>2, DispatchFacts, OrderFacts
       DEF ReceiveFromHelo, Dispatch, ClosedInv, MessageCallbacks
<1>3. ASSUME NEW c \in Commands, Ignore(c)
      PROVE  ClosedInv'
  BY <1>3 DEF Ignore, Idle, ClosedInv, MessageCallbacks
<1>4. CASE GiveUp
  <2>1. tx = "open" => InMail(state)
    BY <1>4 DEF GiveUp, ClosedInv, MessageCallbacks
  <2>2. state = "HELO" => ~InMail(state)
    BY DEF InMail, InMailStates
  <2>3. QED
    BY <1>4, <2>1, <2>2 DEF GiveUp, Leave, ClosedInv, MessageCallbacks
<1>5. CASE AbortReturns
  BY <1>5 DEF AbortReturns, ClosedInv
<1>6. CASE CloseReturns
  <2>1. tx # "open"
    BY <1>6 DEF CloseReturns, ClosedInv, MessageCallbacks
  <2>2. QED
    BY <1>6, <2>1 DEF CloseReturns, ClosedInv
<1>7. ASSUME NEW r \in Results(call), LastChunkPasses(r)
      PROVE  ClosedInv'
  BY <1>7 DEF LastChunkPasses, ClosedInv, MessageCallbacks
<1>8. ASSUME NEW r \in Results(call), Answer(r)
      PROVE  ClosedInv'
  <2>1. /\ call \in Judging
        /\ state \in CallbackStates[call]
        /\ state # "UNKN"
        /\ tx = "open" => call \in MessageCallbacks
        /\ ~abortFirst
    BY <1>8 DEF Answer, EngineInv, PendingMatches, Callbacks, Judging, OrderInv, ClosedInv
  <2>2. r = "ABORT" => call = "negotiate"
    BY DEF Results, AllVerdicts
  <2>3. Announced(call) = "open" => \/ InMail(state)
                                    \/ call = "body" /\ state = "ENDM"
    BY <2>1 DEF InMail, InMailStates, CallbackStates, Judging, MessageCallbacks, Announced
  <2>4. CASE call' = "none"
    <3>1. /\ state' = AfterVerdict(state, call, r)
          /\ tx' = Settled(call, r)
      BY <1>8, <2>4 DEF Answer, Leave
    <3>2. ASSUME tx' = "open" PROVE InMail(state')
      <4>1. Announced(call) = "open" /\ AfterVerdict("ENDM", call, r) # "HELO"
        BY <3>1, <3>2 DEF Settled
      <4>2. state' = state
        BY <3>1, <4>1 DEF AfterVerdict
      <4>3. CASE call = "body" /\ state = "ENDM"
        <5>1. r \in DecidingVerdicts \ {"CONTINUE"}
          BY <1>8, <4>3 DEF ClosedInv, Results, Answer
        <5>2. QED
          BY <4>1, <4>3, <5>1 DEF AfterVerdict, DecidingVerdicts, Ignored
      <4>4. QED
        BY <2>3, <4>1, <4>2, <4>3 DEF InMail
    <3>3. QED
      BY <2>4, <3>2 DEF ClosedInv, InMail
  <2>5. CASE call' # "none"
    <3>1. Leave(state) /\ (tx' = Announced(call) \/ (r = "ABORT" /\ tx' = tx))
      BY <1>8, <2>5 DEF Answer
    <3>2. ~(call = "body" /\ state = "ENDM")
      BY <1>8, <2>2, <2>5 DEF Answer, ClosedInv
    <3>3. QED
      BY <2>1, <2>2, <2>3, <3>1, <3>2 DEF Leave, ClosedInv, MessageCallbacks, Announced
  <2>6. QED
    BY <2>4, <2>5
<1>9. CASE Lost
  BY <1>9 DEF Lost, Leave, Idle, ClosedInv, MessageCallbacks
<1>10. CASE Expired
  BY <1>10 DEF Expired
<1>11. CASE UNCHANGED engineVars
  BY <1>11 DEF engineVars, ClosedInv, InMail
<1>12. QED
  BY <1>1, <1>2, <1>3, <1>4, <1>5, <1>6, <1>7, <1>8, <1>9, <1>10, <1>11
     DEF EngineNext, Returns

\* mi_engine decides, ends or aborts every message before it announces the
\* next one or closes the connection, unless the MTA sends SMFIC_UNKNOWN, a
\* SMFIC_MAIL that does not decode or a last chunk that xxfi_body answers
\* with SKIP or NOREPLY, or the pool controller closes the session.
THEOREM MessageClosedHolds ==
  ASSUME "UNKNOWN" \notin Commands, "MAIL" \notin Malformed, "expired" \notin Failures,
         "EOB_CHUNK" \in Commands =>
           Verdicts \subseteq DecidingVerdicts /\ "unsent" \notin Failures
  PROVE  EngineSpec => []MessageClosed
<1> DEFINE Inv == EngineInv /\ OrderInv /\ ClosedInv
<1>1. EngineInit => Inv
  BY EngineInvInit DEF EngineInit, OrderInv, ClosedInv, MessageOrder, MessageCallbacks,
                       InMail, InMailStates
<1>2. Inv /\ [EngineNext]_engineVars => Inv'
  BY EngineInvStep, OrderInvStep, ClosedInvStep
<1>3. Inv => MessageClosed
  BY DEF ClosedInv, MessageClosed, MessageCallbacks
<1>4. QED
  BY <1>1, <1>2, <1>3, PTL DEF EngineSpec

-----------------------------------------------------------------------------
(***************************************************************************)
(* How a message is forgotten, whatever the MTA sends.  Each step is       *)
(* looked at for a message that is open after it, and that had its end     *)
(* still to come before it or is announced by it.                          *)
(***************************************************************************)

\* What a command does that is legal in a mail transaction: it belongs to the
\* message, and does not announce another one.
LEMMA LegalInMail ==
  ASSUME NEW c \in AllCommands, NEW st \in States, c # "UNKNOWN",
         InMail(st), TransOK(st, CommandState[c])
  PROVE  /\ c \notin {"MAIL", "QUIT"}
         /\ c \in Decoded => InMail(CommandState[c])
         /\ \/ CommandCallback[c] \in {"abort", "eom"}
            \/ CommandCallback[c] = "body" /\ CommandState[c] = "ENDM"
            \/ InMail(CommandState[c]) /\ CommandCallback[c] # "envfrom"
<1>1. c \notin {"MAIL", "QUIT"}
  BY StateRows DEF InMail, InMailStates, TransOK, NextStates
<1>2. c \in Decoded => InMail(CommandState[c])
  BY ClosedFacts
<1>3. \/ c \in {"ABORT", "EOB", "EOB_CHUNK"}
      \/ c \in {"RCPT", "DATA", "HEADER", "EOH", "BODY"}
  BY ClosedFacts, CallbackRows DEF AllCommands, MessageCallbacks
<1>4. QED
  BY <1>1, <1>2, <1>3, StateRows, CallbackRows DEF InMail, InMailStates

\* Every step that is none of the three causes leaves an open message with its end
\* still to come.
LEMMA ForgottenStep ==
  ASSUME EngineInv, [EngineNext]_engineVars, tx' = "open", tx = "open" => EndToCome,
         ~Expired, state' # "UNKN", ~(call = "body" /\ state = "ENDM")
  PROVE  EndToCome'
<1> USE EngineAssumption
<1>t. state \in States
  BY DEF EngineInv, SymbolsOK
<1>i. ASSUME Idle, tx = "open" PROVE InMail(state)
  BY <1>i DEF Idle, EndToCome
<1>1. ASSUME NEW c \in Commands, Receive(c) PROVE EndToCome'
  <2>1. c \in AllCommands /\ (c \in Malformed => c \in Decoded) /\ c # "UNKNOWN"
    BY <1>1, StateRows DEF Receive, Dispatch
  <2>2. InMail(state) /\ TransOK(state, CommandState[c])
    BY <1>1, <1>i DEF Receive
  <2>3. /\ state' = CommandState[c] /\ ending' = (c = "QUIT")
        /\ call' = CommandCallback[c] \/ (call' = "malformed" /\ c \in Malformed)
    BY <1>1 DEF Receive, Dispatch
  <2>4. QED
    BY <1>t, <2>1, <2>2, <2>3, LegalInMail DEF EndToCome, InMail
<1>2. ASSUME NEW c \in Commands, ReceiveFromHelo(c) \/ Ignore(c) PROVE EndToCome'
  BY <1>2, <1>i DEF ReceiveFromHelo, Ignore, EndToCome
<1>3. CASE GiveUp
  <2>1. InMail(state)
    BY <1>3 DEF GiveUp, EndToCome
  <2>2. QED
    BY <1>3, <2>1 DEF GiveUp, Leave, EndToCome, InMail, InMailStates
<1>4. CASE AbortReturns
  BY <1>4 DEF AbortReturns
<1>5. CASE CloseReturns
  BY <1>5 DEF CloseReturns, EndToCome, EngineInv, PendingMatches, InMail, InMailStates
<1>6. ASSUME NEW r \in Results(call), LastChunkPasses(r) PROVE EndToCome'
  BY <1>6 DEF LastChunkPasses
<1>7. ASSUME NEW r \in Results(call), Answer(r) PROVE EndToCome'
  <2>1. call \in Judging /\ ~abortFirst /\ ~ending
    BY <1>7 DEF Answer, EngineInv, PendingMatches, Judging
  <2>2. r = "ABORT" => call = "negotiate"
    BY DEF Results, AllVerdicts
  <2>3. Announced(call) = "open"
    BY <1>7, <2>2 DEF Answer, Settled, Announced
  <2>4. InMail(state)
    <3>1. CASE call = "envfrom"
      BY <3>1, PendingPlace DEF InMail, InMailStates
    <3>2. CASE call # "envfrom"
      <4>1. tx = "open" /\ call # "eom"
        BY <2>3, <3>2 DEF Announced
      <4>2. QED
        BY <2>1, <4>1 DEF EndToCome, Judging
    <3>3. QED
      BY <3>1, <3>2
  <2>5. CASE Leave(state)
    BY <2>4, <2>5 DEF Leave, EndToCome
  <2>6. CASE ~Leave(state)
    <3>1. /\ tx' = Settled(call, r) /\ state' = AfterVerdict(state, call, r)
          /\ call' = "none" /\ ending' = ending
      BY <1>7, <2>6 DEF Answer
    <3>2. state' = state
      BY <2>3, <3>1 DEF Settled, AfterVerdict
    <3>3. QED
      BY <2>1, <2>4, <3>1, <3>2 DEF EndToCome, InMail
  <2>7. QED
    BY <2>5, <2>6
<1>8. CASE Lost
  BY <1>8, <1>i DEF Lost, Leave, EndToCome
<1>9. CASE UNCHANGED engineVars
  BY <1>9 DEF engineVars, EndToCome, InMail
<1>10. QED
  BY <1>1, <1>2, <1>3, <1>4, <1>5, <1>6, <1>7, <1>8, <1>9 DEF EngineNext, Returns

\* An open message is forgotten only when its session is closed for its age, when
\* SMFIC_UNKNOWN comes in between, or by a verdict on the last chunk: whatever the
\* MTA sends and in whatever order, whatever fails and whatever the filter returns.
THEOREM ForgottenOnlyByHolds ==
  EngineSpec => ForgottenOnlyBy
<1> DEFINE Step == tx' = "open" /\ ~EndToCome' =>
                     \/ tx = "open" /\ ~EndToCome
                     \/ Expired
                     \/ state' = "UNKN"
                     \/ call = "body" /\ state = "ENDM"
<1>1. EngineInit => EngineInv
  BY EngineInvInit
<1>2. EngineInv /\ [EngineNext]_engineVars => EngineInv'
  BY EngineInvStep
<1>3. EngineInv /\ [EngineNext]_engineVars => [Step]_engineVars
  BY ForgottenStep
<1>4. QED
  BY <1>1, <1>2, <1>3, PTL DEF EngineSpec, ForgottenOnlyBy

-----------------------------------------------------------------------------
(***************************************************************************)
(* Connections.  Where xxfi_connect can still be invoked, and where the    *)
(* session is over, nothing is connected.                                  *)
(***************************************************************************)
ConnectionInv ==
  /\ call \in {"negotiate", "connect"} => ~connected
  /\ call = "none" /\ (ending \/ state \in {"INIT", "OPTS", "Q_NC"}) => ~connected

\* xxfi_negotiate and xxfi_connect are reached only from the states in which
\* no connection is announced.
LEMMA ConnectionFacts ==
  ASSUME NEW c \in AllCommands, NEW st \in States
  PROVE  /\ TransOK(st, CommandState[c]) /\ CommandCallback[c] \in {"negotiate", "connect"}
              => st \in {"INIT", "OPTS", "Q_NC"}
         /\ CommandCallback[c] # "none"
<1>1. CommandCallback[c] # "none"
  BY CallbackRows DEF AllCommands
<1>2. CommandCallback[c] \in {"negotiate", "connect"} => c \in {"OPTNEG", "CONNECT"}
  BY CallbackRows DEF AllCommands
<1>3. ASSUME "OPTS" \in NextStates[st] \/ "CONN" \in NextStates[st]
      PROVE  st \in {"INIT", "OPTS", "Q_NC"}
  BY <1>3 DEF States, NextStates
<1>4. QED
  BY <1>1, <1>2, <1>3, StateRows DEF TransOK

\* Every step keeps ConnectionInv, whatever the MTA sends.
LEMMA ConnectionInvStep ==
  ASSUME EngineInv, ConnectionInv, [EngineNext]_engineVars
  PROVE  ConnectionInv'
<1> USE EngineAssumption
<1>1. ASSUME NEW c \in Commands, Receive(c)
      PROVE  ConnectionInv'
  <2>1. c \in AllCommands /\ state \in States
    BY DEF EngineInv, SymbolsOK
  <2>2. QED
    BY <1>1, <2>1, ConnectionFacts DEF Receive, Dispatch, Idle, ConnectionInv
<1>2. ASSUME NEW c \in Commands, ReceiveFromHelo(c)
      PROVE  ConnectionInv'
  <2>1. c \in AllCommands
    OBVIOUS
  <2>2. QED
    BY <1>2, <2>1, DispatchFacts DEF ReceiveFromHelo, Dispatch, ConnectionInv
<1>3. ASSUME NEW c \in Commands, Ignore(c)
      PROVE  ConnectionInv'
  BY <1>3 DEF Ignore, ConnectionInv
<1>4. CASE GiveUp
  BY <1>4 DEF GiveUp, Leave, ConnectionInv, EngineInv, PendingMatches
<1>5. CASE AbortReturns
  BY <1>5 DEF AbortReturns, ConnectionInv, EngineInv, PendingMatches, CallbackStates, Callbacks
<1>6. CASE CloseReturns
  BY <1>6 DEF CloseReturns, ConnectionInv
<1>7. ASSUME NEW r \in Results(call), LastChunkPasses(r)
      PROVE  ConnectionInv'
  BY <1>7 DEF LastChunkPasses, ConnectionInv
<1>8. ASSUME NEW r \in Results(call), Answer(r)
      PROVE  ConnectionInv'
  <2>1. call \in Judging /\ state \in CallbackStates[call] /\ ~ending
    BY <1>8 DEF Answer, EngineInv, PendingMatches, Callbacks, Judging
  <2>2. AfterVerdict(state, call, r) \in {"INIT", "OPTS", "Q_NC"} => call = "negotiate"
    BY <2>1 DEF AfterVerdict, CallbackStates, Judging
  <2>3. call = "negotiate" => ~connected'
    BY <1>8 DEF Answer, ConnectionInv
  <2>4. \/ call' = "close"
        \/ call' = "none" /\ ~ending' /\ state' = AfterVerdict(state, call, r)
    BY <1>8, <2>1 DEF Answer, Leave
  <2>5. QED
    BY <2>2, <2>3, <2>4 DEF ConnectionInv
<1>9. CASE Lost
  BY <1>9 DEF Lost, Leave, ConnectionInv
<1>10. CASE Expired
  BY <1>10 DEF Expired, ConnectionInv
<1>11. CASE UNCHANGED engineVars
  BY <1>11 DEF engineVars, ConnectionInv
<1>12. QED
  BY <1>1, <1>2, <1>3, <1>4, <1>5, <1>6, <1>7, <1>8, <1>9, <1>10, <1>11
     DEF EngineNext, Returns

\* Every xxfi_connect is matched by an xxfi_close, whatever the MTA sends and
\* however the session ends.
THEOREM ConnectionBalancedHolds ==
  EngineSpec => []ConnectionBalanced
<1>1. EngineInit => EngineInv /\ ConnectionInv
  BY EngineInvInit DEF EngineInit, ConnectionInv
<1>2. EngineInv /\ ConnectionInv /\ [EngineNext]_engineVars => (EngineInv /\ ConnectionInv)'
  BY EngineInvStep, ConnectionInvStep
<1>3. ConnectionInv => ConnectionBalanced
  BY DEF ConnectionInv, ConnectionBalanced, Ended
<1>4. QED
  BY <1>1, <1>2, <1>3, PTL DEF EngineSpec

-----------------------------------------------------------------------------
(***************************************************************************)
(* The engine implements the contract of mfapi.h.  Under the refinement    *)
(* mapping only the returns of callbacks are steps of the contract, and    *)
(* the invariants above supply the guards of the contract's actions.       *)
(***************************************************************************)

\* A callback that returns a verdict connects, announces, ends or does nothing.
LEMMA AnswerKeepsContract ==
  ASSUME EngineInv, OrderInv, ClosedInv, ConnectionInv,
         NEW r \in Results(call), Answer(r)
  PROVE  [Contract!ContractNext]_(Contract!contractVars)
<1> USE EngineAssumption
<1>1. /\ call \in Judging
      /\ ~abortFirst
      /\ ~ending
      /\ call \in MessageCallbacks => tx = "open"
      /\ tx = "open" => call \in MessageCallbacks
      /\ call = "connect" => ~connected
  BY DEF Answer, EngineInv, PendingMatches, Judging, OrderInv, MessageOrder, ClosedInv,
         ConnectionInv
<1>2. Ended = FALSE /\ Ended' = FALSE
  BY <1>1 DEF Answer, Leave, Ended
<1>3. tx' \in {tx, Announced(call), Settled(call, r)}
  BY DEF Answer
<1>4. CASE call = "envfrom"
  <2>1. r # "ABORT"
    BY <1>4 DEF Results, AllVerdicts
  <2>2. tx' \in {"open", "decided"} /\ connected' = connected
    BY <1>1, <1>4, <2>1 DEF Answer, Announced, Settled, EngineInv, FlagsOK
  <2>3. tx # "open"
    BY <1>1, <1>4 DEF MessageCallbacks
  <2>4. Contract!Announces
    BY <1>2, <2>2, <2>3 DEF Contract!Announces
  <2>5. QED
    BY <2>4 DEF Contract!ContractNext
<1>5. CASE call = "connect"
  <2>1. tx # "open"
    BY <1>1, <1>5 DEF MessageCallbacks
  <2>2. tx' = tx
    BY <1>3, <1>5, <2>1 DEF Announced, Settled
  <2>3. ~connected /\ connected' = TRUE
    BY <1>1, <1>5 DEF Answer
  <2>4. Contract!Connects
    BY <1>2, <2>1, <2>2, <2>3 DEF Contract!Connects
  <2>5. QED
    BY <2>4 DEF Contract!ContractNext
<1>6. CASE call \in MessageCallbacks
  <2>1. tx = "open" /\ connected' = connected
    BY <1>1, <1>6 DEF Answer, MessageCallbacks, EngineInv, FlagsOK
  <2>2. tx' \in {"open", "eom", "decided"}
    BY <1>3, <1>6, <2>1 DEF Announced, Settled
  <2>3. CASE tx' = tx
    BY <1>2, <2>1, <2>3 DEF Contract!contractVars
  <2>4. CASE tx' # tx
    <3>1. Contract!Ends
      BY <1>2, <2>1, <2>2, <2>4 DEF Contract!Ends
    <3>2. QED
      BY <3>1 DEF Contract!ContractNext
  <2>5. QED
    BY <2>3, <2>4
<1>7. CASE call \in {"negotiate", "helo", "unknown"}
  <2>1. tx # "open" /\ connected' = connected
    BY <1>1, <1>7 DEF Answer, MessageCallbacks, EngineInv, FlagsOK
  <2>2. tx' = tx
    BY <1>3, <1>7, <2>1 DEF Announced, Settled
  <2>3. QED
    BY <1>2, <2>1, <2>2 DEF Contract!contractVars
<1>8. QED
  BY <1>1, <1>4, <1>5, <1>6, <1>7 DEF Judging, MessageCallbacks

\* Every step of the engine is a step of the contract or leaves it alone.
LEMMA StepKeepsContract ==
  ASSUME EngineInv, OrderInv, ClosedInv, ConnectionInv, [EngineNext]_engineVars
  PROVE  [Contract!ContractNext]_(Contract!contractVars)
<1> DEFINE Silent == tx' = tx /\ connected' = connected /\ Ended' = Ended
<1>s. Silent => [Contract!ContractNext]_(Contract!contractVars)
  BY DEF Contract!contractVars
<1>1. ASSUME NEW c \in Commands, Receive(c) \/ ReceiveFromHelo(c) \/ Ignore(c)
      PROVE  Silent
  <2>1. ~Ended /\ tx' = tx /\ connected' = connected
    BY <1>1 DEF Receive, ReceiveFromHelo, Ignore, Idle, Ended
  <2>2. c = "QUIT" => CommandCallback[c] # "none"
    BY DEF CommandCallback
  <2>3. ending' => call' # "none"
    BY <1>1, <2>2 DEF Receive, ReceiveFromHelo, Ignore, Dispatch
  <2>4. QED
    BY <2>1, <2>3 DEF Ended
<1>2. CASE GiveUp \/ Lost \/ Expired
  <2>1. ~ending
    BY <1>2 DEF GiveUp, Lost, Expired, Idle, EngineInv, PendingMatches
  <2>2. ending' => call' # "none"
    BY <1>2, <2>1 DEF GiveUp, Lost, Expired, Leave
  <2>3. QED
    BY <1>s, <1>2, <2>1, <2>2 DEF GiveUp, Lost, Expired, Ended
<1>3. CASE AbortReturns
  <2>1. tx = "open"
    BY <1>3 DEF AbortReturns, OrderInv, MessageOrder
  <2>2. Ended = FALSE /\ Ended' = FALSE
    BY <1>3 DEF AbortReturns, Ended, EngineInv, PendingMatches
  <2>3. Contract!Ends
    BY <1>3, <2>1, <2>2 DEF AbortReturns, Contract!Ends
  <2>4. QED
    BY <2>3 DEF Contract!ContractNext
<1>4. CASE CloseReturns
  <2>1. tx # "open" /\ ~Ended
    BY <1>4 DEF CloseReturns, ClosedInv, MessageCallbacks, Ended
  <2>2. Ended' \in BOOLEAN
    BY DEF Ended
  <2>3. Contract!Closes
    BY <1>4, <2>1, <2>2 DEF CloseReturns, Contract!Closes
  <2>4. QED
    BY <2>3 DEF Contract!ContractNext
<1>5. ASSUME NEW r \in Results(call), LastChunkPasses(r)
      PROVE  Silent
  BY <1>5 DEF LastChunkPasses, Ended
<1>6. ASSUME NEW r \in Results(call), Answer(r)
      PROVE  [Contract!ContractNext]_(Contract!contractVars)
  BY <1>6, AnswerKeepsContract
<1>7. CASE UNCHANGED engineVars
  BY <1>s, <1>7 DEF engineVars, Ended
<1>8. QED
  BY <1>s, <1>1, <1>2, <1>3, <1>4, <1>5, <1>6, <1>7 DEF EngineNext, Returns

\* mi_engine keeps the contract of mfapi.h towards the filter: each message has
\* one end and each connection one close, under the conditions of
\* MessageClosedHolds.
THEOREM KeepsContractHolds ==
  ASSUME "UNKNOWN" \notin Commands, "MAIL" \notin Malformed, "expired" \notin Failures,
         "EOB_CHUNK" \in Commands =>
           Verdicts \subseteq DecidingVerdicts /\ "unsent" \notin Failures
  PROVE  EngineSpec => KeepsContract
<1> DEFINE Inv == EngineInv /\ OrderInv /\ ClosedInv /\ ConnectionInv
<1>1. EngineInit => Inv
  BY EngineInvInit DEF EngineInit, OrderInv, ClosedInv, ConnectionInv, MessageOrder,
                       MessageCallbacks, InMail, InMailStates
<1>2. Inv /\ [EngineNext]_engineVars => Inv'
  BY EngineInvStep, OrderInvStep, ClosedInvStep, ConnectionInvStep
<1>3. EngineInit => Contract!ContractInit
  BY DEF EngineInit, Contract!ContractInit, Ended
<1>4. Inv /\ [EngineNext]_engineVars => [Contract!ContractNext]_(Contract!contractVars)
  BY StepKeepsContract
<1>5. QED
  BY <1>1, <1>2, <1>3, <1>4, PTL DEF EngineSpec, KeepsContract, Contract!ContractSpec

=============================================================================
