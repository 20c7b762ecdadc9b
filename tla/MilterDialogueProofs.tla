------------------------ MODULE MilterDialogueProofs ------------------------
(***************************************************************************)
(* Proofs about MilterDialogue, for every offer, every length of the wire  *)
(* and every MTA and filter that meet the assumption PlainDialogue.        *)
(***************************************************************************)
EXTENDS MilterDialogue, MilterEngineProofs

(***************************************************************************)
(* The dialogue implements the engine: an MTA and a wire only choose which *)
(* commands arrive, and when.                                              *)
(***************************************************************************)
SentOK == sent \in Seq(Commands)

\* Every step of the dialogue is a step of the engine, or none.
LEMMA DialogueSteps ==
  ASSUME SentOK, [DialogueNext]_vars
  PROVE  [EngineNext]_engineVars /\ SentOK'
<1> DEFINE Goal == [EngineNext]_engineVars /\ SentOK'
<1>1. CASE MtaSends
  BY <1>1 DEF MtaSends, SentOK
<1>2. CASE MtaReads \/ MtaLeaves
  BY <1>2 DEF MtaReads, MtaLeaves, SentOK
<1>3. CASE Reads
  <2>1. Head(sent) \in Commands /\ SentOK'
    BY <1>3 DEF Reads, SentOK
  <2>2. EngineNext
    BY <1>3, <2>1 DEF Reads, EngineNext
  <2>3. QED
    BY <2>1, <2>2
<1>4. CASE st_optionneg
  BY <1>4 DEF st_optionneg, EngineNext, Results, SentOK
<1>5. CASE CallbackReturns
  BY <1>5 DEF CallbackReturns, EngineNext, Results, SentOK
<1>6. CASE Finishes
  BY <1>6 DEF Finishes, EngineNext, dialogueVars, SentOK
<1>7. CASE Breaks
  BY <1>7 DEF Breaks, EngineNext, dialogueVars, SentOK
<1>8. ASSUME NEW flag \in Modifications, Modify(flag) PROVE Goal
  BY <1>8 DEF Modify, SentOK
<1>9. CASE UNCHANGED vars
  BY <1>9 DEF vars, SentOK
<1>10. QED
  BY <1>1, <1>2, <1>3, <1>4, <1>5, <1>6, <1>7, <1>8, <1>9 DEF DialogueNext

\* The engine at the end of a wire behaves as MilterEngine says: what is proved
\* of the engine holds in every dialogue.
THEOREM DialogueImplementsEngine ==
  DialogueSpec => EngineSpec
<1>1. DialogueInit => EngineInit /\ SentOK
  BY DEF DialogueInit, SentOK
<1>2. SentOK /\ [DialogueNext]_vars => [EngineNext]_engineVars /\ SentOK'
  BY DialogueSteps
<1>3. QED
  BY <1>1, <1>2, PTL DEF DialogueSpec, EngineSpec

-----------------------------------------------------------------------------
(***************************************************************************)
(* The type of the dialogue, in parts: what the MTA and what the engine    *)
(* has on the wire, and the rest.                                          *)
(***************************************************************************)
Packets == [kind : {"reply", "change"}, of : Commands \cup {"none"},
            what : AllVerdicts \cup {"OPTIONS"} \cup AllActs]

WireOK == wire \in Seq(Packets)

PlacesOK ==
  /\ offer \in Offers
  /\ aflags \subseteq AllActs
  /\ hand \in Commands \cup {"none"}
  /\ mta \in States \cup {"gone"}
  /\ wait \in Commands \cup {"none"}

BoundOK == Len(sent) <= MaxSent

\* Everything that is written is a packet.
LEMMA WrittenPackets ==
  ASSUME WireOK, PlacesOK, replies' \in 0..2,
         NEW r \in AllVerdicts \cup {"OPTIONS"}, Write(Replies(r))
  PROVE  WireOK'
<1>1. Reply(hand, r) \in Packets
  BY DEF Reply, Packets, PlacesOK
<1>2. Replies(r) \in Seq(Packets)
  BY <1>1 DEF Replies
<1>3. QED
  BY <1>2 DEF Write, WireOK

\* Every step keeps the types.
LEMMA DialogueTypeStep ==
  ASSUME EngineInv, EngineInv', SentOK, WireOK, PlacesOK, BoundOK, [DialogueNext]_vars
  PROVE  WireOK' /\ PlacesOK' /\ BoundOK'
<1> USE EngineAssumption, DialogueAssumption
<1> DEFINE Goal == WireOK' /\ PlacesOK' /\ BoundOK'
<1>r. replies' \in 0..2
  BY DEF EngineInv, CounterOK
<1>1. CASE MtaSends
  <2>1. PICK c \in Commands \cap MayFollow[mta] :
          /\ sent' = Append(sent, c)
          /\ wait' = IF c \in NoReply THEN "none" ELSE c
          /\ mta' = CASE c = "ABORT" -> "HELO"
                      [] c = "UNKNOWN" -> mta
                      [] OTHER -> CommandState[c]
    BY <1>1 DEF MtaSends
  <2>2. CommandState[c] \in States
    BY DispatchFacts
  <2>3. mta' \in States \cup {"gone"}
    BY <2>1, <2>2 DEF PlacesOK, States
  <2>4. BoundOK'
    BY <1>1, <2>1 DEF MtaSends, SentOK, BoundOK
  <2>5. QED
    BY <1>1, <2>1, <2>3, <2>4 DEF MtaSends, WireOK, PlacesOK
<1>2. CASE MtaReads
  <2>1. WireOK'
    BY <1>2 DEF MtaReads, WireOK
  <2>2. mta' \in {mta, "HELO"} /\ wait' \in {wait, "none"}
    BY <1>2 DEF MtaReads
  <2>3. QED
    BY <1>2, <2>1, <2>2 DEF MtaReads, PlacesOK, BoundOK, States
<1>3. CASE MtaLeaves
  BY <1>3 DEF MtaLeaves, WireOK, PlacesOK, BoundOK
<1>4. CASE Reads
  <2>1. Head(sent) \in Commands /\ BoundOK'
    BY <1>4 DEF Reads, SentOK, BoundOK
  <2>2. QED
    BY <1>4, <2>1 DEF Reads, WireOK, PlacesOK
<1>5. CASE st_optionneg
  <2>1. WireOK'
    BY <1>5, <1>r, WrittenPackets DEF st_optionneg, WireOK
  <2>2. aflags' \subseteq AllActs
    BY <1>5 DEF st_optionneg, PlacesOK, AllActs
  <2>3. QED
    BY <1>5, <2>1, <2>2 DEF st_optionneg, PlacesOK, BoundOK
<1>6. CASE CallbackReturns
  <2>1. WireOK'
    BY <1>6, <1>r, WrittenPackets DEF CallbackReturns
  <2>2. QED
    BY <1>6, <2>1 DEF CallbackReturns, PlacesOK, BoundOK
<1>7. CASE Finishes \/ Breaks
  BY <1>7 DEF Finishes, Breaks, dialogueVars, WireOK, PlacesOK, BoundOK
<1>8. ASSUME NEW flag \in Modifications, Modify(flag) PROVE Goal
  <2>1. Change(flag) \in Packets
    BY DEF Change, Packets, AllActs
  <2>2. WireOK'
    BY <1>8, <2>1 DEF Modify, Write, WireOK
  <2>3. QED
    BY <1>8, <2>2 DEF Modify, PlacesOK, BoundOK
<1>9. CASE UNCHANGED vars
  BY <1>9 DEF vars, WireOK, PlacesOK, BoundOK
<1>10. QED
  BY <1>1, <1>2, <1>3, <1>4, <1>5, <1>6, <1>7, <1>8, <1>9 DEF DialogueNext

\* Before the first command everything is well typed.
LEMMA DialogueTypeInit ==
  DialogueInit => EngineInv /\ SentOK /\ WireOK /\ PlacesOK /\ BoundOK
<1> SUFFICES ASSUME DialogueInit PROVE EngineInv /\ SentOK /\ WireOK /\ PlacesOK /\ BoundOK
  OBVIOUS
<1>1. EngineInv
  BY EngineInvInit DEF DialogueInit
<1>2. SentOK /\ WireOK /\ BoundOK
  BY DialogueAssumption DEF DialogueInit, SentOK, WireOK, BoundOK
<1>3. PlacesOK
  BY DEF DialogueInit, PlacesOK, States
<1>4. QED
  BY <1>1, <1>2, <1>3

\* The state of the dialogue is always well typed: mi_engine and the
\* modifications of smfi.c put nothing on the wire that the MTA does not know.
THEOREM DialogueTypeCorrect ==
  DialogueSpec => []DialogueTypeOK
<1> DEFINE Inv == EngineInv /\ SentOK /\ WireOK /\ PlacesOK /\ BoundOK
<1>1. DialogueInit => Inv
  BY DialogueTypeInit
<1>2. Inv /\ [DialogueNext]_vars => Inv'
  BY DialogueSteps, EngineInvStep, DialogueTypeStep
<1>3. Inv => DialogueTypeOK
  BY DEF EngineInv, SymbolsOK, FlagsOK, CounterOK, EngineTypeOK, SentOK, WireOK, PlacesOK,
         BoundOK, Packets, DialogueTypeOK
<1>4. QED
  BY <1>1, <1>2, <1>3, PTL DEF DialogueSpec

-----------------------------------------------------------------------------
(***************************************************************************)
(* MTA and engine in step.  The invariant says in which of four phases a   *)
(* command is, and that the engine will take the next one.                 *)
(***************************************************************************)

\* Every command has its reply: no second one for a last chunk, none missing
\* for NOREPLY, ALL_OPTS, a HELO that does not decode or a connection that
\* follows QUIT_NC.
PlainDialogue ==
  /\ "EOB_CHUNK" \notin Commands /\ "QUIT_NC" \notin Commands
  /\ "HELO" \notin Malformed
  /\ Verdicts \subseteq Replied

\* What the engine has in hand is the command it read last.
HandInv ==
  /\ call \in Judging => hand \in Commands /\ CommandCallback[hand] = call
  /\ call = "malformed" => hand \in Malformed /\ CommandState[hand] = state
  /\ state # "Q_NC"
  /\ ~(call = "body" /\ state = "ENDM")

\* The engine has a command in hand that it will reply to.
Judged == call \in Judging \cup {"malformed"}

\* The commands mi_engine takes in every state.
FromHelo == {"HELO", "MAIL", "UNKNOWN"}

\* Which callback a command is for, in an MTA's words.
LEMMA HandFacts ==
  ASSUME NEW c \in AllCommands, c # "EOB_CHUNK", c # "QUIT_NC"
  PROVE  /\ CommandState[c] # "Q_NC"
         /\ ~(CommandCallback[c] = "body" /\ CommandState[c] = "ENDM")
         /\ CommandState[c] = "HELO" => c = "HELO"
         /\ CommandCallback[c] = "eom" => c = "EOB"
         /\ CommandCallback[c] \in Ignored <=> c \in {"RCPT", "UNKNOWN"}
         /\ c \notin NoReply => CommandCallback[c] \in Judging
         /\ c \in NoReply => CommandCallback[c] \in {"abort", "close"} /\ c \notin Decoded
         /\ c \in FromHelo => TransOK("HELO", CommandState[c])
BY DEF AllCommands, CommandState, CommandCallback, Judging, NoReply, Decoded, FromHelo,
       Ignored, TransOK, NextStates

\* A callback that returns either has its one reply written and leaves the
\* engine waiting, or the session ends without a reply.
LEMMA AnswerCases ==
  ASSUME PlainDialogue, EngineInv, HandInv, NEW r \in Results(call), Returns(r)
  PROVE  /\ call \in Judging /\ ~ending
         /\ \/ /\ replies' = 1
               /\ state' = AfterVerdict(state, call, r)
               /\ call' = "none" /\ abortFirst' = FALSE /\ ending' = FALSE
               /\ r \in Replied
            \/ /\ replies' = 0
               /\ state' = state
               /\ call' = "close" /\ ending' = TRUE
<1> USE EngineAssumption
<1>1. Answer(r) /\ ~(call = "body" /\ state = "ENDM")
  BY DEF Returns, LastChunkPasses, HandInv
<1>2. call \in Judging /\ ~abortFirst
  BY <1>1 DEF Answer
<1>3. ending = FALSE /\ abortFirst = FALSE
  BY <1>2 DEF EngineInv, PendingMatches, FlagsOK, Judging
<1>4. RepliesFor(r) = IF r \in Replied THEN 1 ELSE 0
  BY <1>1 DEF RepliesFor
<1>5. r # "ABORT" => r \in Replied
  BY DEF PlainDialogue, Results, Replied
<1>6. CASE call' = "none"
  <2>1. r # "ABORT" /\ replies' = RepliesFor(r) /\ state' = AfterVerdict(state, call, r)
        /\ abortFirst' = abortFirst /\ ending' = ending
    BY <1>1, <1>6 DEF Answer, Leave
  <2>2. replies' = 1
    BY <1>4, <1>5, <2>1
  <2>3. QED
    BY <1>2, <1>3, <1>5, <1>6, <2>1, <2>2
<1>7. CASE call' # "none"
  <2>1. Leave(state) /\ replies' = 0
    BY <1>1, <1>4, <1>7 DEF Answer
  <2>2. QED
    BY <1>2, <1>3, <2>1 DEF Leave
<1>8. QED
  BY <1>6, <1>7

\* Every step keeps HandInv.
LEMMA HandInvStep ==
  ASSUME PlainDialogue, EngineInv, SentOK, HandInv, [DialogueNext]_vars
  PROVE  HandInv'
<1> USE EngineAssumption
<1>1. CASE UNCHANGED <<engineVars, hand>>
  BY <1>1 DEF engineVars, HandInv
<1>2. CASE Reads
  <2> DEFINE c == Head(sent)
  <2>1. c \in Commands /\ c \in AllCommands /\ c # "EOB_CHUNK" /\ c # "QUIT_NC" /\ hand' = c
    BY <1>2 DEF Reads, SentOK, PlainDialogue
  <2>2. Receive(c) \/ ReceiveFromHelo(c) \/ Ignore(c)
    BY <1>2 DEF Reads
  <2> HIDE DEF c
  <2>3. CASE Receive(c) \/ ReceiveFromHelo(c)
    <3>1. state' = CommandState[c]
          /\ (call' = CommandCallback[c] \/ (c \in Malformed /\ call' = "malformed"))
      BY <2>3 DEF Receive, ReceiveFromHelo, Dispatch
    <3>2. "malformed" \notin Judging /\ CommandCallback[c] # "malformed"
      BY <2>1, DispatchFacts DEF Judging, Callbacks
    <3>3. QED
      BY <2>1, <3>1, <3>2, HandFacts DEF HandInv
  <2>4. CASE Ignore(c)
    BY <2>4 DEF Ignore, HandInv, Judging
  <2>5. QED
    BY <2>2, <2>3, <2>4
<1>3. ASSUME NEW r \in Results(call), Returns(r), hand' = hand PROVE HandInv'
  <2>1. state' \in {state, "HELO"} /\ call' \in {"none", "close"}
    BY <1>3, AnswerCases DEF AfterVerdict
  <2>2. QED
    BY <2>1 DEF HandInv, Judging
<1>4. CASE st_optionneg
  BY <1>3, <1>4 DEF st_optionneg, Results
<1>5. CASE CallbackReturns
  BY <1>3, <1>5 DEF CallbackReturns, Results
<1>6. CASE Finishes
  <2>1. state' = state /\ call' \in {call, "none", "close"} /\ hand' = hand
    BY <1>6 DEF Finishes, GiveUp, AbortReturns, CloseReturns, Leave, dialogueVars
  <2>2. QED
    BY <2>1 DEF HandInv, Judging
<1>7. CASE Breaks
  <2>1. state' = state /\ call' = "close"
    BY <1>7 DEF Breaks, Lost, Expired, Leave
  <2>2. QED
    BY <2>1 DEF HandInv, Judging
<1>8. QED
  BY <1>1, <1>2, <1>4, <1>5, <1>6, <1>7
     DEF DialogueNext, MtaSends, MtaReads, MtaLeaves, Modify, vars

\* In state st the engine takes whatever an MTA that is at m sends next.
Accepts(st, m) ==
  \A c \in Commands \cap MayFollow[m] :
    c \in FromHelo \cup NoReply \/ TransOK(st, CommandState[c])

\* The engine will take what the MTA sends from m, unless the session is over.
Ready(m) ==
  \/ ending
  \/ MayFollow[m] \subseteq FromHelo \cup NoReply
  \/ sent = <<>> /\ call = "none" /\ ~abortFirst /\ Accepts(state, m)

\* Where an MTA that waits for the reply to c may be.
Places(c) ==
  IF c = "UNKNOWN" THEN {"CONN", "HELO", "ENDM", "MAIL", "RCPT"} ELSE {CommandState[c]}

\* Where the MTA will be once it has read reply p.
MtaAfter(p) ==
  IF \/ p.what \in {"ACCEPT", "DISCARD"}
     \/ p.what \in {"REJECT", "TEMPFAIL"} /\ p.of \notin {"RCPT", "UNKNOWN"}
  THEN "HELO" ELSE mta

Quiet == \A i \in 1..Len(wire) : ~IsReply(wire[i])

\* The four phases: the MTA waits for nothing; its command is on the wire; the
\* engine has it in hand; the reply is on the wire.
AtRest ==
  /\ wait = "none" /\ Quiet /\ ~Judged
  /\ \A i \in 1..Len(sent) : sent[i] \in NoReply
  /\ mta \in DOMAIN MayFollow
  /\ Ready(mta)

Asked ==
  /\ wait \in Commands \ NoReply /\ Quiet /\ ~Judged
  /\ sent # <<>> /\ sent[Len(sent)] = wait
  /\ \A i \in 1..Len(sent) - 1 : sent[i] \in NoReply
  /\ mta \in Places(wait)
  /\ \/ ending
     \/ wait \in FromHelo
     \/ Len(sent) = 1 /\ call = "none" /\ ~abortFirst /\ TransOK(state, CommandState[wait])

InHand ==
  /\ wait \in Commands \ NoReply /\ Quiet
  /\ sent = <<>> /\ hand = wait
  /\ mta \in Places(wait)
  /\ ending \/ (Judged /\ state = CommandState[wait])

AnsweredAt(k) ==
  /\ wait \in Commands \ NoReply /\ ~Judged
  /\ sent = <<>>
  /\ IsReply(wire[k]) /\ wire[k].of = wait
  /\ \A i \in 1..Len(wire) : IsReply(wire[i]) => i = k
  /\ mta \in DOMAIN MayFollow
  /\ Ready(MtaAfter(wire[k]))

Gone == mta = "gone" /\ wait = "none" /\ wire = <<>>

DialogueInv == Gone \/ AtRest \/ Asked \/ InHand \/ \E k \in 1..Len(wire) : AnsweredAt(k)

\* SMTP's order agrees with the table of engine.c.
LEMMA FollowFacts ==
  /\ MayFollow["HELO"] \subseteq FromHelo \cup NoReply
  /\ MayFollow["QUIT"] \subseteq FromHelo \cup NoReply
  /\ "HELO" \in DOMAIN MayFollow /\ "QUIT" \in DOMAIN MayFollow
  /\ "gone" \notin DOMAIN MayFollow
  /\ \A m \in DOMAIN MayFollow : \A c \in MayFollow[m] :
       /\ c \in AllCommands
       /\ c = "UNKNOWN" => m \in Places(c)
BY DEF MayFollow, FromHelo, NoReply, Places, AllCommands

\* What an MTA may send next, row by row.
LEMMA FollowRows ==
  /\ MayFollow["INIT"] = {"OPTNEG"} /\ MayFollow["Q_NC"] = {"CONNECT"}
  /\ MayFollow["QUIT"] = {}
  /\ MayFollow["OPTS"] = {"CONNECT"}
  /\ MayFollow["CONN"] = {"HELO", "MAIL", "UNKNOWN", "QUIT", "QUIT_NC"}
  /\ MayFollow["HELO"] = {"HELO", "MAIL", "UNKNOWN", "QUIT", "QUIT_NC"}
  /\ MayFollow["ENDM"] = {"HELO", "MAIL", "UNKNOWN", "QUIT", "QUIT_NC"}
  /\ MayFollow["MAIL"] = {"RCPT", "UNKNOWN", "ABORT"}
  /\ MayFollow["RCPT"] = {"RCPT", "DATA", "UNKNOWN", "ABORT"}
  /\ MayFollow["DATA"] = {"HEADER", "EOH", "ABORT"}
  /\ MayFollow["HDRS"] = {"HEADER", "EOH", "ABORT"}
  /\ MayFollow["EOHS"] = {"BODY", "EOB", "EOB_CHUNK", "ABORT"}
  /\ MayFollow["BODY"] = {"BODY", "EOB", "EOB_CHUNK", "ABORT"}
BY DEF MayFollow

\* Once the engine is in the state of the MTA's command, it takes the next one.
LEMMA AcceptFacts ==
  ASSUME PlainDialogue, NEW c \in Commands \ NoReply, NEW m \in Places(c)
  PROVE  m \in DOMAIN MayFollow /\ Accepts(CommandState[c], m)
<1>1. c \in AllCommands \ (NoReply \cup {"EOB_CHUNK", "QUIT_NC"})
  BY EngineAssumption DEF PlainDialogue
<1>2. m \in DOMAIN MayFollow
  BY <1>1 DEF Places, MayFollow, CommandState, AllCommands, NoReply
<1>3. ASSUME NEW d \in Commands, d \in MayFollow[m], d \notin FromHelo \cup NoReply
      PROVE  TransOK(CommandState[c], CommandState[d])
  <2> USE StateRows, TransRows DEF FromHelo, NoReply, TransOK
  <2>1. CASE c \in {"OPTNEG", "CONNECT", "HELO"}
    BY <1>3, <2>1, FollowRows DEF Places
  <2>2. CASE c \in {"MAIL", "RCPT"}
    BY <1>3, <2>2, FollowRows DEF Places
  <2>3. CASE c \in {"DATA", "HEADER", "EOH"}
    BY <1>3, <2>3, FollowRows DEF Places
  <2>4. CASE c \in {"BODY", "EOB"}
    <3>1. m = CommandState[c] /\ d \in {"BODY", "EOB", "EOB_CHUNK"} /\ c = "BODY"
      BY <1>3, <2>4, FollowRows DEF Places
    <3>2. QED
      BY <3>1
  <2>5. CASE c = "UNKNOWN"
    <3>1. d \in {"RCPT", "DATA"}
      BY <1>3, <2>5, FollowRows DEF Places
    <3>2. QED
      BY <2>5, <3>1
  <2>6. QED
    BY <1>1, <2>1, <2>2, <2>3, <2>4, <2>5 DEF AllCommands
<1>4. QED
  BY <1>2, <1>3 DEF Accepts

\* A packet is appended to the wire.
LEMMA WrittenOne ==
  ASSUME WireOK, mta # "gone", replies' = 1, NEW r, Write(Replies(r))
  PROVE  wire' = Append(wire, Reply(hand, r))
<1>1. Replies(r) = <<Reply(hand, r)>>
  BY DEF Replies
<1>2. QED
  BY <1>1 DEF Write, WireOK

\* Nothing is appended to it when the session ends without a reply.
LEMMA WrittenNone ==
  ASSUME WireOK, replies' = 0, NEW r, Write(Replies(r))
  PROVE  wire' = wire
<1>1. Replies(r) = <<>>
  BY DEF Replies
<1>2. QED
  BY <1>1 DEF Write, WireOK

\* The MTA sends: its command is on the wire, and the engine will take it.
LEMMA SendsKeepsStep ==
  ASSUME PlainDialogue, SentOK, DialogueInv, MtaSends
  PROVE  DialogueInv'
<1> USE EngineAssumption
<1>1. AtRest
  BY DEF MtaSends, DialogueInv, Asked, InHand, AnsweredAt, Gone, AllCommands
<1>2. PICK c \in Commands \cap MayFollow[mta] :
        /\ sent' = Append(sent, c)
        /\ wait' = IF c \in NoReply THEN "none" ELSE c
        /\ mta' = CASE c = "ABORT" -> "HELO"
                    [] c = "UNKNOWN" -> mta
                    [] OTHER -> CommandState[c]
  BY DEF MtaSends
<1>3. /\ wire' = wire /\ state' = state /\ call' = call /\ abortFirst' = abortFirst
      /\ ending' = ending
  BY DEF MtaSends, engineVars
<1>4. /\ sent \in Seq(Commands) /\ Len(sent') = Len(sent) + 1 /\ sent'[Len(sent')] = c
      /\ \A i \in 1..Len(sent) : sent'[i] = sent[i]
      /\ sent' # <<>>
  BY <1>2 DEF SentOK
<1>5. Quiet' /\ ~Judged'
  BY <1>1, <1>3 DEF AtRest, Quiet, Judged
<1>6. CASE c \in NoReply
  <2>1. mta' \in {"HELO", "QUIT"}
    BY <1>2, <1>6 DEF NoReply, CommandState, PlainDialogue
  <2>2. mta' \in DOMAIN MayFollow /\ MayFollow[mta'] \subseteq FromHelo \cup NoReply
    BY <2>1, FollowFacts
  <2>3. \A i \in 1..Len(sent') : sent'[i] \in NoReply
    BY <1>1, <1>4, <1>6 DEF AtRest
  <2>4. AtRest'
    BY <1>2, <1>5, <1>6, <2>2, <2>3 DEF AtRest, Ready
  <2>5. QED
    BY <2>4 DEF DialogueInv
<1>7. CASE c \notin NoReply
  <2>1. mta' \in Places(c)
    BY <1>1, <1>2, <1>7, FollowFacts DEF AtRest, Places, NoReply
  <2>2. \A i \in 1..Len(sent') - 1 : sent'[i] \in NoReply
    BY <1>1, <1>4 DEF AtRest
  <2>3. \/ ending
        \/ c \in FromHelo
        \/ Len(sent') = 1 /\ call = "none" /\ ~abortFirst /\ TransOK(state, CommandState[c])
    BY <1>1, <1>2, <1>4, <1>7 DEF AtRest, Ready, Accepts
  <2>4. Asked'
    BY <1>2, <1>3, <1>4, <1>5, <1>7, <2>1, <2>2, <2>3 DEF Asked, Places
  <2>5. QED
    BY <2>4 DEF DialogueInv
<1>8. QED
  BY <1>6, <1>7

\* The MTA reads: what is left on the wire stays in order.
LEMMA ReadsKeepsStep ==
  ASSUME WireOK, DialogueInv, MtaReads
  PROVE  DialogueInv'
<1>1. /\ wire \in Seq(Packets) /\ wire # <<>> /\ wire' = Tail(wire)
      /\ Len(wire') = Len(wire) - 1
      /\ \A i \in 1..Len(wire') : wire'[i] = wire[i + 1]
      /\ Head(wire) = wire[1] /\ Len(wire) \in Nat \ {0}
  BY DEF MtaReads, WireOK
<1>2. /\ state' = state /\ call' = call /\ abortFirst' = abortFirst
      /\ ending' = ending /\ sent' = sent /\ hand' = hand
  BY DEF MtaReads, engineVars
<1>3. Quiet => Quiet'
  BY <1>1 DEF Quiet
<1>4. Judged' = Judged
  BY <1>2 DEF Judged
<1>5. CASE IsReply(wire[1])
  <2>1. ~Quiet
    BY <1>1, <1>5 DEF Quiet
  <2>2. mta # "gone"
    BY DEF MtaReads
  <2>3. PICK k \in 1..Len(wire) : AnsweredAt(k)
    BY <2>1, <2>2 DEF DialogueInv, Gone, AtRest, Asked, InHand
  <2>4. k = 1
    BY <1>1, <1>5, <2>3 DEF AnsweredAt
  <2>5. wait' = "none" /\ mta' = MtaAfter(wire[1])
    BY <1>1, <1>5 DEF MtaReads, MtaAfter, IsReply
  <2>6. Quiet'
    BY <1>1, <2>3, <2>4 DEF AnsweredAt, Quiet
  <2>7. mta' \in DOMAIN MayFollow
    BY <2>3, <2>5, FollowFacts DEF AnsweredAt, MtaAfter
  <2>8. Ready(mta')
    BY <2>3, <2>4, <2>5 DEF AnsweredAt
  <2>9. Ready(mta)'
    BY <1>2, <2>8 DEF Ready, Accepts
  <2>10. \A i \in 1..Len(sent') : sent'[i] \in NoReply
    BY <1>2, <2>3 DEF AnsweredAt
  <2>11. AtRest'
    BY <1>4, <2>3, <2>5, <2>6, <2>7, <2>9, <2>10 DEF AtRest, AnsweredAt
  <2>12. QED
    BY <2>11 DEF DialogueInv
<1>6. CASE ~IsReply(wire[1])
  <2>a. wire[1] \in Packets
    BY <1>1
  <2>b. wire[1].kind = "change"
    BY <1>6, <2>a DEF IsReply, Packets
  <2>1. wait' = wait /\ mta' = mta
    BY <1>1, <2>b DEF MtaReads
  <2>2. CASE Gone
    BY <1>1, <2>2 DEF Gone
  <2>3. CASE AtRest
    <3>1. AtRest'
      BY <1>2, <1>3, <1>4, <2>1, <2>3 DEF AtRest, Ready, Accepts
    <3>2. QED
      BY <3>1 DEF DialogueInv
  <2>4. CASE Asked
    <3>1. Asked'
      BY <1>2, <1>3, <1>4, <2>1, <2>4 DEF Asked, Places
    <3>2. QED
      BY <3>1 DEF DialogueInv
  <2>5. CASE InHand
    <3>1. InHand'
      BY <1>2, <1>3, <1>4, <2>1, <2>5 DEF InHand, Places
    <3>2. QED
      BY <3>1 DEF DialogueInv
  <2>6. ASSUME NEW k \in 1..Len(wire), AnsweredAt(k)
        PROVE  DialogueInv'
    <3>1. k # 1
      BY <1>6, <2>6 DEF AnsweredAt
    <3>2. k - 1 \in 1..Len(wire') /\ wire'[k - 1] = wire[k]
      BY <1>1, <3>1
    <3>3. \A i \in 1..Len(wire') : IsReply(wire'[i]) => i = k - 1
      BY <1>1, <2>6 DEF AnsweredAt
    <3>4. AnsweredAt(k - 1)'
      BY <1>2, <1>4, <2>1, <2>6, <3>2, <3>3 DEF AnsweredAt, MtaAfter, Ready, Accepts
    <3>5. QED
      BY <3>2, <3>4 DEF DialogueInv
  <2>7. QED
    BY <2>2, <2>3, <2>4, <2>5, <2>6 DEF DialogueInv
<1>7. QED
  BY <1>5, <1>6

\* The engine reads a command: one that has no reply, or the one the MTA waits
\* for, which it takes.
LEMMA TakesKeepsStep ==
  ASSUME PlainDialogue, SentOK, DialogueInv, Reads
  PROVE  DialogueInv'
<1> USE EngineAssumption
<1> DEFINE c == Head(sent)
<1>1. /\ sent \in Seq(Commands) /\ sent # <<>> /\ sent' = Tail(sent)
      /\ c = sent[1] /\ Len(sent) \in Nat \ {0}
      /\ Len(sent') = Len(sent) - 1
      /\ \A i \in 1..Len(sent') : sent'[i] = sent[i + 1]
  BY DEF Reads, SentOK
<1>2. hand' = c /\ wire' = wire /\ mta' = mta /\ wait' = wait
  BY DEF Reads
<1>3. c \in Commands /\ c \in AllCommands /\ c # "EOB_CHUNK" /\ c # "QUIT_NC"
  BY <1>1 DEF PlainDialogue
<1>4. Receive(c) \/ ReceiveFromHelo(c) \/ Ignore(c)
  BY DEF Reads
<1> HIDE DEF c
<1>5. call = "none" /\ ~abortFirst /\ ~ending
  BY <1>4 DEF Receive, ReceiveFromHelo, Ignore, Idle
<1>6. Quiet => Quiet'
  BY <1>2 DEF Quiet
<1>7. c \in NoReply => ~Judged'
  <2>1. c \in NoReply => c \notin Malformed /\ CommandCallback[c] \in {"abort", "close"}
    BY <1>3, HandFacts
  <2>2. QED
    BY <1>4, <2>1 DEF Receive, ReceiveFromHelo, Ignore, Dispatch, Judged, Judging
<1>8. CASE Gone
  BY <1>2, <1>8 DEF Gone, DialogueInv
<1>9. CASE AtRest
  <2>1. c \in NoReply
    BY <1>1, <1>9 DEF AtRest
  <2>2. MayFollow[mta] \subseteq FromHelo \cup NoReply
    BY <1>1, <1>5, <1>9 DEF AtRest, Ready
  <2>3. \A i \in 1..Len(sent') : sent'[i] \in NoReply
    BY <1>1, <1>9 DEF AtRest
  <2>4. AtRest'
    BY <1>2, <1>6, <1>7, <1>9, <2>1, <2>2, <2>3 DEF AtRest, Ready
  <2>5. QED
    BY <2>4 DEF DialogueInv
<1>10. CASE Asked
  <2>1. CASE Len(sent) # 1
    <3>1. c \in NoReply /\ wait \in FromHelo
      BY <1>1, <1>5, <1>10, <2>1 DEF Asked
    <3>2. sent' # <<>> /\ sent'[Len(sent')] = wait
      <4>1. Len(sent') \in 1..Len(sent') /\ Len(sent') + 1 = Len(sent)
        BY <1>1, <2>1
      <4>2. sent'[Len(sent')] = sent[Len(sent)]
        BY <1>1, <4>1
      <4>3. sent' # <<>>
        BY <4>1
      <4>4. QED
        BY <1>10, <4>2, <4>3 DEF Asked
    <3>3. \A i \in 1..Len(sent') - 1 : sent'[i] \in NoReply
      BY <1>1, <1>10 DEF Asked
    <3>4. Asked'
      BY <1>2, <1>6, <1>7, <1>10, <3>1, <3>2, <3>3 DEF Asked, Places
    <3>5. QED
      BY <3>4 DEF DialogueInv
  <2>2. CASE Len(sent) = 1
    <3>1. c = wait /\ c \notin NoReply /\ sent' = <<>>
      BY <1>1, <1>10, <2>2 DEF Asked
    <3>2. ~Ignore(c)
      BY <1>3, <1>5, <1>10, <3>1, HandFacts DEF Asked, Ignore
    <3>3. /\ state' = CommandState[c]
          /\ call' = CommandCallback[c] \/ call' = "malformed"
      BY <1>4, <3>2 DEF Receive, ReceiveFromHelo, Dispatch
    <3>4. Judged'
      BY <1>3, <3>1, <3>3, HandFacts DEF Judged
    <3>5. InHand'
      BY <1>2, <1>6, <1>10, <3>1, <3>3, <3>4 DEF Asked, InHand, Places
    <3>6. QED
      BY <3>5 DEF DialogueInv
  <2>3. QED
    BY <2>1, <2>2
<1>11. ~InHand /\ \A k \in 1..Len(wire) : ~AnsweredAt(k)
  BY <1>1 DEF InHand, AnsweredAt
<1>12. QED
  BY <1>8, <1>9, <1>10, <1>11 DEF DialogueInv

\* The callback of the MTA's command returns: its reply is the one on the wire,
\* or the session ends.
LEMMA ReplyKeepsStep ==
  ASSUME PlainDialogue, EngineInv, HandInv, WireOK, DialogueInv,
         NEW r \in Results(call), Returns(r),
         Write(Replies(r)) \/ (r = "ABORT" /\ wire' = wire),
         sent' = sent, hand' = hand, mta' = mta, wait' = wait
  PROVE  DialogueInv'
<1> USE EngineAssumption
<1>1. call \in Judging /\ ~ending /\ Judged
  BY AnswerCases DEF Judged
<1>2. CASE mta = "gone"
  <2>1. Gone
    BY <1>2, FollowFacts, AcceptFacts DEF DialogueInv, AtRest, Asked, InHand, AnsweredAt
  <2>2. wire' = wire
    BY <1>2 DEF Write
  <2>3. QED
    BY <2>1, <2>2 DEF Gone, DialogueInv
<1>3. CASE mta # "gone"
  <2>1. InHand
    BY <1>1, <1>3 DEF DialogueInv, Gone, AtRest, Asked, AnsweredAt
  <2>2. state = CommandState[wait] /\ hand = wait /\ sent = <<>>
    BY <1>1, <2>1 DEF InHand
  <2>3. CASE call' = "none"
    <3>1. /\ replies' = 1 /\ state' = AfterVerdict(state, call, r)
          /\ abortFirst' = FALSE /\ ending' = FALSE /\ r \in Replied
      BY <2>3, AnswerCases
    <3>2. wire' = Append(wire, Reply(wait, r))
      BY <1>3, <2>2, <3>1, WrittenOne DEF Replied
    <3>a. PICK k \in Nat : k = Len(wire) + 1
      BY DEF WireOK
    <3>3. /\ k \in 1..Len(wire') /\ wire'[k] = Reply(wait, r)
          /\ \A i \in 1..Len(wire') : i = k \/ (i \in 1..Len(wire) /\ wire'[i] = wire[i])
      BY <3>2, <3>a DEF WireOK
    <3>4. IsReply(wire'[k]) /\ wire'[k].of = wait
      BY <3>3 DEF IsReply, Reply
    <3>5. \A i \in 1..Len(wire') : IsReply(wire'[i]) => i = k
      BY <2>1, <3>3 DEF InHand, Quiet
    <3>6. mta \in DOMAIN MayFollow /\ Accepts(CommandState[wait], mta)
      BY <2>1, AcceptFacts DEF InHand
    <3>7. MtaAfter(Reply(wait, r)) \in {"HELO", mta}
      BY DEF MtaAfter
    <3>8. MtaAfter(Reply(wait, r)) # "HELO" => state' = state
      <4>1. call \in Ignored <=> wait \in {"RCPT", "UNKNOWN"}
        BY <1>1, <2>2, HandFacts DEF PlainDialogue, HandInv
      <4>2. QED
        BY <3>1, <4>1 DEF MtaAfter, Reply, AfterVerdict
    <3>9. \/ MtaAfter(Reply(wait, r)) = "HELO"
          \/ /\ MtaAfter(Reply(wait, r)) = mta
             /\ Accepts(state', mta)
      BY <2>2, <3>6, <3>7, <3>8
    <3>10. MtaAfter(wire[k])' = MtaAfter(Reply(wait, r))
      BY <3>3 DEF MtaAfter
    <3>11. Ready(MtaAfter(wire[k]))'
      BY <2>2, <2>3, <3>1, <3>9, <3>10, FollowFacts DEF Ready, Accepts
    <3>12. ~Judged'
      BY <2>3 DEF Judged, Judging
    <3>13. AnsweredAt(k)'
      BY <2>1, <2>2, <3>4, <3>5, <3>6, <3>11, <3>12 DEF AnsweredAt, InHand
    <3>14. QED
      BY <3>3, <3>13 DEF DialogueInv
  <2>4. CASE call' # "none"
    <3>1. replies' = 0 /\ ending' = TRUE
      BY <2>4, AnswerCases
    <3>2. wire' = wire
      BY <3>1, WrittenNone
    <3>3. InHand'
      BY <2>1, <3>1, <3>2 DEF InHand, Quiet, Places
    <3>4. QED
      BY <3>3 DEF DialogueInv
  <2>5. QED
    BY <2>3, <2>4
<1>4. QED
  BY <1>2, <1>3

\* The other steps of the engine change neither what is on the wire nor who
\* waits: an abort, a close, arguments that do not decode, a lost connection.
LEMMA SilentKeepsStep ==
  ASSUME PlainDialogue, EngineInv, HandInv, DialogueInv, Finishes \/ Breaks
  PROVE  DialogueInv'
<1> USE EngineAssumption
<1>1. wire' = wire /\ mta' = mta /\ wait' = wait /\ sent' = sent /\ hand' = hand
  BY DEF Finishes, Breaks, dialogueVars
<1>2. ending => ending'
  BY DEF Finishes, Breaks, GiveUp, AbortReturns, CloseReturns, Lost, Expired, Leave
<1>3. ~(call = "none" /\ ~abortFirst) \/ (ending' /\ sent = <<>>)
  BY DEF Finishes, Breaks, GiveUp, AbortReturns, CloseReturns, Lost, Expired, Leave
<1>4. ~Judged => ~Judged'
  BY DEF Finishes, Breaks, GiveUp, AbortReturns, CloseReturns, Lost, Expired, Leave, Judged,
         Judging
<1>5. Judged => ending' \/ (Judged' /\ state' = state)
  <2>1. CASE GiveUp
    <3>1. hand \in Malformed /\ CommandState[hand] = state
      BY <2>1 DEF GiveUp, HandInv
    <3>2. hand \in AllCommands /\ hand \notin {"EOB_CHUNK", "QUIT_NC", "HELO"}
      BY <3>1 DEF PlainDialogue
    <3>3. state # "HELO"
      BY <3>1, <3>2, HandFacts
    <3>4. QED
      BY <2>1, <3>3 DEF GiveUp, Leave
  <2>2. CASE AbortReturns
    BY <2>2 DEF AbortReturns, Judged, Judging
  <2>3. CASE CloseReturns
    BY <2>3 DEF CloseReturns, Judged, Judging
  <2>4. CASE Breaks
    BY <2>4 DEF Breaks, Lost, Expired, Leave
  <2>5. QED
    BY <2>1, <2>2, <2>3, <2>4 DEF Finishes
<1>6. Quiet => Quiet'
  BY <1>1 DEF Quiet
<1>7. ASSUME NEW m, Ready(m) PROVE Ready(m)'
  BY <1>2, <1>3, <1>7 DEF Ready
<1>8. CASE Gone
  BY <1>1, <1>8 DEF Gone, DialogueInv
<1>9. CASE AtRest
  <2>1. Ready(mta)'
    BY <1>1, <1>2, <1>3, <1>9 DEF AtRest, Ready
  <2>2. AtRest'
    BY <1>1, <1>4, <1>6, <1>9, <2>1 DEF AtRest
  <2>3. QED
    BY <2>2 DEF DialogueInv
<1>10. CASE Asked
  <2>1. Asked'
    BY <1>1, <1>2, <1>3, <1>4, <1>6, <1>10 DEF Asked, Places
  <2>2. QED
    BY <2>1 DEF DialogueInv
<1>11. CASE InHand
  <2>1. InHand'
    BY <1>1, <1>2, <1>5, <1>6, <1>11 DEF InHand, Places
  <2>2. QED
    BY <2>1 DEF DialogueInv
<1>12. ASSUME NEW k \in 1..Len(wire), AnsweredAt(k) PROVE DialogueInv'
  <2>1. Ready(MtaAfter(wire[k]))'
    BY <1>1, <1>2, <1>3, <1>12 DEF AnsweredAt, Ready, MtaAfter
  <2>2. AnsweredAt(k)'
    BY <1>1, <1>4, <1>12, <2>1 DEF AnsweredAt
  <2>3. QED
    BY <1>1, <2>2 DEF DialogueInv
<1>13. QED
  BY <1>8, <1>9, <1>10, <1>11, <1>12 DEF DialogueInv

\* A modification adds a packet that is not a reply.
LEMMA ChangeKeepsStep ==
  ASSUME WireOK, DialogueInv, NEW flag \in Modifications, Modify(flag)
  PROVE  DialogueInv'
<1>1. wire' = Append(wire, Change(flag)) /\ mta # "gone"
  BY DEF Modify, Write, WireOK
<1>2. /\ Len(wire') = Len(wire) + 1 /\ Len(wire) \in Nat
      /\ \A i \in 1..Len(wire') :
           (i \in 1..Len(wire) /\ wire'[i] = wire[i]) \/ ~IsReply(wire'[i])
      /\ \A i \in 1..Len(wire) : wire'[i] = wire[i]
  BY <1>1 DEF WireOK, IsReply, Change
<1>3. /\ state' = state /\ call' = call /\ abortFirst' = abortFirst /\ ending' = ending
      /\ sent' = sent /\ hand' = hand /\ mta' = mta /\ wait' = wait
  BY DEF Modify, engineVars
<1>4. Judged' = Judged
  BY <1>3 DEF Judged
<1>5. Quiet => Quiet'
  BY <1>2 DEF Quiet
<1>6. CASE AtRest
  <2>1. AtRest'
    BY <1>3, <1>4, <1>5, <1>6 DEF AtRest, Ready, Accepts
  <2>2. QED
    BY <2>1 DEF DialogueInv
<1>7. CASE Asked
  <2>1. Asked'
    BY <1>3, <1>4, <1>5, <1>7 DEF Asked, Places
  <2>2. QED
    BY <2>1 DEF DialogueInv
<1>8. CASE InHand
  <2>1. InHand'
    BY <1>3, <1>4, <1>5, <1>8 DEF InHand, Places
  <2>2. QED
    BY <2>1 DEF DialogueInv
<1>9. ASSUME NEW k \in 1..Len(wire), AnsweredAt(k) PROVE DialogueInv'
  <2>1. k \in 1..Len(wire') /\ wire'[k] = wire[k]
    BY <1>2
  <2>2. \A i \in 1..Len(wire') : IsReply(wire'[i]) => i = k
    BY <1>2, <1>9 DEF AnsweredAt
  <2>3. AnsweredAt(k)'
    BY <1>3, <1>4, <1>9, <2>1, <2>2 DEF AnsweredAt, MtaAfter, Ready, Accepts
  <2>4. QED
    BY <2>1, <2>3 DEF DialogueInv
<1>10. QED
  BY <1>1, <1>6, <1>7, <1>8, <1>9 DEF DialogueInv, Gone

\* Every step keeps DialogueInv.
LEMMA DialogueInvStep ==
  ASSUME PlainDialogue, EngineInv, HandInv, SentOK, WireOK, DialogueInv, [DialogueNext]_vars
  PROVE  DialogueInv'
<1>1. CASE MtaSends
  BY <1>1, SendsKeepsStep
<1>2. CASE MtaReads
  BY <1>2, ReadsKeepsStep
<1>3. CASE MtaLeaves
  BY <1>3 DEF MtaLeaves, DialogueInv, Gone
<1>4. CASE Reads
  BY <1>4, TakesKeepsStep
<1>5. CASE st_optionneg
  <2>1. call = "negotiate" /\ sent' = sent /\ hand' = hand /\ mta' = mta /\ wait' = wait
    BY <1>5 DEF st_optionneg
  <2>2. \/ Returns("ABORT") /\ wire' = wire
        \/ Returns("OPTIONS") /\ Write(Replies("OPTIONS"))
    BY <1>5 DEF st_optionneg
  <2>3. "ABORT" \in Results(call) /\ "OPTIONS" \in Results(call)
    BY <2>1 DEF Results
  <2>4. QED
    BY <2>1, <2>2, <2>3, ReplyKeepsStep
<1>6. CASE CallbackReturns
  <2>1. PICK r \in Verdicts : Returns(r) /\ Write(Replies(r))
    BY <1>6 DEF CallbackReturns
  <2>2. r \in Results(call) /\ sent' = sent /\ hand' = hand /\ mta' = mta /\ wait' = wait
    BY <1>6 DEF CallbackReturns, Results
  <2>3. QED
    BY <2>1, <2>2, ReplyKeepsStep
<1>7. CASE Finishes \/ Breaks
  BY <1>7, SilentKeepsStep
<1>8. ASSUME NEW flag \in Modifications, Modify(flag) PROVE DialogueInv'
  BY <1>8, ChangeKeepsStep
<1>9. CASE UNCHANGED vars
  <2>1. /\ state' = state /\ call' = call /\ abortFirst' = abortFirst /\ ending' = ending
        /\ sent' = sent /\ hand' = hand /\ mta' = mta /\ wait' = wait /\ wire' = wire
    BY <1>9 DEF vars, engineVars
  <2>2. (Quiet <=> Quiet') /\ (Judged <=> Judged')
    BY <2>1 DEF Quiet, Judged
  <2>3. CASE Gone
    BY <2>1, <2>3 DEF Gone, DialogueInv
  <2>4. CASE AtRest
    <3>1. AtRest'
      BY <2>1, <2>2, <2>4 DEF AtRest, Ready, Accepts
    <3>2. QED
      BY <3>1 DEF DialogueInv
  <2>5. CASE Asked
    <3>1. Asked'
      BY <2>1, <2>2, <2>5 DEF Asked, Places
    <3>2. QED
      BY <3>1 DEF DialogueInv
  <2>6. CASE InHand
    <3>1. InHand'
      BY <2>1, <2>2, <2>6 DEF InHand, Places
    <3>2. QED
      BY <3>1 DEF DialogueInv
  <2>7. ASSUME NEW k \in 1..Len(wire), AnsweredAt(k) PROVE DialogueInv'
    <3>1. AnsweredAt(k)'
      BY <2>1, <2>2, <2>7 DEF AnsweredAt, MtaAfter, Ready, Accepts
    <3>2. QED
      BY <2>1, <3>1 DEF DialogueInv
  <2>8. QED
    BY <2>3, <2>4, <2>5, <2>6, <2>7 DEF DialogueInv
<1>10. QED
  BY <1>1, <1>2, <1>3, <1>4, <1>5, <1>6, <1>7, <1>8, <1>9 DEF DialogueNext

\* The invariants of the dialogue that the three theorems below rest on.
DialogueIInv ==
  EngineInv /\ SentOK /\ WireOK /\ PlacesOK /\ BoundOK /\ HandInv /\ DialogueInv

\* They hold before the first command.
LEMMA DialogueIInvInit ==
  DialogueInit => DialogueIInv
<1> SUFFICES ASSUME DialogueInit PROVE DialogueIInv
  OBVIOUS
<1>1. EngineInv /\ SentOK /\ WireOK /\ PlacesOK /\ BoundOK
  BY DialogueTypeInit
<1>2. state = "INIT" /\ call = "none" /\ abortFirst = FALSE /\ sent = <<>> /\ wire = <<>>
      /\ mta = "INIT" /\ wait = "none"
  BY DEF DialogueInit, EngineInit
<1>3. HandInv
  BY <1>2 DEF HandInv, Judging
<1>4. Accepts("INIT", "INIT") /\ "INIT" \in DOMAIN MayFollow
  <2>1. MayFollow["INIT"] = {"OPTNEG"} /\ "INIT" \in DOMAIN MayFollow
    BY DEF MayFollow
  <2>2. CommandState["OPTNEG"] = "OPTS"
    BY DEF CommandState
  <2>3. NextStates["INIT"] = {"OPTS"}
    BY DEF NextStates
  <2>4. QED
    BY <2>1, <2>2, <2>3 DEF Accepts, TransOK
<1>5. AtRest
  BY <1>2, <1>4 DEF AtRest, Quiet, Judged, Judging, Ready
<1>6. QED
  BY <1>1, <1>3, <1>5 DEF DialogueIInv, DialogueInv

\* Every step keeps them.
LEMMA DialogueIInvStep ==
  ASSUME PlainDialogue, DialogueIInv, [DialogueNext]_vars
  PROVE  DialogueIInv'
<1>1. [EngineNext]_engineVars /\ SentOK'
  BY DialogueSteps DEF DialogueIInv
<1>2. EngineInv'
  BY <1>1, EngineInvStep DEF DialogueIInv
<1>3. WireOK' /\ PlacesOK' /\ BoundOK'
  BY <1>2, DialogueTypeStep DEF DialogueIInv
<1>4. HandInv' /\ DialogueInv'
  BY HandInvStep, DialogueInvStep DEF DialogueIInv
<1>5. QED
  BY <1>1, <1>2, <1>3, <1>4 DEF DialogueIInv

\* A reply on the wire is the only one and answers the command the MTA waits
\* for: sendreply and the commands mi_engine does not reply to agree with an MTA
\* that waits for one reply to each of the others.
THEOREM InStepHolds ==
  ASSUME PlainDialogue
  PROVE  DialogueSpec => []InStep
<1>1. DialogueIInv => InStep
  <2> SUFFICES ASSUME DialogueIInv, NEW i \in 1..Len(wire), IsReply(wire[i])
               PROVE  wait = wire[i].of /\ \A j \in 1..Len(wire) : IsReply(wire[j]) => i = j
    BY DEF InStep
  <2>1. PICK k \in 1..Len(wire) : AnsweredAt(k)
    BY DEF DialogueIInv, DialogueInv, Gone, AtRest, Asked, InHand, Quiet
  <2>2. QED
    BY <2>1 DEF AnsweredAt
<1>2. QED
  BY <1>1, DialogueIInvInit, DialogueIInvStep, PTL DEF DialogueSpec

\* MTA and engine never wait for each other, whatever statuses with a reply the
\* callbacks return and whenever a message is rejected, aborted or repeated.
THEOREM NoMutualWaitHolds ==
  ASSUME PlainDialogue
  PROVE  DialogueSpec => []NoMutualWait
<1>1. DialogueIInv => NoMutualWait
  <2> SUFFICES ASSUME DialogueIInv, Idle, sent = <<>>, wire = <<>> PROVE wait = "none"
    BY DEF NoMutualWait
  <2>1. ~Asked /\ ~InHand
    BY DEF Asked, InHand, Idle, Judged, Judging
  <2>2. \A k \in 1..Len(wire) : FALSE
    OBVIOUS
  <2>3. QED
    BY <2>1, <2>2 DEF DialogueIInv, DialogueInv, Gone, AtRest
<1>2. QED
  BY <1>1, DialogueIInvInit, DialogueIInvStep, PTL DEF DialogueSpec

-----------------------------------------------------------------------------
(***************************************************************************)
(* Modifications.  While one is on the wire and the session goes on, the   *)
(* MTA waits for the end of the message and has sent nothing more.         *)
(***************************************************************************)
Granted == IF offer.acts = {} THEN V1_ACTS ELSE offer.acts

ChangesInv ==
  /\ aflags \subseteq Granted
  /\ \A i \in 1..Len(wire) : ~IsReply(wire[i]) =>
       /\ wire[i].what \in Granted
       /\ \/ ending
          \/ wait = "EOB" /\ sent = <<>> /\ \A j \in 1..i : ~IsReply(wire[j])

\* A script that may modify the message runs in xxfi_eom, or in the xxfi_close of
\* a session that has ended.
LEMMA ModifiesAtEom ==
  ASSUME PlainDialogue, DialogueIInv, ~ending, NEW flag \in Modifications, Modify(flag)
  PROVE  wait = "EOB" /\ sent = <<>> /\ Quiet
<1> USE EngineAssumption
<1>1. state = "ENDM" /\ (abortFirst \/ call \in Callbacks) /\ mta # "gone"
  BY DEF Modify, mi_sendok
<1>2. PendingMatches /\ HandInv
  BY DEF DialogueIInv, EngineInv
<1>3. ~abortFirst
  <2>1. call # "unknown"
    BY <1>1, PendingPlace DEF DialogueIInv, Callbacks, Judging
  <2>2. QED
    BY <1>1, <1>2, <2>1 DEF PendingMatches
<1>4. call = "eom"
  <2>1. call \in {"body", "eom", "close"}
    BY <1>1, <1>3, PendingPlace DEF DialogueIInv
  <2>2. QED
    BY <1>1, <1>2, <2>1 DEF PendingMatches, HandInv
<1>5. hand \in Commands /\ CommandCallback[hand] = "eom" /\ Judged
  BY <1>2, <1>4 DEF HandInv, Judged, Judging
<1>6. hand = "EOB"
  BY <1>5, HandFacts DEF PlainDialogue
<1>7. InHand
  BY <1>1, <1>5 DEF DialogueIInv, DialogueInv, Gone, AtRest, Asked, AnsweredAt
<1>8. QED
  BY <1>6, <1>7 DEF InHand

\* Steps that leave the wire alone, or add a reply to it.
LEMMA RepliedKeepsChanges ==
  ASSUME ChangesInv, NEW w, WireOK, wire' = wire \/ (wire' = Append(wire, w) /\ IsReply(w)),
         offer' = offer, aflags' \subseteq Granted, wait' = wait, sent' = sent,
         ending => ending'
  PROVE  ChangesInv'
<1>1. Granted' = Granted
  BY DEF Granted
<1>2. Len(wire) \in Nat /\ \A i \in 1..Len(wire) : wire'[i] = wire[i]
  BY DEF WireOK
<1>3. ASSUME NEW i \in 1..Len(wire'), ~IsReply(wire'[i]) PROVE i \in 1..Len(wire)
  BY <1>3 DEF WireOK
<1>4. ASSUME NEW i \in 1..Len(wire'), ~IsReply(wire'[i])
      PROVE  /\ wire'[i].what \in Granted
             /\ \/ ending'
                \/ wait' = "EOB" /\ sent' = <<>> /\ \A j \in 1..i : ~IsReply(wire'[j])
  <2>1. i \in 1..Len(wire) /\ wire'[i] = wire[i]
    BY <1>2, <1>3, <1>4
  <2>2. \A j \in 1..i : wire'[j] = wire[j]
    BY <1>2, <2>1
  <2>3. QED
    BY <1>4, <2>1, <2>2 DEF ChangesInv
<1>5. QED
  BY <1>1, <1>4 DEF ChangesInv

\* Every step keeps ChangesInv.
LEMMA ChangesInvStep ==
  ASSUME PlainDialogue, DialogueIInv, ChangesInv, [DialogueNext]_vars
  PROVE  ChangesInv'
<1> USE EngineAssumption
<1>w. WireOK /\ Len(wire) \in Nat
  BY DEF DialogueIInv, WireOK
<1>1. CASE MtaSends \/ MtaLeaves
  <2>1. wire' = <<>> /\ Len(wire') = 0 /\ aflags' = aflags /\ offer' = offer
    BY <1>1 DEF MtaSends, MtaLeaves
  <2>2. \A i \in 1..Len(wire') : FALSE
    BY <2>1
  <2>3. QED
    BY <2>1, <2>2 DEF ChangesInv, Granted
<1>2. CASE MtaReads
  <2>1. /\ wire # <<>> /\ Len(wire') = Len(wire) - 1
        /\ \A i \in 1..Len(wire') : wire'[i] = wire[i + 1]
        /\ Head(wire) = wire[1] /\ 1 \in 1..Len(wire)
    BY <1>2, <1>w DEF MtaReads, WireOK
  <2>2. /\ offer' = offer /\ aflags' = aflags /\ sent' = sent /\ ending' = ending
        /\ wait' = wait \/ IsReply(wire[1])
    <3>1. wire[1].kind \in {"reply", "change"}
      <4>1. wire[1] \in Packets
        BY <1>w, <2>1 DEF WireOK
      <4>2. QED
        BY <4>1 DEF Packets
    <3>2. wire[1].kind = "change" => wait' = wait
      BY <1>2, <2>1 DEF MtaReads
    <3>3. QED
      BY <1>2, <3>1, <3>2 DEF MtaReads, engineVars, IsReply
  <2>3. ASSUME NEW i \in 1..Len(wire'), ~IsReply(wire'[i])
        PROVE  /\ wire'[i].what \in Granted
               /\ \/ ending
                  \/ wait' = "EOB" /\ sent = <<>> /\ \A j \in 1..i : ~IsReply(wire'[j])
    <3>1. i + 1 \in 1..Len(wire) /\ wire'[i] = wire[i + 1]
      BY <1>w, <2>1
    <3>2. /\ wire[i + 1].what \in Granted
          /\ \/ ending
             \/ wait = "EOB" /\ sent = <<>> /\ \A j \in 1..(i + 1) : ~IsReply(wire[j])
      BY <2>3, <3>1 DEF ChangesInv
    <3>3. \A j \in 1..i : j + 1 \in 1..(i + 1) /\ wire'[j] = wire[j + 1] /\ 1 \in 1..(i + 1)
      BY <1>w, <2>1, <3>1
    <3>4. (\A j \in 1..(i + 1) : ~IsReply(wire[j])) =>
            (\A j \in 1..i : ~IsReply(wire'[j])) /\ ~IsReply(wire[1])
      BY <1>w, <3>1, <3>3
    <3>5. QED
      BY <2>2, <3>1, <3>2, <3>4
  <2>4. QED
    BY <2>2, <2>3 DEF ChangesInv, Granted
<1>3. CASE Reads
  <2>1. ~ending /\ sent # <<>> /\ wire' = wire /\ offer' = offer /\ aflags' = aflags
    BY <1>3 DEF Reads, Receive, ReceiveFromHelo, Ignore, Idle
  <2>2. \A i \in 1..Len(wire) : IsReply(wire[i])
    BY <2>1 DEF ChangesInv
  <2>3. \A i \in 1..Len(wire') : IsReply(wire'[i])
    BY <2>1, <2>2
  <2>4. QED
    BY <2>1, <2>3 DEF ChangesInv, Granted
<1>4. ASSUME NEW r \in Results(call), Returns(r), UNCHANGED <<offer, sent, hand, mta, wait>>,
             Write(Replies(r)) \/ wire' = wire, aflags' \subseteq Granted
      PROVE  ChangesInv'
  <2>1. (replies' = 0 \/ replies' = 1) /\ ~ending
    <3>1. EngineInv /\ HandInv
      BY DEF DialogueIInv
    <3>2. QED
      BY <1>4, <3>1, AnswerCases
  <2>2. wire' = wire \/ wire' = Append(wire, Reply(hand, r))
    <3>1. CASE wire' = wire
      BY <3>1
    <3>2. CASE Write(Replies(r)) /\ mta = "gone"
      BY <3>2 DEF Write
    <3>3. CASE Write(Replies(r)) /\ mta # "gone"
      BY <2>1, <3>3, <1>w, WrittenOne, WrittenNone
    <3>4. QED
      BY <1>4, <3>1, <3>2, <3>3
  <2>3. IsReply(Reply(hand, r))
    BY DEF IsReply, Reply
  <2>4. QED
    BY <1>4, <1>w, <2>1, <2>2, <2>3, RepliedKeepsChanges
<1>5. CASE st_optionneg
  <2>1. aflags' \subseteq Granted
    BY <1>5 DEF st_optionneg, ChangesInv, Granted
  <2>2. QED
    BY <1>4, <1>5, <2>1 DEF st_optionneg, Results
<1>6. CASE CallbackReturns
  BY <1>4, <1>6 DEF CallbackReturns, Results, ChangesInv
<1>7. CASE Finishes \/ Breaks
  <2>1. ending => ending'
    BY <1>7 DEF Finishes, Breaks, GiveUp, AbortReturns, CloseReturns, Lost, Expired, Leave
  <2>2. wire' = wire /\ offer' = offer /\ aflags' = aflags /\ wait' = wait /\ sent' = sent
    BY <1>7 DEF Finishes, Breaks, dialogueVars
  <2>3. QED
    BY <2>1, <2>2 DEF ChangesInv, Granted
<1>8. ASSUME NEW flag \in Modifications, Modify(flag) PROVE ChangesInv'
  <2>1. /\ wire' = Append(wire, Change(flag)) /\ flag \in aflags
        /\ offer' = offer /\ aflags' = aflags /\ wait' = wait /\ sent' = sent /\ ending' = ending
    BY <1>8, <1>w DEF Modify, mi_sendok, Write, WireOK, engineVars
  <2>2. /\ Len(wire') = Len(wire) + 1 /\ wire'[Len(wire) + 1] = Change(flag)
        /\ \A i \in 1..Len(wire) : wire'[i] = wire[i]
    BY <1>w, <2>1 DEF WireOK
  <2>3. Change(flag).what \in Granted /\ ~IsReply(Change(flag))
    BY <2>1 DEF Change, IsReply, ChangesInv
  <2>4. ending \/ (wait = "EOB" /\ sent = <<>> /\ Quiet)
    BY <1>8, ModifiesAtEom
  <2>5. Quiet => \A i \in 1..Len(wire') : ~IsReply(wire'[i])
    <3>1. ASSUME Quiet, NEW i \in 1..Len(wire') PROVE ~IsReply(wire'[i])
      <4>1. CASE i = Len(wire')
        BY <2>2, <2>3, <4>1
      <4>2. CASE i # Len(wire')
        <5>1. i \in 1..Len(wire)
          BY <1>w, <2>2, <4>2
        <5>2. wire'[i] = wire[i] /\ ~IsReply(wire[i])
          BY <2>2, <3>1, <5>1 DEF Quiet
        <5>3. QED
          BY <5>2
      <4>3. QED
        BY <4>1, <4>2
    <3>2. QED
      BY <3>1
  <2>6. \A i \in 1..Len(wire') : ~IsReply(wire'[i]) => wire'[i].what \in Granted
    BY <1>w, <2>2, <2>3 DEF ChangesInv
  <2>7. \A i \in 1..Len(wire') : ending \/
          (wait = "EOB" /\ sent = <<>> /\ \A j \in 1..i : ~IsReply(wire'[j]))
    BY <1>w, <2>2, <2>4, <2>5
  <2>8. QED
    BY <2>1, <2>6, <2>7 DEF ChangesInv, Granted
<1>9. CASE UNCHANGED vars
  BY <1>9 DEF vars, engineVars, ChangesInv, Granted
<1>10. QED
  BY <1>1, <1>2, <1>3, <1>5, <1>6, <1>7, <1>8, <1>9 DEF DialogueNext

\* No modification gets to the MTA that it did not offer, or outside the end of a
\* message while the session goes on: mi_sendok's test of the engine's state is
\* enough, because the MTA sends nothing before it has the reply.
THEOREM ChangesAtEomHolds ==
  ASSUME PlainDialogue
  PROVE  DialogueSpec => []ChangesAtEom
<1> DEFINE Inv == DialogueIInv /\ ChangesInv
<1>1. DialogueInit => Inv
  <2> SUFFICES ASSUME DialogueInit PROVE ChangesInv
    BY DialogueIInvInit
  <2>1. aflags = {} /\ \A i \in 1..Len(wire) : FALSE
    BY DEF DialogueInit
  <2>2. QED
    BY <2>1 DEF ChangesInv
<1>2. Inv /\ [DialogueNext]_vars => Inv'
  BY DialogueIInvStep, ChangesInvStep
<1>3. Inv => ChangesAtEom
  BY DEF ChangesInv, ChangesAtEom, Granted, IsReply
<1>4. QED
  BY <1>1, <1>2, <1>3, PTL DEF DialogueSpec

-----------------------------------------------------------------------------
(***************************************************************************)
(* The message.  In each phase in which the MTA is in a message it has     *)
(* announced, so is the engine.                                            *)
(***************************************************************************)
Open ==
  /\ tx = "open" /\ ~abortFirst
  /\ mta \in {"MAIL", "RCPT"} => state \in {"MAIL", "RCPT", "UNKN"}

\* In turn: the MTA waits for nothing; its command is on the wire; the engine has
\* it in hand; the reply is on the wire.
MessageInv ==
  ~ending =>
    /\ wait = "none" /\ InMail(mta) => Open
    /\ wait \notin {"none", "MAIL"} /\ InMail(mta) /\ sent # <<>> =>
         Open /\ Len(sent) = 1 /\ call = "none"
    /\ wait \notin {"none", "MAIL"} /\ InMail(mta) /\ sent = <<>> /\ Judged => Open
    /\ \A k \in 1..Len(wire) : IsReply(wire[k]) /\ InMail(MtaAfter(wire[k])) => Open

\* In a message, SMTP has commands that only the MTA's place allows.
LEMMA InMailFacts ==
  /\ InMail("HELO") = FALSE /\ InMail("QUIT") = FALSE /\ InMail("gone") = FALSE
  /\ \A m : InMail(m) => ~(MayFollow[m] \subseteq FromHelo \cup NoReply)
<1>1. InMail("HELO") = FALSE /\ InMail("QUIT") = FALSE /\ InMail("gone") = FALSE
  BY DEF InMail, InMailStates
<1>2. ASSUME NEW m, InMail(m) PROVE ~(MayFollow[m] \subseteq FromHelo \cup NoReply)
  BY <1>2, FollowRows DEF InMail, InMailStates, FromHelo, NoReply
<1>3. QED
  BY <1>1, <1>2

\* A command that has the MTA in a message, but MAIL, is sent from within it.
LEMMA InMailBefore ==
  ASSUME NEW m \in DOMAIN MayFollow, NEW c \in MayFollow[m], c \notin {"MAIL", "UNKNOWN"},
         InMail(CommandState[c])
  PROVE  InMail(m) /\ (CommandState[c] \in {"MAIL", "RCPT"} => m \in {"MAIL", "RCPT"})
<1>1. c \in {"RCPT", "DATA", "HEADER", "EOH", "BODY"}
  <2>1. c \in AllCommands
    BY FollowFacts
  <2>2. QED
    BY <2>1, StateRows DEF AllCommands, InMail, InMailStates
<1>2. m \notin {"INIT", "OPTS", "Q_NC", "CONN", "HELO", "ENDM", "QUIT"}
  BY <1>1, FollowRows
<1>3. m \in {"MAIL", "RCPT", "DATA", "HDRS", "EOHS", "BODY"}
  BY <1>2 DEF MayFollow
<1>4. c = "RCPT" => m \in {"MAIL", "RCPT"}
  BY <1>3, FollowRows
<1>5. QED
  BY <1>1, <1>3, <1>4, StateRows DEF InMail, InMailStates

\* None of the commands before the end of a message is for xxfi_eom.
LEMMA TransmitRow ==
  ASSUME NEW c \in {"MAIL", "RCPT", "DATA", "HEADER", "EOH", "BODY", "UNKNOWN"}
  PROVE  CommandCallback[c] # "eom" /\ (c = "MAIL" => CommandCallback[c] = "envfrom")
BY CallbackRows

\* An MTA that waits for a reply within a message waits for one of these.
LEMMA InMailWait ==
  ASSUME NEW c \in AllCommands, NEW m \in Places(c), InMail(m)
  PROVE  /\ c \in {"MAIL", "RCPT", "DATA", "HEADER", "EOH", "BODY", "UNKNOWN"}
         /\ c = "UNKNOWN" => m \in {"MAIL", "RCPT"}
         /\ m \in {"MAIL", "RCPT"} => CommandState[c] \in {"MAIL", "RCPT", "UNKN"}
<1>1. CASE c = "UNKNOWN"
  BY <1>1, StateRows DEF Places, InMail, InMailStates
<1>2. CASE c # "UNKNOWN"
  BY <1>2, StateRows DEF Places, InMail, InMailStates, AllCommands
<1>3. QED
  BY <1>1, <1>2

\* Within a message the MTA has nothing on the wire when it waits for nothing.
LEMMA InMailAtRest ==
  ASSUME DialogueInv, ~ending, wait = "none", InMail(mta)
  PROVE  AtRest /\ sent = <<>> /\ call = "none" /\ ~abortFirst
<1>1. mta # "gone" /\ "none" \notin Commands
  BY InMailFacts, EngineAssumption DEF AllCommands
<1>2. AtRest
  BY <1>1 DEF DialogueInv, Gone, Asked, InHand, AnsweredAt
<1>3. QED
  BY <1>2, InMailFacts DEF AtRest, Ready

\* The MTA sends within the message, or leaves it.
LEMMA SendsKeepsMessage ==
  ASSUME PlainDialogue, SentOK, DialogueInv, MessageInv, MtaSends
  PROVE  MessageInv'
<1> USE EngineAssumption
<1>1. PICK c \in Commands \cap MayFollow[mta] :
        /\ sent' = Append(sent, c)
        /\ wait' = IF c \in NoReply THEN "none" ELSE c
        /\ mta' = CASE c = "ABORT" -> "HELO"
                    [] c = "UNKNOWN" -> mta
                    [] OTHER -> CommandState[c]
  BY DEF MtaSends
<1>2. /\ wire' = <<>> /\ wait = "none" /\ mta # "gone"
      /\ state' = state /\ call' = call /\ abortFirst' = abortFirst /\ ending' = ending
      /\ tx' = tx
  BY DEF MtaSends, engineVars
<1>3. sent' # <<>> /\ Len(sent') = Len(sent) + 1
  BY <1>1 DEF SentOK
<1>4. \A k \in 1..Len(wire') : FALSE
  BY <1>2
<1>5. AtRest
  BY <1>2 DEF DialogueInv, Gone, Asked, InHand, AnsweredAt, AllCommands
<1>6. CASE c \in NoReply
  <2>1. mta' \in {"HELO", "QUIT"} /\ wait' = "none"
    BY <1>1, <1>6 DEF NoReply, CommandState, PlainDialogue
  <2>2. QED
    BY <1>4, <2>1, InMailFacts DEF MessageInv
<1>7. CASE c \notin NoReply
  <2>1. wait' = c /\ c # "none"
    BY <1>1, <1>7 DEF AllCommands
  <2>2. ASSUME ~ending, c # "MAIL", InMail(mta')
        PROVE  Open' /\ Len(sent') = 1 /\ call = "none"
    <3>1. InMail(mta) /\ (mta' \in {"MAIL", "RCPT"} => mta \in {"MAIL", "RCPT"})
      <4>1. CASE c = "UNKNOWN"
        BY <1>1, <2>2, <4>1
      <4>2. CASE c # "UNKNOWN"
        <5>1. mta' = CommandState[c]
          BY <1>1, <1>7, <4>2 DEF NoReply
        <5>2. mta \in DOMAIN MayFollow
          BY <1>5 DEF AtRest
        <5>3. QED
          BY <1>1, <2>2, <4>2, <5>1, <5>2, InMailBefore
      <4>3. QED
        BY <4>1, <4>2
    <3>2. Open
      BY <1>2, <2>2, <3>1 DEF MessageInv
    <3>3. sent = <<>> /\ call = "none"
      BY <1>2, <2>2, <3>1, InMailAtRest
    <3>4. QED
      BY <1>2, <1>3, <3>1, <3>2, <3>3 DEF Open
  <2>3. QED
    BY <1>2, <1>3, <1>4, <2>1, <2>2 DEF MessageInv
<1>8. QED
  BY <1>6, <1>7

\* The MTA reads: a verdict that leaves it in the message left the engine there.
LEMMA ReadsKeepsMessage ==
  ASSUME WireOK, DialogueInv, MessageInv, MtaReads
  PROVE  MessageInv'
<1>1. /\ wire \in Seq(Packets) /\ wire # <<>>
      /\ Len(wire') = Len(wire) - 1 /\ Len(wire) \in Nat \ {0}
      /\ \A i \in 1..Len(wire') : wire'[i] = wire[i + 1]
      /\ Head(wire) = wire[1] /\ 1 \in 1..Len(wire)
  BY DEF MtaReads, WireOK
<1>2. /\ state' = state /\ call' = call /\ abortFirst' = abortFirst
      /\ ending' = ending /\ sent' = sent /\ tx' = tx
  BY DEF MtaReads, engineVars
<1>3. CASE IsReply(wire[1])
  <2>1. mta # "gone" /\ wait' = "none" /\ mta' = MtaAfter(wire[1])
    BY <1>1, <1>3 DEF MtaReads, MtaAfter, IsReply
  <2>2. \E k \in 1..Len(wire) : AnsweredAt(k)
    BY <1>1, <1>3, <2>1 DEF DialogueInv, Gone, AtRest, Asked, InHand, Quiet
  <2>3. \A i \in 1..Len(wire') : ~IsReply(wire'[i])
    BY <1>1, <1>3, <2>2 DEF AnsweredAt
  <2>4. InMail(mta') => mta' = mta
    BY <2>1, InMailFacts DEF MtaAfter
  <2>5. ~ending /\ InMail(mta') => Open
    BY <1>1, <1>3, <2>1 DEF MessageInv
  <2>6. ~ending /\ InMail(mta') => Open'
    BY <1>2, <2>4, <2>5 DEF Open
  <2>7. QED
    BY <1>2, <2>1, <2>3, <2>6 DEF MessageInv
<1>4. CASE ~IsReply(wire[1])
  <2>1. wire[1] \in Packets
    BY <1>1
  <2>2. wait' = wait /\ mta' = mta
    BY <1>1, <1>4, <2>1 DEF MtaReads, IsReply, Packets
  <2>3. (Open <=> Open') /\ (Judged <=> Judged')
    BY <1>2, <2>2 DEF Open, Judged
  <2>4. ASSUME NEW k \in 1..Len(wire'), ~ending, IsReply(wire'[k]), InMail(MtaAfter(wire[k])')
        PROVE  Open
    <3>1. k + 1 \in 1..Len(wire) /\ wire'[k] = wire[k + 1]
      BY <1>1
    <3>2. MtaAfter(wire[k])' = MtaAfter(wire[k + 1])
      BY <2>2, <3>1 DEF MtaAfter
    <3>3. QED
      BY <2>4, <3>1, <3>2 DEF MessageInv
  <2>5. QED
    BY <1>2, <2>2, <2>3, <2>4 DEF MessageInv
<1>5. QED
  BY <1>3, <1>4

\* The engine reads a command of the message: it is one it takes from the state it
\* is in, without an abort.
LEMMA TakesKeepsMessage ==
  ASSUME PlainDialogue, SentOK, DialogueInv, MessageInv, Reads
  PROVE  MessageInv'
<1> USE EngineAssumption
<1> DEFINE c == Head(sent)
<1>1. /\ sent \in Seq(Commands) /\ sent # <<>> /\ sent' = Tail(sent) /\ c = sent[1]
  BY DEF Reads, SentOK
<1>2. wire' = wire /\ mta' = mta /\ wait' = wait
  BY DEF Reads
<1>3. Receive(c) \/ ReceiveFromHelo(c) \/ Ignore(c)
  BY DEF Reads
<1> HIDE DEF c
<1>4. call = "none" /\ ~abortFirst /\ ~ending
  BY <1>3 DEF Receive, ReceiveFromHelo, Ignore, Idle
<1>5. wait = "none" => ~InMail(mta)
  BY <1>1, <1>4, InMailAtRest
<1>6. ~InHand /\ \A k \in 1..Len(wire) : ~AnsweredAt(k)
  BY <1>1 DEF InHand, AnsweredAt
<1>7. Quiet
  <2>1. Gone => \A k \in 1..Len(wire) : FALSE
    BY DEF Gone
  <2>2. QED
    BY <1>6, <2>1 DEF DialogueInv, AtRest, Asked, Quiet
<1>8. \A k \in 1..Len(wire') : ~IsReply(wire'[k])
  BY <1>2, <1>7 DEF Quiet
<1>9. ASSUME wait \notin {"none", "MAIL"}, InMail(mta)
      PROVE  sent' = <<>> /\ Open'
  <2>1. Open /\ Len(sent) = 1
    BY <1>1, <1>4, <1>9 DEF MessageInv
  <2>2. Asked
    BY <1>6, <1>9, InMailFacts DEF DialogueInv, Gone, AtRest
  <2>3. c = wait /\ sent' = <<>> /\ c \in AllCommands /\ mta \in Places(c)
    BY <1>1, <2>1, <2>2 DEF Asked
  <2>4. /\ c \in {"RCPT", "DATA", "HEADER", "EOH", "BODY", "UNKNOWN"}
        /\ c = "UNKNOWN" => mta \in {"MAIL", "RCPT"}
        /\ mta \in {"MAIL", "RCPT"} => CommandState[c] \in {"MAIL", "RCPT", "UNKN"}
    BY <1>9, <2>3, InMailWait
  <2>5. TransOK(state, CommandState[c])
    <3>1. CASE c = "UNKNOWN"
      <4>1. state \in {"MAIL", "RCPT", "UNKN"} /\ CommandState[c] = "UNKN"
        BY <2>1, <2>4, <3>1, StateRows DEF Open
      <4>2. /\ "UNKN" \in NextStates["MAIL"] /\ "UNKN" \in NextStates["RCPT"]
            /\ "UNKN" \in NextStates["UNKN"]
        BY DEF NextStates
      <4>3. QED
        BY <4>1, <4>2 DEF TransOK
    <3>2. CASE c # "UNKNOWN"
      BY <1>4, <2>2, <2>3, <2>4, <3>2 DEF Asked, FromHelo
    <3>3. QED
      BY <3>1, <3>2
  <2>6. Receive(c)
    BY <1>3, <2>5 DEF ReceiveFromHelo, Ignore
  <2>7. abortFirst' = FALSE /\ tx' = tx /\ state' = CommandState[c]
    BY <2>6 DEF Receive, Dispatch
  <2>8. QED
    BY <1>2, <2>1, <2>3, <2>4, <2>7 DEF Open
<1>10. QED
  BY <1>2, <1>5, <1>8, <1>9 DEF MessageInv

\* A callback of the message returns: a verdict that leaves the MTA in the message
\* leaves the engine there, too.
LEMMA ReplyKeepsMessage ==
  ASSUME PlainDialogue, EngineInv, HandInv, WireOK, DialogueInv, MessageInv,
         NEW r \in Results(call), Returns(r),
         Write(Replies(r)) \/ (r = "ABORT" /\ wire' = wire),
         sent' = sent, hand' = hand, mta' = mta, wait' = wait
  PROVE  MessageInv'
<1> USE EngineAssumption
<1>a. /\ call \in Judging /\ ~ending
      /\ \/ /\ replies' = 1
            /\ state' = AfterVerdict(state, call, r)
            /\ call' = "none" /\ abortFirst' = FALSE /\ ending' = FALSE
            /\ r \in Replied
         \/ /\ replies' = 0
            /\ state' = state
            /\ call' = "close" /\ ending' = TRUE
  BY AnswerCases, Zenon
<1>1. call \in Judging /\ ~ending /\ Judged
  BY <1>a DEF Judged
<1>2. CASE ending'
  BY <1>2 DEF MessageInv
<1>3. CASE mta = "gone"
  <2>1. Gone
    BY <1>3, FollowFacts, AcceptFacts DEF DialogueInv, AtRest, Asked, InHand, AnsweredAt
  <2>2. wire' = <<>> /\ ~InMail(mta')
    BY <1>3, <2>1, InMailFacts DEF Gone, Write
  <2>3. \A k \in 1..Len(wire') : FALSE
    BY <2>2
  <2>4. QED
    BY <2>2, <2>3 DEF MessageInv
<1>4. CASE ~ending' /\ mta # "gone"
  <2>1. InHand
    BY <1>1, <1>4 DEF DialogueInv, Gone, AtRest, Asked, AnsweredAt
  <2>2. state = CommandState[wait] /\ hand = wait /\ sent = <<>> /\ mta \in Places(wait)
        /\ wait \in Commands /\ wait # "none"
    BY <1>1, <2>1 DEF InHand, AllCommands
  <2>3. /\ replies' = 1 /\ state' = AfterVerdict(state, call, r)
        /\ abortFirst' = FALSE /\ r \in Replied /\ call' = "none"
    BY <1>a, <1>4
  <2>4. wire' = Append(wire, Reply(wait, r))
    BY <1>4, <2>2, <2>3, WrittenOne DEF Replied
  <2>5. PICK n \in Nat : n = Len(wire) + 1
    BY DEF WireOK
  <2>6. /\ wire'[n] = Reply(wait, r)
        /\ \A i \in 1..Len(wire') : i = n \/ (i \in 1..Len(wire) /\ wire'[i] = wire[i])
    BY <2>4, <2>5 DEF WireOK
  <2>7. \A k \in 1..Len(wire') : IsReply(wire'[k]) => wire'[k] = Reply(wait, r)
    BY <2>1, <2>6 DEF InHand, Quiet
  <2>8. ASSUME InMail(MtaAfter(Reply(wait, r))) PROVE Open'
    <3>1. InMail(mta) /\ MtaAfter(Reply(wait, r)) # "HELO"
      BY <2>8, InMailFacts DEF MtaAfter
    <3>2. /\ wait \in {"MAIL", "RCPT", "DATA", "HEADER", "EOH", "BODY", "UNKNOWN"}
          /\ mta \in {"MAIL", "RCPT"} => state \in {"MAIL", "RCPT", "UNKN"}
      BY <2>2, <3>1, InMailWait
    <3>3. call = CommandCallback[wait]
      BY <1>1, <2>2 DEF HandInv
    <3>4. call # "eom" /\ (wait = "MAIL" => call = "envfrom")
      BY <3>2, <3>3, TransmitRow
    <3>5. call \in Ignored <=> wait \in {"RCPT", "UNKNOWN"}
      <4>1. wait \in AllCommands /\ wait # "EOB_CHUNK" /\ wait # "QUIT_NC"
        BY <3>2 DEF AllCommands
      <4>2. QED
        BY <3>3, <4>1, HandFacts
    <3>6. ~(r = "ACCEPT" \/ (r \in {"REJECT", "DISCARD", "TEMPFAIL"} /\ call \notin Ignored))
      BY <3>1, <3>5 DEF MtaAfter, Reply
    <3>7. state' = state /\ AfterVerdict("ENDM", call, r) = "ENDM"
      BY <2>3, <3>6 DEF AfterVerdict
    <3>8. Answer(r)
      BY <1>1, <2>1, <3>4 DEF Returns, LastChunkPasses, HandInv
    <3>9. tx' = Settled(call, r)
      BY <2>3, <3>8 DEF Answer, Leave
    <3>10. wait # "MAIL" => tx = "open"
      BY <1>1, <2>2, <3>1 DEF MessageInv, Open
    <3>11. Announced(call) = "open"
      BY <3>4, <3>10 DEF Announced
    <3>12. tx' = "open"
      BY <3>7, <3>9, <3>11 DEF Settled
    <3>13. QED
      BY <2>3, <3>2, <3>7, <3>12 DEF Open
  <2>9. ASSUME NEW k \in 1..Len(wire'), IsReply(wire'[k]), InMail(MtaAfter(wire[k])')
        PROVE  Open'
    <3>1. MtaAfter(wire[k])' = MtaAfter(Reply(wait, r))
      BY <2>7, <2>9 DEF MtaAfter
    <3>2. QED
      BY <2>8, <2>9, <3>1
  <2>10. ~Judged'
    BY <2>3 DEF Judged, Judging
  <2>11. QED
    BY <2>2, <2>9, <2>10 DEF MessageInv
<1>5. QED
  BY <1>2, <1>3, <1>4

\* No abort runs while both are in a message; the other silent steps leave it
\* alone, or end the session.
LEMMA SilentKeepsMessage ==
  ASSUME PlainDialogue, EngineInv, HandInv, DialogueInv, MessageInv, Finishes \/ Breaks
  PROVE  MessageInv'
<1> USE EngineAssumption
<1>1. wire' = wire /\ mta' = mta /\ wait' = wait /\ sent' = sent
  BY DEF Finishes, Breaks, dialogueVars
<1>2. CASE ending'
  BY <1>2 DEF MessageInv
<1>3. CASE CloseReturns
  <2>1. /\ call = "close" /\ call' = "none"
        /\ state' = state /\ abortFirst' = abortFirst /\ ending' = ending /\ tx' = tx
    BY <1>3 DEF CloseReturns
  <2>2. (Open <=> Open') /\ ~Judged'
    BY <1>1, <2>1 DEF Open, Judged, Judging
  <2>3. \A k \in 1..Len(wire) : MtaAfter(wire[k])' = MtaAfter(wire[k])
    BY <1>1 DEF MtaAfter
  <2>4. QED
    BY <1>1, <2>1, <2>2, <2>3 DEF MessageInv
<1>4. CASE AbortReturns /\ ~ending'
  <2>1. /\ abortFirst \/ call = "abort"
        /\ call' = IF abortFirst THEN call ELSE "none"
        /\ ~ending
    BY <1>4 DEF AbortReturns
  <2>2. ~(wait = "none" /\ InMail(mta))
    BY <2>1, InMailAtRest
  <2>3. ~(wait \notin {"none", "MAIL"} /\ InMail(mta) /\ sent # <<>>)
    BY <2>1 DEF MessageInv, Open
  <2>4. ~(wait \notin {"none", "MAIL"} /\ InMail(mta) /\ sent = <<>> /\ Judged')
    BY <2>1 DEF MessageInv, Open, Judged, Judging
  <2>5. ASSUME NEW k \in 1..Len(wire), IsReply(wire[k]), InMail(MtaAfter(wire[k]))
        PROVE  FALSE
    <3>1. ~Gone
      BY <2>5, InMailFacts DEF Gone, MtaAfter
    <3>2. AnsweredAt(k)
      BY <2>5, <3>1 DEF DialogueInv, AtRest, Asked, InHand, Quiet, AnsweredAt
    <3>3. call = "none" /\ ~abortFirst
      BY <2>1, <2>5, <3>2, InMailFacts DEF AnsweredAt, Ready
    <3>4. QED
      BY <2>1, <3>3
  <2>6. \A k \in 1..Len(wire) : MtaAfter(wire[k])' = MtaAfter(wire[k])
    BY <1>1 DEF MtaAfter
  <2>7. QED
    BY <1>1, <2>2, <2>3, <2>4, <2>5, <2>6 DEF MessageInv
<1>5. CASE GiveUp
  <2>1. hand \in Malformed /\ CommandState[hand] = state
    BY <1>5 DEF GiveUp, HandInv
  <2>2. hand \in AllCommands /\ hand \notin {"EOB_CHUNK", "QUIT_NC", "HELO"}
    BY <2>1 DEF PlainDialogue
  <2>3. state # "HELO"
    BY <2>1, <2>2, HandFacts
  <2>4. ending'
    BY <1>5, <2>3 DEF GiveUp, Leave
  <2>5. QED
    BY <1>2, <2>4
<1>6. CASE Breaks
  BY <1>2, <1>6 DEF Breaks, Lost, Expired, Leave
<1>7. QED
  BY <1>2, <1>3, <1>4, <1>5, <1>6 DEF Finishes

\* Every step keeps MessageInv.
LEMMA MessageInvStep ==
  ASSUME PlainDialogue, DialogueIInv, MessageInv, [DialogueNext]_vars
  PROVE  MessageInv'
<1> USE DEF DialogueIInv
<1>1. CASE MtaSends
  BY <1>1, SendsKeepsMessage
<1>2. CASE MtaReads
  BY <1>2, ReadsKeepsMessage
<1>3. CASE MtaLeaves
  <2>1. mta' = "gone" /\ wire' = <<>>
    BY <1>3 DEF MtaLeaves
  <2>2. ~InMail(mta') /\ \A k \in 1..Len(wire') : FALSE
    BY <2>1, InMailFacts
  <2>3. QED
    BY <2>2 DEF MessageInv
<1>4. CASE Reads
  BY <1>4, TakesKeepsMessage
<1>5. CASE st_optionneg
  <2>1. call = "negotiate" /\ sent' = sent /\ hand' = hand /\ mta' = mta /\ wait' = wait
    BY <1>5 DEF st_optionneg
  <2>2. \/ Returns("ABORT") /\ wire' = wire
        \/ Returns("OPTIONS") /\ Write(Replies("OPTIONS"))
    BY <1>5 DEF st_optionneg
  <2>3. "ABORT" \in Results(call) /\ "OPTIONS" \in Results(call)
    BY <2>1 DEF Results
  <2>4. QED
    BY <2>1, <2>2, <2>3, ReplyKeepsMessage
<1>6. CASE CallbackReturns
  <2>1. PICK r \in Verdicts : Returns(r) /\ Write(Replies(r))
    BY <1>6 DEF CallbackReturns
  <2>2. r \in Results(call) /\ sent' = sent /\ hand' = hand /\ mta' = mta /\ wait' = wait
    BY <1>6 DEF CallbackReturns, Results
  <2>3. QED
    BY <2>1, <2>2, ReplyKeepsMessage
<1>7. CASE Finishes \/ Breaks
  BY <1>7, SilentKeepsMessage
<1>8. ASSUME UNCHANGED <<engineVars, sent, mta, wait>>,
             \A k \in 1..Len(wire') :
               ~IsReply(wire'[k]) \/ (k \in 1..Len(wire) /\ wire'[k] = wire[k])
      PROVE  MessageInv'
  <2>1. ending' = ending /\ call' = call /\ sent' = sent /\ mta' = mta /\ wait' = wait
    BY <1>8 DEF engineVars
  <2>2. (Open <=> Open') /\ (Judged <=> Judged')
    BY <1>8 DEF engineVars, Open, Judged
  <2>3. ASSUME NEW k \in 1..Len(wire'), ~ending, IsReply(wire'[k]), InMail(MtaAfter(wire[k])')
        PROVE  Open
    <3>1. k \in 1..Len(wire) /\ wire'[k] = wire[k]
      BY <1>8, <2>3
    <3>2. MtaAfter(wire[k])' = MtaAfter(wire[k])
      BY <2>1, <3>1 DEF MtaAfter
    <3>3. QED
      BY <2>3, <3>1, <3>2 DEF MessageInv
  <2>4. QED
    BY <2>1, <2>2, <2>3 DEF MessageInv
<1>9. ASSUME NEW flag \in Modifications, Modify(flag) PROVE MessageInv'
  <2>1. wire' = Append(wire, Change(flag)) /\ UNCHANGED <<engineVars, sent, mta, wait>>
    BY <1>9 DEF Modify, Write, WireOK
  <2>2. \A k \in 1..Len(wire') :
          ~IsReply(wire'[k]) \/ (k \in 1..Len(wire) /\ wire'[k] = wire[k])
    <3>1. ~IsReply(Change(flag))
      BY DEF IsReply, Change
    <3>2. PICK n \in Nat : n = Len(wire) + 1
      BY DEF WireOK
    <3>3. /\ wire'[n] = Change(flag)
          /\ \A k \in 1..Len(wire') : k = n \/ (k \in 1..Len(wire) /\ wire'[k] = wire[k])
      BY <2>1, <3>2 DEF WireOK
    <3>4. QED
      BY <3>1, <3>3
  <2>3. QED
    BY <1>8, <2>1, <2>2
<1>10. CASE UNCHANGED vars
  BY <1>8, <1>10 DEF vars
<1>11. QED
  BY <1>1, <1>2, <1>3, <1>4, <1>5, <1>6, <1>7, <1>9, <1>10 DEF DialogueNext

\* While the MTA transmits a message the engine has it in progress, for every MTA
\* and filter of PlainDialogue, whatever the callbacks return.
THEOREM SameMessageHolds ==
  ASSUME PlainDialogue
  PROVE  DialogueSpec => []SameMessage
<1> DEFINE Inv == DialogueIInv /\ MessageInv
<1>1. DialogueInit => Inv
  <2> SUFFICES ASSUME DialogueInit PROVE MessageInv
    BY DialogueIInvInit
  <2>1. mta = "INIT" /\ wire = <<>>
    BY DEF DialogueInit
  <2>2. ~InMail(mta) /\ \A k \in 1..Len(wire) : FALSE
    BY <2>1 DEF InMail, InMailStates
  <2>3. QED
    BY <2>2 DEF MessageInv
<1>2. Inv /\ [DialogueNext]_vars => Inv'
  BY DialogueIInvStep, MessageInvStep
<1>3. Inv => SameMessage
  <2> SUFFICES ASSUME Inv, Idle, sent = <<>>, wire = <<>>, InMail(mta) PROVE tx = "open"
    BY DEF SameMessage
  <2>1. wait = "none"
    <3>1. ~Asked /\ ~InHand /\ \A k \in 1..Len(wire) : FALSE
      BY DEF Asked, InHand, Idle, Judged, Judging
    <3>2. QED
      BY <3>1 DEF DialogueIInv, DialogueInv, Gone, AtRest
  <2>2. QED
    BY <2>1 DEF MessageInv, Open, Idle
<1>4. QED
  BY <1>1, <1>2, <1>3, PTL DEF DialogueSpec

-----------------------------------------------------------------------------
(***************************************************************************)
(* The engine's work ends.                                                 *)
(***************************************************************************)

\* The work of a callback, and of an abort before it.
LEMMA WorkRows ==
  ASSUME NEW cb
  PROVE  /\ CallWork(cb) \in 0..4
         /\ cb \in Judging \cup {"malformed"} => CallWork(cb) \in 3..4
         /\ cb \in {"body", "malformed"} => CallWork(cb) = 4
         /\ cb = "eom" => CallWork(cb) = 3
         /\ cb \in {"abort", "close"} => CallWork(cb) = 1
         /\ cb = "none" => CallWork(cb) = 0
<1>1. CallWork(cb) \in 0..4
  BY DEF CallWork
<1>2. cb \in Judging \cup {"malformed"} => CallWork(cb) \in 3..4
  BY DEF CallWork, Judging
<1>3. QED
  BY <1>1, <1>2 DEF CallWork

\* An abort that is still to be invoked is one step more.
LEMMA AbortRows ==
  ASSUME NEW b
  PROVE  /\ AbortWork(b) \in 0..1
         /\ b => AbortWork(b) = 1
         /\ ~b => AbortWork(b) = 0
BY DEF AbortWork

\* A callback that returns has at most the close of the session, with the abort
\* before it, or xxfi_eom after it.
LEMMA ReturnWork ==
  ASSUME NEW r, Returns(r)
  PROVE  CallWork(call') + AbortWork(abortFirst') < CallWork(call) + AbortWork(abortFirst)
<1>1. CASE LastChunkPasses(r)
  <2>1. call = "body" /\ call' = "eom" /\ ~abortFirst /\ ~abortFirst'
    BY <1>1 DEF LastChunkPasses
  <2>2. /\ CallWork(call) = 4 /\ CallWork(call') = 3
        /\ AbortWork(abortFirst) = 0 /\ AbortWork(abortFirst') = 0
    BY <2>1, WorkRows, AbortRows
  <2>3. QED
    BY <2>2
<1>2. CASE Answer(r)
  <2>1. call \in Judging /\ call' \in {"none", "close"}
    BY <1>2 DEF Answer, Leave
  <2>2. CallWork(call) \in 3..4 /\ CallWork(call') \in 0..1
    BY <2>1, WorkRows
  <2>3. AbortWork(abortFirst) = 0 /\ AbortWork(abortFirst') \in 0..1
    BY <1>2, AbortRows DEF Answer
  <2>4. QED
    BY <2>2, <2>3
<1>3. QED
  BY <1>1, <1>2 DEF Returns

\* So has a step that reads no command.
LEMMA FinishWork ==
  ASSUME GiveUp \/ AbortReturns \/ CloseReturns
  PROVE  CallWork(call') + AbortWork(abortFirst') < CallWork(call) + AbortWork(abortFirst)
<1>1. CASE GiveUp
  <2>1. call = "malformed" /\ ~abortFirst /\ call' \in {"none", "close"}
    BY <1>1 DEF GiveUp, Leave
  <2>2. /\ CallWork(call) = 4 /\ CallWork(call') \in 0..1
        /\ AbortWork(abortFirst) = 0 /\ AbortWork(abortFirst') \in 0..1
    BY <2>1, WorkRows, AbortRows
  <2>3. QED
    BY <2>2
<1>2. CASE AbortReturns /\ abortFirst
  <2>1. call' = call /\ ~abortFirst'
    BY <1>2 DEF AbortReturns
  <2>2. /\ CallWork(call') = CallWork(call) /\ CallWork(call) \in 0..4
        /\ AbortWork(abortFirst) = 1 /\ AbortWork(abortFirst') = 0
    BY <1>2, <2>1, WorkRows, AbortRows DEF CallWork
  <2>3. QED
    BY <2>2
<1>3. CASE AbortReturns /\ ~abortFirst
  <2>1. call = "abort" /\ call' = "none" /\ ~abortFirst'
    BY <1>3 DEF AbortReturns
  <2>2. /\ CallWork(call) = 1 /\ CallWork(call') = 0
        /\ AbortWork(abortFirst) = 0 /\ AbortWork(abortFirst') = 0
    BY <1>3, <2>1, WorkRows, AbortRows
  <2>3. QED
    BY <2>2
<1>4. CASE CloseReturns
  <2>1. call = "close" /\ call' = "none" /\ ~abortFirst /\ ~abortFirst'
    BY <1>4 DEF CloseReturns
  <2>2. /\ CallWork(call) = 1 /\ CallWork(call') = 0
        /\ AbortWork(abortFirst) = 0 /\ AbortWork(abortFirst') = 0
    BY <2>1, WorkRows, AbortRows
  <2>3. QED
    BY <2>2
<1>5. QED
  BY <1>1, <1>2, <1>3, <1>4

\* The same with the commands that are still on the wire.
LEMMA WorkSum ==
  ASSUME NEW n \in Nat, NEW a \in 0..4, NEW b \in 0..1, NEW c \in 0..4, NEW d \in 0..1,
         c + d < a + b
  PROVE  6 * n + c + d < 6 * n + a + b
OBVIOUS

\* A command on the wire counts for more than it can become.
LEMMA WorkRead ==
  ASSUME NEW n \in Nat, NEW a \in 0..4, NEW b \in 0..1, NEW c \in 0..4, NEW d \in 0..1
  PROVE  6 * (n - 1) + c + d < 6 * n + a + b
OBVIOUS

\* Every step of the engine lowers its work.
LEMMA EngineWork ==
  ASSUME SentOK, EngineSteps
  PROVE  Work' < Work
<1>1. /\ Work = 6 * Len(sent) + CallWork(call) + AbortWork(abortFirst)
      /\ Work' = 6 * Len(sent') + CallWork(call') + AbortWork(abortFirst')
  BY DEF Work
<1>2. Len(sent) \in Nat /\ CallWork(call) \in 0..4 /\ CallWork(call') \in 0..4
      /\ AbortWork(abortFirst) \in 0..1 /\ AbortWork(abortFirst') \in 0..1
  BY WorkRows, AbortRows DEF SentOK
<1>3. CASE Reads
  <2>1. Len(sent') = Len(sent) - 1
    BY <1>3 DEF Reads, SentOK
  <2>2. Work' = 6 * (Len(sent) - 1) + CallWork(call') + AbortWork(abortFirst')
    BY <1>1, <2>1
  <2>3. QED
    BY <1>1, <1>2, <2>2, WorkRead
<1>4. ASSUME sent' = sent,
             CallWork(call') + AbortWork(abortFirst') < CallWork(call) + AbortWork(abortFirst)
      PROVE  Work' < Work
  <2>1. Work' = 6 * Len(sent) + CallWork(call') + AbortWork(abortFirst')
    BY <1>1, <1>4
  <2>2. QED
    BY <1>1, <1>2, <1>4, <2>1, WorkSum
<1>5. CASE st_optionneg \/ CallbackReturns
  <2>1. sent' = sent /\ \E r : Returns(r)
    BY <1>5 DEF st_optionneg, CallbackReturns
  <2>2. QED
    BY <1>4, <2>1, ReturnWork
<1>6. CASE Finishes
  <2>1. sent' = sent /\ (GiveUp \/ AbortReturns \/ CloseReturns)
    BY <1>6 DEF Finishes, dialogueVars
  <2>2. QED
    BY <1>4, <2>1, FinishWork
<1>7. QED
  BY <1>3, <1>5, <1>6 DEF EngineSteps

\* No step of the engine leaves it with as much work as before, and Work is a
\* natural number: between two commands it takes finitely many steps, whatever was
\* read and returned.  With NoMutualWait this is the part of Answered that does
\* not depend on fairness.
THEOREM EngineAdvancesHolds ==
  DialogueSpec => [](Work \in Nat) /\ EngineAdvances
<1>1. DialogueInit => SentOK
  BY DEF DialogueInit, SentOK
<1>2. SentOK /\ [DialogueNext]_vars => SentOK'
  BY DialogueSteps
<1>3. SentOK => Work \in Nat
  BY WorkRows, AbortRows DEF SentOK, Work
<1>4. SentOK /\ [DialogueNext]_vars => [EngineSteps => Work' < Work]_vars
  BY EngineWork
<1>5. QED
  BY <1>1, <1>2, <1>3, <1>4, PTL DEF DialogueSpec, EngineAdvances

=============================================================================
