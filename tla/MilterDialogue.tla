--------------------------- MODULE MilterDialogue ---------------------------
(***************************************************************************)
(* The MTA and the engine of one connection, and the wire between them.    *)
(*                                                                         *)
(* MilterEngine takes any command at any time.  Here the MTA sends SMTP's  *)
(* order and waits for the reply to each command, so that it matters which *)
(* replies the engine writes (sendreply), and what else a script puts on   *)
(* the wire: the modifications of smfi.c, which the engine lets pass at    *)
(* the end of a message only (mi_sendok).                                  *)
(*                                                                         *)
(* The MTA is external: that it waits, in what order it sends and what it  *)
(* does with a verdict is taken from the tables of engine.c and the        *)
(* comments of mfapi.h.                                                    *)
(***************************************************************************)
EXTENDS MilterEngine, Sequences

CONSTANTS
  Offers,  \* what the MTA may offer: [vers, acts] records
  MaxSent, \* bound: commands on the wire
  MaxWire  \* bound: packets on the wire to the MTA

\* The operations a script has: Headers#[]=, change_envelope_from, add_rcpt_to.
Modifications == {"ADDHDRS", "CHGFROM", "ADDRCPT_PAR"}

V1_ACTS == {"ADDHDRS", "CHGBODY", "ADDRCPT", "DELRCPT"}

AllActs == V1_ACTS \cup Modifications \cup {"CHGHDRS", "QUARANTINE", "SETSYMLIST"}

PROT_VERSION_MIN == 2

ASSUME DialogueAssumption ==
  /\ Offers \subseteq [vers : Nat, acts : SUBSET AllActs]
  /\ MaxSent \in Nat \ {0}
  /\ MaxWire \in Nat \ {0}

VARIABLES
  offer,  \* the MTA's SMFIC_OPTNEG
  aflags, \* ctx_aflags
  sent,   \* commands on the wire
  hand,   \* the command mi_engine has in hand, or had last
  wire,   \* packets on the wire to the MTA
  mta,    \* where the MTA is in the SMTP dialogue, or "gone"
  wait    \* the command it waits for a reply to, or "none"

dialogueVars == <<offer, aflags, sent, hand, wire, mta, wait>>
vars == <<engineVars, offer, aflags, sent, hand, wire, mta, wait>>

Reply(c, r) == [kind |-> "reply", of |-> c, what |-> r]
Change(a) == [kind |-> "change", of |-> "none", what |-> a]

DialogueInit ==
  /\ EngineInit
  /\ offer \in Offers
  /\ aflags = {}
  /\ sent = <<>>
  /\ hand = "none"
  /\ wire = <<>>
  /\ mta = "INIT"
  /\ wait = "none"

-----------------------------------------------------------------------------
(* The MTA *)

NoReply == {"ABORT", "QUIT", "QUIT_NC"}

\* What may follow in SMTP.  An MTA of the present protocol sends DATA before
\* the headers.
MayFollow ==
  [INIT |-> {"OPTNEG"}, OPTS |-> {"CONNECT"}, Q_NC |-> {"CONNECT"},
   CONN |-> {"HELO", "MAIL", "UNKNOWN", "QUIT", "QUIT_NC"},
   HELO |-> {"HELO", "MAIL", "UNKNOWN", "QUIT", "QUIT_NC"},
   ENDM |-> {"HELO", "MAIL", "UNKNOWN", "QUIT", "QUIT_NC"},
   MAIL |-> {"RCPT", "UNKNOWN", "ABORT"},
   RCPT |-> {"RCPT", "DATA", "UNKNOWN", "ABORT"},
   DATA |-> {"HEADER", "EOH", "ABORT"},
   HDRS |-> {"HEADER", "EOH", "ABORT"},
   EOHS |-> {"BODY", "EOB", "EOB_CHUNK", "ABORT"},
   BODY |-> {"BODY", "EOB", "EOB_CHUNK", "ABORT"},
   QUIT |-> {}]

MtaSends ==
  /\ mta # "gone" /\ wait = "none" /\ wire = <<>> /\ ~Ended
  /\ Len(sent) < MaxSent
  /\ \E c \in Commands \cap MayFollow[mta] :
       /\ sent' = Append(sent, c)
       /\ wait' = IF c \in NoReply THEN "none" ELSE c
       /\ mta' = CASE c = "ABORT" -> "HELO"
                   [] c = "UNKNOWN" -> mta
                   [] OTHER -> CommandState[c]
  /\ UNCHANGED <<engineVars, offer, aflags, hand, wire>>

\* A change is applied to the message.  A reply ends the wait, and a verdict the
\* message; one on a recipient or an unknown command concerns only that.
MtaReads ==
  /\ mta # "gone" /\ wire # <<>>
  /\ wire' = Tail(wire)
  /\ LET p == Head(wire) IN
       IF p.kind = "change"
       THEN UNCHANGED <<wait, mta>>
       ELSE /\ wait' = "none"
            /\ mta' = IF \/ p.what \in {"ACCEPT", "DISCARD"}
                         \/ p.what \in {"REJECT", "TEMPFAIL"} /\ p.of \notin {"RCPT", "UNKNOWN"}
                      THEN "HELO" ELSE mta
  /\ UNCHANGED <<engineVars, offer, aflags, sent, hand>>

\* The MTA closes the connection, because it has reason to or because it has
\* waited for too long; or it finds it closed.
MtaLeaves ==
  /\ mta # "gone"
  /\ "lost" \in Failures \/ Ended
  /\ mta' = "gone" /\ wait' = "none" /\ wire' = <<>>
  /\ UNCHANGED <<engineVars, offer, aflags, sent, hand>>

-----------------------------------------------------------------------------
(* The engine *)

Reads ==
  /\ sent # <<>>
  /\ LET c == Head(sent) IN Receive(c) \/ ReceiveFromHelo(c) \/ Ignore(c)
  /\ sent' = Tail(sent)
  /\ hand' = Head(sent)
  /\ UNCHANGED <<offer, aflags, wire, mta, wait>>

\* What is written while the MTA is there.
Write(s) == wire' = IF mta = "gone" THEN wire ELSE wire \o s

\* The replies to the command in hand that result r makes mi_engine write.
Replies(r) == [i \in 1..replies' |-> Reply(hand, r)]

\* Fault: the actions are read from the word of the protocol flags.
st_optionneg_Shifted ==
  /\ call = "negotiate"
  /\ Returns("OPTIONS")
  /\ aflags' = {"SKIP"}
  /\ Write(Replies("OPTIONS"))
  /\ UNCHANGED <<offer, sent, hand, mta, wait>>

\* st_optionneg; pmilter answers SMFIS_ALL_OPTS, and takes what is offered.
st_optionneg ==
  /\ call = "negotiate"
  /\ \/ /\ offer.vers < PROT_VERSION_MIN
        /\ Returns("ABORT")
        /\ UNCHANGED <<aflags, wire>>
     \/ /\ offer.vers >= PROT_VERSION_MIN
        /\ Returns("OPTIONS")
        /\ aflags' = IF offer.acts = {} THEN V1_ACTS ELSE offer.acts
        /\ Write(Replies("OPTIONS"))
  /\ UNCHANGED <<offer, sent, hand, mta, wait>>

CallbackReturns ==
  /\ call # "negotiate"
  /\ \E r \in Verdicts : Returns(r) /\ Write(Replies(r))
  /\ UNCHANGED <<offer, aflags, sent, hand, mta, wait>>

Finishes ==
  /\ GiveUp \/ AbortReturns \/ CloseReturns
  /\ UNCHANGED dialogueVars

\* Fault: the operation is allowed in any callback.
mi_sendok_Anytime(flag) == flag \in aflags

mi_sendok(flag) == flag \in aflags /\ state = "ENDM"

\* smfi_addheader, smfi_chgfrom, smfi_addrcpt_par, called by the script of the
\* callback that runs now.
Modify(flag) ==
  /\ abortFirst \/ call \in Callbacks
  /\ mi_sendok(flag)
  /\ mta # "gone" /\ Len(wire) < MaxWire
  /\ Write(<<Change(flag)>>)
  /\ UNCHANGED <<engineVars, offer, aflags, sent, hand, mta, wait>>

\* EOF or an error, once all commands were read; or the pool's time-out.
Breaks ==
  /\ sent = <<>>
  /\ Lost \/ Expired
  /\ UNCHANGED dialogueVars

EngineSteps == Reads \/ st_optionneg \/ CallbackReturns \/ Finishes

DialogueNext ==
  \/ MtaSends \/ MtaReads \/ MtaLeaves
  \/ Reads \/ st_optionneg \/ CallbackReturns \/ Finishes \/ Breaks
  \/ \E flag \in Modifications : Modify(flag)

DialogueSpec == DialogueInit /\ [][DialogueNext]_vars

\* A session with input is run (ReadyIsRun of WorkerPool), scripts end, and the
\* MTA reads what it is sent and notices the end of the connection.  Nothing
\* makes it send.
DialogueFair ==
  /\ DialogueSpec
  /\ WF_vars(EngineSteps)
  /\ WF_vars(MtaReads)
  /\ WF_vars(MtaLeaves /\ Ended)

-----------------------------------------------------------------------------
\* The type of the dialogue's state.
DialogueTypeOK ==
  /\ EngineTypeOK
  /\ offer \in Offers
  /\ aflags \subseteq AllActs
  /\ sent \in Seq(Commands) /\ Len(sent) <= MaxSent
  /\ hand \in Commands \cup {"none"}
  /\ wire \in Seq([kind : {"reply", "change"}, of : Commands \cup {"none"},
                   what : AllVerdicts \cup {"OPTIONS"} \cup AllActs])
  /\ mta \in States \cup {"gone"}
  /\ wait \in Commands \cup {"none"}

IsReply(p) == p.kind = "reply"

\* MTA and engine stay in step: a reply on the wire is the only one, and answers
\* the command the MTA waits for.  Otherwise it would take it for the reply to
\* its next command (sendreply, and the commands mi_engine does not reply to).
InStep ==
  \A i \in 1..Len(wire) : IsReply(wire[i]) =>
    /\ wait = wire[i].of
    /\ \A j \in 1..Len(wire) : IsReply(wire[j]) => i = j

\* A change of the message is of a kind the MTA offered, and gets to the MTA
\* while it waits for the reply to the end of the message, before that reply
\* (mi_sendok; smfi.c).  The exception is the close of a session that the engine
\* ends right after a message: its state is still ST_ENDM.
ChangesAtEom ==
  \A i \in 1..Len(wire) : wire[i].kind = "change" =>
    /\ wire[i].what \in (IF offer.acts = {} THEN V1_ACTS ELSE offer.acts)
    /\ \/ ending
       \/ /\ wait \in {"EOB", "EOB_CHUNK"}
          /\ \A j \in 1..i : ~IsReply(wire[j])

\* MTA and engine never wait for each other: when the engine has read and done
\* everything, and the MTA has read everything, it waits for no reply.
NoMutualWait ==
  Idle /\ sent = <<>> /\ wire = <<>> => wait = "none"

\* While the MTA transmits a message, the engine has it in progress: no verdict and
\* no command ends a message for the engine alone (CT_IGNO and call_abort in
\* mi_engine).  The converse does not hold: a DISCARD on a recipient
\* ends the message for the MTA only.
SameMessage ==
  Idle /\ sent = <<>> /\ wire = <<>> /\ InMail(mta) => tx = "open"

\* A bound on the steps the engine can take before it waits for the next command.
CallWork(cb) ==
  IF cb = "none" THEN 0
  ELSE IF cb \in {"abort", "close"} THEN 1
  ELSE IF cb = "eom" THEN 3
  ELSE 4

AbortWork(first) == IF first THEN 1 ELSE 0

Work == 6 * Len(sent) + CallWork(call) + AbortWork(abortFirst)

\* Every step of the engine brings it closer to the end of its work: mi_engine's
\* loop does not go round without a command, and a command's callbacks come to an
\* end.
EngineAdvances == [][EngineSteps => Work' < Work]_vars

\* Every command of the MTA is answered, or the connection ends: mi_engine's loop
\* comes back to sendreply whatever was read, called and returned.
Answered == wait # "none" ~> wait = "none"

=============================================================================
