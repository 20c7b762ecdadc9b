-------------------------- MODULE MCMilterDialogue --------------------------
(* Instances of MilterDialogue for TLC. *)
EXTENDS MilterDialogue

\* Too old; of version 1, without flags; with some of a script's operations;
\* with all.
SomeOffers ==
  {[vers |-> 1, acts |-> {}], [vers |-> 2, acts |-> {}],
   [vers |-> 6, acts |-> {"ADDHDRS", "CHGHDRS"}], [vers |-> 6, acts |-> AllActs]}

\* QUIT_NC and a last chunk with the end of the body: see the README.
DialogueCommands == AllCommands \ {"QUIT_NC", "EOB_CHUNK"}

WithQuitNc == DialogueCommands \cup {"QUIT_NC"}

\* All but NOREPLY, which leaves the MTA waiting, and ALL_OPTS, to which
\* sendreply has no reply either.
Replying == AllVerdicts \ {"NOREPLY", "ALL_OPTS"}

\* A HELO that does not decode gets no reply.
DialogueMalformed == Decoded \ {"HELO"}

\* A command that has no reply, the next one, and its successor.
TwoSent == 2

\* Two changes and a reply.
ThreeWire == 3

=============================================================================
