--------------------------- MODULE MCMilterEngine ---------------------------
(* Instances of MilterEngine for TLC. *)
EXTENDS MilterEngine

\* What postfix and sendmail send for ordinary mail.
MailCommands == AllCommands \ {"UNKNOWN", "EOB_CHUNK"}

\* Everything but a MAIL that does not decode.
MailMalformed == Decoded \ {"MAIL"}

AnyMalformed == Decoded

WithUnknown == MailCommands \cup {"UNKNOWN"}

=============================================================================
