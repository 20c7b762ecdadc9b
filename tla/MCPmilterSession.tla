-------------------------- MODULE MCPmilterSession --------------------------
(* Instances of PmilterSession for TLC. *)
EXTENDS PmilterSession

\* After UNKNOWN an eom script may read a recipient that is gone: see the README.
MailCommands == AllCommands \ {"UNKNOWN"}

\* A script for every callback but two.
MostScripts == Scriptable \ {"data", "eoh"}

MailMalformed == {"HELO", "RCPT", "HEADER"}

\* A connection on which the mail begins without HELO.
NoHelo == MailCommands \ {"HELO"}

\* An MTA that has come no further than CONNECT.
Opening == {"OPTNEG", "CONNECT"}

SomeBroken == {"helo", "envrcpt", "eom", "abort", "close"}

=============================================================================
