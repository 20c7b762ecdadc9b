------------------------- MODULE MCMilterLifecycle --------------------------
(* Instances of MilterLifecycle for TLC. *)
EXTENDS MilterLifecycle

\* Enough for a second connection after the one the listener was accepting.
TwoClients == {"c1", "c2"}

\* The least number that lets a failure be tried again.
TwoFails == 2

=============================================================================
