--------------------------- MODULE MilterContract ---------------------------
(***************************************************************************)
(* What mfapi.h promises the author of a filter about one MTA connection,  *)
(* whatever commands lead to it: a message is announced by xxfi_envfrom    *)
(* and gets exactly one end, by a verdict, by xxfi_eom or by xxfi_abort;   *)
(* after an xxfi_connect an xxfi_close comes before the next one and       *)
(* before the session is gone, and no message outlives its connection.     *)
(* (An xxfi_close without an xxfi_connect is not excluded.)                *)
(***************************************************************************)
VARIABLES
  connection, \* xxfi_connect was invoked, and no xxfi_close since
  message,    \* the last message that xxfi_envfrom announced
  over        \* the session is gone: no callback will be invoked again

contractVars == <<connection, message, over>>

ContractInit ==
  /\ connection = FALSE
  /\ message = "none"
  /\ over = FALSE

\* xxfi_connect: "Invoked on each connection".
Connects ==
  /\ ~over
  /\ ~connection
  /\ message # "open"
  /\ connection' = TRUE
  /\ UNCHANGED <<message, over>>

\* xxfi_envfrom, which may decide at once about the message it announces.
Announces ==
  /\ ~over
  /\ message # "open"
  /\ message' \in {"open", "decided"}
  /\ UNCHANGED <<connection, over>>

\* A verdict, after which "no further routines will be called for this
\* message"; or one of xxfi_eom and xxfi_abort: if one "is called," the other
\* "will not be called and vice versa".
Ends ==
  /\ ~over
  /\ message = "open"
  /\ message' \in {"decided", "eom", "aborted"}
  /\ UNCHANGED <<connection, over>>

\* xxfi_close: "Invoked at end of the connection".  After SMFIC_QUIT_NC
\* another connection may follow in the same session.
Closes ==
  /\ ~over
  /\ message # "open"
  /\ connection' = FALSE
  /\ over' \in BOOLEAN
  /\ UNCHANGED message

ContractNext == Connects \/ Announces \/ Ends \/ Closes

ContractSpec == ContractInit /\ [][ContractNext]_contractVars

=============================================================================
