--------------------------- MODULE BatchProtocol ---------------------------
(***************************************************************************)
(* What send_eventlog_ta_collect() promises to the two models that meet in *)
(* it: AuditQueue, which looks at the records above it, and                *)
(* CollectSession, which looks at the calls below it.  A batch needs a     *)
(* session; a session that cannot be opened, and a batch that fails, leave *)
(* none behind; a batch that is delivered leaves the session open.         *)
(***************************************************************************)
VARIABLES open,   \* there is a session with TA-Collect
          call    \* what the call under way is doing

batchVars == <<open, call>>

BatchInit == open = FALSE /\ call = "none"

Begin ==
  /\ call = "none"
  /\ call' = IF open THEN "sending" ELSE "opening"
  /\ open' = open

Opened    == call = "opening" /\ open' = TRUE  /\ call' = "sending"
NotOpened == call = "opening" /\ open' = FALSE /\ call' = "none"
Delivered == call = "sending" /\ open' = open  /\ call' = "none"
Failed    == call = "sending" /\ open' = FALSE /\ call' = "none"

BatchNext == Begin \/ Opened \/ NotOpened \/ Delivered \/ Failed

BatchSpec == BatchInit /\ [][BatchNext]_batchVars
=============================================================================
