--------------------------- MODULE MCVpsLifecycle ---------------------------
(* VpsLifecycle for TLC: sets of commands and of failures for its runs.     *)
EXTENDS VpsLifecycle

\* Everything goes wrong.
MCOps == AllOps
MCFaults == AllFaults

\* No crash, and a start that is never waited for: the dump is looked after.
CalmFaults == AllFaults \ {"wait", "kill", "unlink"}

StartStop == {"start", "stop"}
StartSuspend == {"start", "stop", "suspend"}
=============================================================================
