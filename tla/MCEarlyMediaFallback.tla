------------------------- MODULE MCEarlyMediaFallback -------------------------
(* One call; the runs differ in how many commands may get no answer.       *)
EXTENDS EarlyMediaFallback
==============================================================================
