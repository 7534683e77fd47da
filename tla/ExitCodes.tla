----------------------------- MODULE ExitCodes ------------------------------
(***************************************************************************)
(* How an invocation of a tool stands: an exit status, or one of these.    *)
(***************************************************************************)
EXTENDS Integers

Running == -1   \* it has not ended
Killed == -2    \* by a signal
Crashed == -3   \* with the host
=============================================================================
