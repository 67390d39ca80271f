----------------------------- MODULE MCProcess -----------------------------
(* The process has a fixed shape: only the number of signals is bounded.   *)
EXTENDS Process
=============================================================================
