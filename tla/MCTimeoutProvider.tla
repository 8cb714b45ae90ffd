------------------------- MODULE MCTimeoutProvider -------------------------
(* Two receivers of the same timeout, and threads that request it in any   *)
(* order.                                                                  *)
EXTENDS TimeoutProvider
=============================================================================
