------------------------------ MODULE MCShutdown ------------------------------
(* A call and a registration under a shutdown, or registrations alone with *)
(* as many dialogs as the commands of the user can make.                   *)
EXTENDS SipStackShutdown
=============================================================================
