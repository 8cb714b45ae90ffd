------------------------- MODULE SipDialogManagement -------------------------
(***************************************************************************)
(* The management dialog: it shuts the stack down (a), hangs up all calls  *)
(* (b), and withdraws (c) or makes (d) all registrations.                  *)
(*                                                                         *)
(* The dispatcher hands it its commands whatever their outcome: one that   *)
(* it has no transition for is lost.  The timeouts of the operations are   *)
(* expected from the dispatcher (b12, c12, d12), but timeouts come from    *)
(* the dialog layer: these three transitions never fire, and the timeouts  *)
(* are lost.  a30 does not fire either, as sip_stack_shutdown_done is not  *)
(* handed on.                                                              *)
(***************************************************************************)
EXTENDS SipDialogRegister

VARIABLES
  mstate,           \* the state of the management dialog
  pendingHangUps,   \* how many calls have yet to end
  pendingDeRegs     \* how many REGISTERs have yet to succeed

managementVars == <<mstate, pendingHangUps, pendingDeRegs>>

ShutdownState == {"start_shutdown", "terminateCalls_shutdown", "deRegisterAll_shutdown"}
OpsState == {"terminateCalls_ops", "deRegAll_ops", "regAll_ops"}

Management(op) == Command(op, Nobody)
Timers == {"timer_terminate_calls", "timer_deRegisterAll", "timer_registerAll"}

Goes(op, from, to) ==
  /\ Dispatched(Management(op))
  /\ mstate = from /\ mstate' = to

Requests(t) == armed' = armed \cup {Management(t)}
Cancels(t) == armed' = armed \ {Management(t)}

(* No dialog but this one takes part in the step.                          *)
Alone == UNCHANGED <<call, registerVars>>

----------------------------------------------------------------------------
(* terminateAllCalls: all dialogs that are not registrations, early and    *)
(* ended ones included.  n is the count to start from.                     *)
terminateAllCalls(n) ==
  \E s \in Listings(CallDialogs) :
    /\ pendingHangUps' = n + Len(s)
    /\ Enqueues([k \in DOMAIN s |-> Command("hang_up", s[k])]
                \o IF n + Len(s) <= 0
                   THEN <<Management("terminate_all_calls_done")>> ELSE <<>>)

receivedCallTerminateEarly ==
  /\ pendingHangUps' = pendingHangUps - 1
  /\ Enqueues(IF pendingHangUps' <= 0
              THEN <<Management("terminate_all_calls_done")>> ELSE <<>>)

(* registerAll and deRegisterAll: every dialog whose identity is, or is    *)
(* not, registered is sent a proxy_register.  Both announce unregistration *)
(* when there is none.                                                     *)
RegistersAll(n, is, e) ==
  \E s \in Listings({d \in Registers : rstate[d] # "none" /\ registered[ident[d]] = is}) :
    /\ pendingDeRegs' = n + Len(s)
    /\ Enqueues([k \in DOMAIN s |-> ProxyRegister(s[k], Nobody, e)]
                \o IF n + Len(s) = 0
                   THEN <<Management("unregister_all_identities_done")>> ELSE <<>>)

deRegisterAll(n) == RegistersAll(n, TRUE, "0")
registerAll(n) == RegistersAll(n, FALSE, "default")

receivedRegisterOk(done) ==
  /\ pendingDeRegs' = pendingDeRegs - 1
  /\ Enqueues(IF pendingDeRegs' <= 0 THEN <<Management(done)>> ELSE <<>>)

shutdownDone(force) ==
  Enqueues(IF ~force /\ (pendingHangUps > 0 \/ pendingDeRegs > 0)
           THEN <<>> ELSE <<Management("sip_stack_shutdown_done")>>)

----------------------------------------------------------------------------
(* Shutdown.                                                               *)

a0_start_startShutdown_startShutdown ==
  /\ Goes("sip_stack_shutdown", "start", "start_shutdown")
  /\ pendingHangUps' = 0 /\ pendingDeRegs' = 0
  /\ Enqueues(<<Management("terminate_all_calls")>>)
  /\ UNCHANGED <<running, armed>> /\ Alone

(* Fault: no timer limits the wait.                                        *)
a10_NoTimer ==
  /\ Goes("terminate_all_calls", "start_shutdown", "terminateCalls_shutdown")
  /\ terminateAllCalls(pendingHangUps)
  /\ UNCHANGED <<running, pendingDeRegs, armed>> /\ Alone

a10_startSh_terminateCallsSh_terminateAll ==
  /\ Goes("terminate_all_calls", "start_shutdown", "terminateCalls_shutdown")
  /\ terminateAllCalls(pendingHangUps)
  /\ Requests("timer_terminate_calls")
  /\ UNCHANGED <<running, pendingDeRegs>> /\ Alone

a11_terminateCallsSh_callTerminatedEarly ==
  /\ Goes("call_terminated_early", "terminateCalls_shutdown", "terminateCalls_shutdown")
  /\ receivedCallTerminateEarly
  /\ UNCHANGED <<running, armed, pendingDeRegs>> /\ Alone

(* Fault: the time is given once more.                                     *)
a12_WaitsAgain ==
  /\ Goes("timer_terminate_calls", "terminateCalls_shutdown", "terminateCalls_shutdown")
  /\ Requests("timer_terminate_calls") /\ Enqueues(<<>>)
  /\ UNCHANGED <<running, pendingHangUps, pendingDeRegs>> /\ Alone

a12_terminateCallsSh_timeIsUp ==
  /\ Goes("timer_terminate_calls", "terminateCalls_shutdown", "terminateCalls_shutdown")
  /\ Enqueues(<<Management("unregister_all_identities")>>)
  /\ UNCHANGED <<running, armed, pendingHangUps, pendingDeRegs>> /\ Alone

a13_terminateCallsSh_allTerminated ==
  /\ Goes("terminate_all_calls_done", "terminateCalls_shutdown", "terminateCalls_shutdown")
  /\ Cancels("timer_terminate_calls")
  /\ Enqueues(<<Management("unregister_all_identities")>>)
  /\ UNCHANGED <<running, pendingHangUps, pendingDeRegs>> /\ Alone

a20_terminateCallsSh_deRegAllSh_allTerminated ==
  /\ Goes("unregister_all_identities", "terminateCalls_shutdown", "deRegisterAll_shutdown")
  /\ Requests("timer_deRegisterAll")
  /\ deRegisterAll(pendingDeRegs)
  /\ UNCHANGED <<running, pendingHangUps>> /\ Alone

a21_deRegAllSh_callTerminatedEarly ==
  /\ Goes("call_terminated_early", "deRegisterAll_shutdown", "deRegisterAll_shutdown")
  /\ receivedCallTerminateEarly
  /\ UNCHANGED <<running, armed, pendingDeRegs>> /\ Alone

a22_deRegAllSh_registerOk ==
  /\ Goes("register_ok", "deRegisterAll_shutdown", "deRegisterAll_shutdown")
  /\ receivedRegisterOk("unregister_all_identities_done")
  /\ UNCHANGED <<running, armed, pendingHangUps>> /\ Alone

a23_deRegAllSh_timeIsUp ==
  /\ Goes("timer_deRegisterAll", "deRegisterAll_shutdown", "deRegisterAll_shutdown")
  /\ shutdownDone(TRUE)
  /\ UNCHANGED <<running, armed, pendingHangUps, pendingDeRegs>> /\ Alone

a24_deRegAllSh_deRegAlldone ==
  /\ Goes("unregister_all_identities_done", "deRegisterAll_shutdown", "deRegisterAll_shutdown")
  /\ shutdownDone(FALSE)
  /\ UNCHANGED <<running, armed, pendingHangUps, pendingDeRegs>> /\ Alone

a25_deRegAllSh_allTerminated ==
  /\ Goes("terminate_all_calls_done", "deRegisterAll_shutdown", "deRegisterAll_shutdown")
  /\ shutdownDone(FALSE)
  /\ UNCHANGED <<running, armed, pendingHangUps, pendingDeRegs>> /\ Alone

(* The dispatcher handles this command itself and stops.                   *)
stopRunning ==
  /\ Dispatched(Management("sip_stack_shutdown_done"))
  /\ running' = FALSE /\ Enqueues(<<>>)
  /\ UNCHANGED <<armed, managementVars>> /\ Alone

Shutdown ==
  \/ a0_start_startShutdown_startShutdown
  \/ a10_startSh_terminateCallsSh_terminateAll
  \/ a11_terminateCallsSh_callTerminatedEarly
  \/ a12_terminateCallsSh_timeIsUp \/ a13_terminateCallsSh_allTerminated
  \/ a20_terminateCallsSh_deRegAllSh_allTerminated
  \/ a21_deRegAllSh_callTerminatedEarly \/ a22_deRegAllSh_registerOk
  \/ a23_deRegAllSh_timeIsUp \/ a24_deRegAllSh_deRegAlldone
  \/ a25_deRegAllSh_allTerminated \/ stopRunning

----------------------------------------------------------------------------
(* The operations.                                                         *)

b0_start_terminateCallsOps_terminateAll ==
  /\ Goes("terminate_all_calls", "start", "terminateCalls_ops")
  /\ pendingDeRegs' = 0 /\ terminateAllCalls(0)
  /\ Requests("timer_terminate_calls")
  /\ UNCHANGED running /\ Alone

b11_terminateCallsOps_terminateEarly ==
  /\ Goes("call_terminated_early", "terminateCalls_ops", "terminateCalls_ops")
  /\ receivedCallTerminateEarly
  /\ UNCHANGED <<running, armed, pendingDeRegs>> /\ Alone

b30_terminateCallsOps_start_terminateAllDone ==
  /\ Goes("terminate_all_calls_done", "terminateCalls_ops", "start")
  /\ Cancels("timer_terminate_calls")
  /\ Enqueues(<<>>) /\ UNCHANGED <<running, pendingHangUps, pendingDeRegs>> /\ Alone

c0_start_deRegAllOps_deRegAll ==
  /\ Goes("unregister_all_identities", "start", "deRegAll_ops")
  /\ pendingHangUps' = 0 /\ deRegisterAll(0)
  /\ Requests("timer_deRegisterAll")
  /\ UNCHANGED running /\ Alone

c11_deRegAllOps_registerOk ==
  /\ Goes("register_ok", "deRegAll_ops", "deRegAll_ops")
  /\ receivedRegisterOk("unregister_all_identities_done")
  /\ UNCHANGED <<running, armed, pendingHangUps>> /\ Alone

c30_deRegAllOps_start_deRegAllDone ==
  /\ Goes("unregister_all_identities_done", "deRegAll_ops", "start")
  /\ Cancels("timer_deRegisterAll")
  /\ Enqueues(<<>>) /\ UNCHANGED <<running, pendingHangUps, pendingDeRegs>> /\ Alone

d0_start_regAllOps_regAll ==
  /\ Goes("register_all_identities", "start", "regAll_ops")
  /\ pendingHangUps' = 0 /\ registerAll(0)
  /\ Requests("timer_registerAll")
  /\ UNCHANGED running /\ Alone

d11_regAllOps_registerOk ==
  /\ Goes("register_ok", "regAll_ops", "regAll_ops")
  /\ receivedRegisterOk("register_all_identities_done")
  /\ UNCHANGED <<running, armed, pendingHangUps>> /\ Alone

d30_regAllOps_start_regAllDone ==
  /\ Goes("register_all_identities_done", "regAll_ops", "start")
  /\ Cancels("timer_registerAll")
  /\ Enqueues(<<>>) /\ UNCHANGED <<running, pendingHangUps, pendingDeRegs>> /\ Alone

Operations ==
  \/ b0_start_terminateCallsOps_terminateAll \/ b11_terminateCallsOps_terminateEarly
  \/ b30_terminateCallsOps_start_terminateAllDone
  \/ c0_start_deRegAllOps_deRegAll \/ c11_deRegAllOps_registerOk
  \/ c30_deRegAllOps_start_deRegAllDone
  \/ d0_start_regAllOps_regAll \/ d11_regAllOps_registerOk
  \/ d30_regAllOps_start_regAllDone

----------------------------------------------------------------------------
(* The commands a state has a transition for.                              *)
Understands ==
  [start |-> {"sip_stack_shutdown", "terminate_all_calls",
              "unregister_all_identities", "register_all_identities"},
   start_shutdown |-> {"terminate_all_calls"},
   terminateCalls_shutdown |-> {"call_terminated_early", "timer_terminate_calls",
                                "terminate_all_calls_done", "unregister_all_identities"},
   deRegisterAll_shutdown |-> {"call_terminated_early", "register_ok", "timer_deRegisterAll",
                               "unregister_all_identities_done", "terminate_all_calls_done"},
   terminateCalls_ops |-> {"call_terminated_early", "terminate_all_calls_done"},
   deRegAll_ops |-> {"register_ok", "unregister_all_identities_done"},
   regAll_ops |-> {"register_ok", "register_all_identities_done"}]

ManagementOps ==
  {"sip_stack_shutdown", "register_all_identities", "register_all_identities_done",
   "unregister_all_identities", "unregister_all_identities_done", "terminate_all_calls",
   "terminate_all_calls_done", "call_terminated_early", "register_ok"} \cup Timers

(* A command in another state is lost, for good.                           *)
managementIgnores ==
  \E op \in ManagementOps \ Understands[mstate] :
    /\ Dispatched(Management(op))
    /\ Enqueues(<<>>) /\ UNCHANGED <<running, armed, managementVars>> /\ Alone

ManagementInit == mstate = "start" /\ pendingHangUps = 0 /\ pendingDeRegs = 0
=============================================================================
