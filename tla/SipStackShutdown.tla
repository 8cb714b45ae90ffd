--------------------------- MODULE SipStackShutdown ---------------------------
(***************************************************************************)
(* A stack with its calls, its registrations and its management dialog,    *)
(* the user who commands them, and the peers that answer or do not.        *)
(***************************************************************************)
EXTENDS SipDialogManagement

CONSTANT MaxInputs  \* bound: commands of the user and renewals of registrations

ASSUME MaxInputsAssumption == MaxInputs \in Nat

VARIABLE
  inputs            \* how many there were

vars == <<layerVars, registerVars, managementVars, inputs>>

----------------------------------------------------------------------------
(* Sip::stop, sendManagementCommand of the console, the register and       *)
(* unregister of an account, a password, and a hang-up.                    *)
UserCommands ==
  {Management(op) : op \in {"sip_stack_shutdown", "terminate_all_calls",
                            "unregister_all_identities", "register_all_identities"}}
  \cup {ProxyRegister(Nobody, i, e) : i \in Identities, e \in Expires}
  \cup {Command("setpassword", d) : d \in {r \in Registers : rstate[r] = "askpassword"}}
  \cup {Command("hang_up", c) : c \in CallDialogs}

(* Bound: a dialog is left for each registration that is asked for.        *)
DialogLeft ==
  Cardinality({d \in Registers : rstate[d] = "none"})
    > Cardinality({n \in DOMAIN high : high[n].op = "proxy_register"})

User ==
  /\ inputs < MaxInputs /\ inputs' = inputs + 1
  /\ \E c \in UserCommands :
       /\ c.op = "proxy_register" => DialogLeft
       /\ high' = Append(high, c)
  /\ UNCHANGED <<running, armed, call, registerVars, managementVars>>

(* Registrations expire late: only so many are renewed.                    *)
Renewal(d) ==
  /\ inputs < MaxInputs /\ inputs' = inputs + 1
  /\ handleTimeout(Refresh(d)) /\ UNCHANGED <<registerVars, managementVars>>

Peers ==
  /\ \/ \E d \in Registers, r \in {"2xx", "401", "36x", "transport_error"} : Answered(d, r)
     \/ \E c \in Calls :
          /\ CallGoesOn(c) \/ a1003_byerequest_termwait(c)
             \/ a1101_termwait_terminated_notransactions(c)
          /\ UNCHANGED registerVars
  /\ UNCHANGED <<managementVars, inputs>>

(* One round of SipCommandDispatcher::run.                                 *)
Dispatcher ==
  /\ \/ Shutdown \/ Operations \/ managementIgnores
     \/ /\ \/ defaultHandler
           \/ \E d \in Registers : RegisterSteps(d)
           \/ \E c \in Calls : (hang_up(c) \/ removeDialog(c)) /\ UNCHANGED registerVars
        /\ UNCHANGED managementVars
  /\ UNCHANGED inputs

(* The thread of the TimeoutProvider.                                      *)
TimeIsUp(t) ==
  handleTimeout(Management(t)) /\ UNCHANGED <<registerVars, managementVars, inputs>>

Timeouts == {Management(t) : t \in Timers} \cup {Refresh(d) : d \in Registers}

Init == LayerInit /\ RegisterInit /\ ManagementInit /\ inputs = 0

Next ==
  \/ User \/ Peers \/ Dispatcher
  \/ \E d \in Registers : Renewal(d)
  \/ \E t \in Timers : TimeIsUp(t)

Spec == Init /\ [][Next]_vars

(* The dispatcher and the thread of the timeouts work.  Peers and the user *)
(* owe nothing.                                                            *)
FairSpec ==
  /\ Spec /\ WF_vars(Dispatcher)
  /\ \A t \in Timers : WF_vars(TimeIsUp(t))

----------------------------------------------------------------------------
(* What takes a shutdown out of each of its states.                        *)
Needed ==
  [start_shutdown |-> {Management("terminate_all_calls")},
   terminateCalls_shutdown |->
     {Management("timer_terminate_calls"), Management("terminate_all_calls_done"),
      Management("unregister_all_identities")},
   deRegisterAll_shutdown |->
     {Management("timer_deRegisterAll"), Management("sip_stack_shutdown_done")}]

(* A shutdown that has begun does not get stuck: whatever the calls and    *)
(* the registrations do, the command or the timeout that takes it to its   *)
(* next state is on its way.                                               *)
ShutdownGoesOn ==
  running /\ mstate \in ShutdownState => \E c \in Needed[mstate] : Pending(c)

(* A shutdown that has begun ends, with peers that never answer.           *)
ShutdownEnds == mstate \in ShutdownState ~> ~running

(* What the comment of a0 promises of the shutdown: it always finishes.    *)
ShutdownAlwaysFinishes == InQueue(Management("sip_stack_shutdown")) ~> ~running

(* The dialogs of calls go their way under the commands of the management  *)
(* dialog and those of the user: what is queued for a call that has ended  *)
(* meanwhile does not bring it back, and a dialog is removed once, when it *)
(* has terminated.                                                         *)
CallsKeepOutline == OutlineSpec

(* An identity that is shown as registered is kept so: one of its dialogs  *)
(* will renew the registration or is at it.  Its REGISTER is out or the    *)
(* answer to it is on its way to a transition that is there for it, or the *)
(* user is asked for a password.  The one way out is an answer that the    *)
(* code does not handle: the identity stays as it was shown, with nothing  *)
(* to come, until somebody asks for its registration.                      *)
Outstanding(d) ==
  /\ rstate[d] = "trying"
  /\ waiting[d] \/ \E r \in {"2xx", "401", "transport_error"} : InQueue(Command(r, d))
Renews(d) ==
  \/ Outstanding(d) \/ rstate[d] = "askpassword"
  \/ rstate[d] = "registred" /\ Pending(Refresh(d))
RegistrationKeptAlive ==
  \A i \in Identities :
    registered[i] /\ ~refused[i] => \E d \in Registers : ident[d] = i /\ Renews(d)

(* The types; the queue holds nothing but what its receivers know.         *)
Commands ==
  [op : ManagementOps \cup {"sip_stack_shutdown_done"}, to : {Nobody}]
  \cup [op : {"hang_up", "call_terminated"}, to : Calls]
  \cup [op : {"2xx", "401", "36x", "transport_error", "setpassword", "refresh"}, to : Registers]
  \cup ProxyRegisters
TypeOK ==
  /\ high \in Seq(Commands) /\ armed \subseteq Timeouts
  /\ running \in BOOLEAN
  /\ call \in [Calls -> CallState]
  /\ rstate \in [Registers -> RegisterState]
  /\ ident \in [Registers -> Identities \cup {Nobody}]
  /\ waiting \in [Registers -> BOOLEAN] /\ refused \in [Identities -> BOOLEAN]
  /\ registered \in [Identities -> BOOLEAN] /\ expires \in [Identities -> Expires]
  /\ mstate \in {"start"} \cup ShutdownState \cup OpsState
  /\ pendingHangUps \in Int /\ pendingDeRegs \in Int
=============================================================================
