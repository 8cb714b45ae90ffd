-------------------------- MODULE SipDialogRegister --------------------------
(***************************************************************************)
(* The dialogs that register identities with their registrars, and how     *)
(* the dialog layer finds or makes the one that a proxy_register is for.   *)
(*                                                                         *)
(* Left out: provisional responses, which a14 absorbs; cancel_register,    *)
(* which nobody sends (a9); s5_failed never hears no_transactions (a13),   *)
(* because the dialog layer signals it in termwait only.                   *)
(***************************************************************************)
EXTENDS SipLayerDialog

VARIABLES
  rstate,       \* rstate[d]: the state of dialog d, "none" before it exists
  ident,        \* ident[d]: the identity it registers
  waiting,      \* waiting[d]: its REGISTER has not been answered
  registered,   \* registered[i]: currentlyRegistered of the identity
  expires,      \* expires[i]: registerExpires of its registrar
  refused       \* history, read by no step: refused[i] holds from an answer
                \* no transition is for until a REGISTER for i is sent or a
                \* 2xx to one taken

registerVars == <<rstate, ident, waiting, registered, expires, refused>>

RegisterState == {"none", "start", "trying", "registred", "askpassword", "failed"}
Expires == {"0", "default"}

(* The timeout proxy_register, which renews the registration.              *)
Refresh(d) == Command("refresh", d)

ProxyRegisters ==
  [op : {"proxy_register"}, to : Registers \cup {Nobody},
   identity : Identities \cup {Nobody}, expires : Expires \cup {"none"}]

(* The dialogs that take c: handleCommand compares the identity, or the    *)
(* domain when there is none; states other than these two have no          *)
(* transition for it.                                                      *)
Takes(c) ==
  {d \in Registers : /\ rstate[d] \in {"start", "registred"}
                     /\ c.to \in {d, Nobody}
                     /\ c.identity \in {ident[d], Nobody}}

(* Fault: a missing third parameter is taken for an expiry.                *)
SendsRegister_Unchecked(d, e) ==
  /\ rstate' = [rstate EXCEPT ![d] = "trying"]
  /\ waiting' = [waiting EXCEPT ![d] = TRUE]
  /\ expires' = [expires EXCEPT ![ident[d]] = e]
  /\ refused' = [refused EXCEPT ![ident[d]] = FALSE]
  /\ UNCHANGED <<ident, registered>>

(* setRegisterExpires, ++seqNo and sendRegister.                           *)
SendsRegister(d, e) ==
  /\ rstate' = [rstate EXCEPT ![d] = "trying"]
  /\ waiting' = [waiting EXCEPT ![d] = TRUE]
  /\ expires' = IF e = "none" THEN expires ELSE [expires EXCEPT ![ident[d]] = e]
  /\ refused' = [refused EXCEPT ![ident[d]] = FALSE]
  /\ UNCHANGED <<ident, registered>>

----------------------------------------------------------------------------
a0_start_trying_register(d) ==
  \E c \in ProxyRegisters :
    /\ Dispatched(c) /\ d \in Takes(c) /\ rstate[d] = "start"
    /\ SendsRegister(d, c.expires)
    /\ Enqueues(<<>>) /\ UNCHANGED <<running, armed, call>>

(* Fault: no timeout for the next REGISTER.                                *)
a1_NoRefresh(d) ==
  /\ Dispatched(Command("2xx", d)) /\ rstate[d] = "trying"
  /\ rstate' = [rstate EXCEPT ![d] = "registred"]
  /\ registered' = [registered EXCEPT ![ident[d]] = expires[ident[d]] # "0"]
  /\ refused' = [refused EXCEPT ![ident[d]] = FALSE]
  /\ Enqueues(<<Command("register_ok", Nobody)>>)
  /\ UNCHANGED <<armed, running, call, ident, waiting, expires>>

(* The identity is registered unless the expiry is 0 by now.               *)
a1_trying_registred_2xx(d) ==
  /\ Dispatched(Command("2xx", d)) /\ rstate[d] = "trying"
  /\ rstate' = [rstate EXCEPT ![d] = "registred"]
  /\ registered' = [registered EXCEPT ![ident[d]] = expires[ident[d]] # "0"]
  /\ refused' = [refused EXCEPT ![ident[d]] = FALSE]
  /\ Enqueues(<<Command("register_ok", Nobody)>>)
  /\ armed' = IF registered'[ident[d]] THEN armed \cup {Refresh(d)} ELSE armed
  /\ UNCHANGED <<running, call, ident, waiting, expires>>

(* updateAuthentications has found something new in the 401.               *)
a2_trying_trying_40x(d) ==
  /\ Dispatched(Command("401", d)) /\ rstate[d] = "trying"
  /\ SendsRegister(d, "none")
  /\ Enqueues(<<>>) /\ UNCHANGED <<running, armed, call>>

(* It has not: the user is asked.                                          *)
a3_trying_askpassword_40x(d) ==
  /\ Dispatched(Command("401", d)) /\ rstate[d] = "trying"
  /\ rstate' = [rstate EXCEPT ![d] = "askpassword"]
  /\ Enqueues(<<>>)
  /\ UNCHANGED <<running, armed, call, ident, waiting, registered, expires, refused>>

a5_askpassword_trying_setpassword(d) ==
  /\ Dispatched(Command("setpassword", d)) /\ rstate[d] = "askpassword"
  /\ SendsRegister(d, "none")
  /\ Enqueues(<<>>) /\ UNCHANGED <<running, armed, call>>

a10_trying_failed_transporterror(d) ==
  /\ Dispatched(Command("transport_error", d)) /\ rstate[d] = "trying"
  /\ rstate' = [rstate EXCEPT ![d] = "failed"]
  /\ registered' = [registered EXCEPT ![ident[d]] = FALSE]
  /\ Enqueues(<<>>)
  /\ UNCHANGED <<running, armed, call, ident, waiting, expires, refused>>

(* By a command of the user or of the management dialog, or by the timeout.*)
a12_registred_trying_proxyregister(d) ==
  /\ rstate[d] = "registred"
  /\ \/ \E c \in ProxyRegisters :
          Dispatched(c) /\ d \in Takes(c) /\ SendsRegister(d, c.expires)
     \/ Dispatched(Refresh(d)) /\ SendsRegister(d, "none")
  /\ armed' = armed \ {Refresh(d)}
  /\ Enqueues(<<>>) /\ UNCHANGED <<running, call>>

----------------------------------------------------------------------------
(* No dialog takes it.  The default handler makes one for the identity,    *)
(* and hands it the command; without an identity the command is lost.      *)
defaultHandler ==
  \E c \in ProxyRegisters :
    /\ Dispatched(c) /\ Takes(c) = {}
    /\ IF c.identity = Nobody
       THEN Enqueues(<<>>) /\ UNCHANGED <<rstate, ident>>
       ELSE \E d \in Registers :
              /\ rstate[d] = "none"
              /\ rstate' = [rstate EXCEPT ![d] = "start"]
              /\ ident' = [ident EXCEPT ![d] = c.identity]
              /\ Enqueues(<<[c EXCEPT !.to = d]>>)
    /\ UNCHANGED <<running, armed, call, waiting, registered, expires, refused>>

(* What else a dialog is given in a state without a transition for it: a   *)
(* timeout that was on its way, a password nobody waits for, and every     *)
(* final response other than 2xx, 401 and 407.  After one of those the     *)
(* dialog stays in trying, with no request out and no timeout.             *)
registerIgnores(d) ==
  /\ \/ Dispatched(Refresh(d)) /\ rstate[d] # "registred"
     \/ Dispatched(Command("setpassword", d)) /\ rstate[d] # "askpassword"
     \/ Dispatched(Command("36x", d))
  /\ Enqueues(<<>>)
  /\ UNCHANGED <<running, armed, call, registerVars>>

(* The transaction of the REGISTER hands up an answer, or timer F ends it. *)
Answered(d, r) ==
  /\ waiting[d] /\ waiting' = [waiting EXCEPT ![d] = FALSE]
  /\ high' = Append(high, Command(r, d))
  /\ refused' = [refused EXCEPT ![ident[d]] = @ \/ r = "36x"]
  /\ UNCHANGED <<running, armed, call, rstate, ident, registered, expires>>

RegisterSteps(d) ==
  \/ a0_start_trying_register(d) \/ a1_trying_registred_2xx(d)
  \/ a2_trying_trying_40x(d) \/ a3_trying_askpassword_40x(d)
  \/ a5_askpassword_trying_setpassword(d) \/ a10_trying_failed_transporterror(d)
  \/ a12_registred_trying_proxyregister(d) \/ registerIgnores(d)

(* Sip::run asks for the registration of every identity.                   *)
RegisterInit ==
  /\ high \in {[n \in DOMAIN s |-> ProxyRegister(Nobody, s[n], "none")] :
                 s \in Listings(Identities)}
  /\ rstate = [d \in Registers |-> "none"]
  /\ ident = [d \in Registers |-> Nobody]
  /\ waiting = [d \in Registers |-> FALSE]
  /\ registered = [i \in Identities |-> FALSE]
  /\ expires = [i \in Identities |-> "default"]
  /\ refused = [i \in Identities |-> FALSE]
=============================================================================
