---------------------------- MODULE SipDialogVoip ----------------------------
(***************************************************************************)
(* What the two dialogs of a call share: their state, the transactions     *)
(* below them, and the part of the dialog that SipDialogVoip.cxx wires up, *)
(* from an established call to its end.  The transaction layer appears as  *)
(* the contract that SipLayerTransaction checks: a request is given to the *)
(* peer at most once, a client is given one final response or a transport  *)
(* error, and its transaction ends after that.  A message may be late, may *)
(* overtake another one, or may never arrive.                              *)
(***************************************************************************)
EXTENDS Naturals, FiniteSets

CONSTANTS
  GiveUp,     \* firings of ResendTimer1xx until 64*T1 is reached
  Scenarios   \* what calls may make use of; a call is one of these

ASSUME GiveUpAssumption == GiveUp \in Nat \ {0}
ASSUME ScenariosAssumption ==
  Scenarios \subseteq SUBSET {"100rel", "transfer", "challenge", "early_bye"}

Dialogs == {"client", "server"}
Other(d) == CHOOSE o \in Dialogs : o # d

(* INVITE2 is the INVITE sent again with credentials; a dialog sends one   *)
(* BYE and (a bound) transfers once.                                       *)
Invites == {"INVITE", "INVITE2"}
Pracks == {"PRACK1", "PRACK2"}
ByClient == Invites \cup Pracks \cup {"CANCEL", "BYEc", "REFERc"}
ByServer == {"BYEs", "REFERs"}
Request == ByClient \cup ByServer
From(r) == IF r \in ByClient THEN "client" ELSE "server"
Bye(d) == IF d = "client" THEN "BYEc" ELSE "BYEs"
Refer(d) == IF d = "client" THEN "REFERc" ELSE "REFERs"

Provisional == {"183", "180"}
Final == {"2xx", "401", "36x"}

DialogState ==
  {"start", "calling", "100rel", "ringing", "incall", "bye_request",
   "transferrequested", "transferpending", "transferaskuser",
   "transferstarted", "termwait", "terminated"}

VARIABLES
  scenario,        \* what this call makes use of
  dstate,          \* current_state of each dialog
  isTerminated,    \* dialogState.isTerminated
  remoteTag,       \* dialogState.remoteTag is not empty
  lastInvite,      \* "none" or the INVITE the dialog is about
  media,           \* the media session is started
  gui,             \* the last that the user knows of the call: shown, ended
  noTransactions,  \* no_transactions is queued for the dialog
  cl,              \* the client transaction of each request
  sv,              \* the server transaction of each request
  resp,            \* the responses given to each request
  timedOut         \* requests whose client transaction gave up

dialogVars == <<dstate, isTerminated, remoteTag, lastInvite, media, gui>>
baseVars == <<dialogVars, noTransactions, cl, sv, resp, timedOut, scenario>>

(* SipStackConfig::use100Rel of both stacks.                               *)
use100Rel == "100rel" \in scenario

BaseInit ==
  /\ scenario \in Scenarios
  /\ dstate = [d \in Dialogs |-> "start"]
  /\ isTerminated = [d \in Dialogs |-> FALSE]
  /\ remoteTag = [d \in Dialogs |-> FALSE]
  /\ lastInvite = [d \in Dialogs |-> "none"]
  /\ media = [d \in Dialogs |-> FALSE]
  /\ gui = [d \in Dialogs |-> "none"]
  /\ noTransactions = [d \in Dialogs |-> FALSE]
  /\ cl = [r \in Request |-> "none"]
  /\ sv = [r \in Request |-> "none"]
  /\ resp = [r \in Request |-> {}]
  /\ timedOut = {}

----------------------------------------------------------------------------
(* What handlers do.  The command call_terminated_early, which a1003 and   *)
(* a1102 send to the dispatcher, is for the management dialog and not part *)
(* of the call.                                                            *)
Become(d, s, on, tell) ==
  /\ dstate' = [dstate EXCEPT ![d] = s]
  /\ media' = [media EXCEPT ![d] = on]
  /\ gui' = [gui EXCEPT ![d] = tell]

(* The requests rs go to the transaction layer, which makes a client       *)
(* transaction of each.  A second CANCEL has the branch of the first one.  *)
Sent(rs) == {r \in rs : cl[r] = "none"}
Sends(rs) == cl' = [r \in Request |-> IF r \in Sent(rs) THEN "trying" ELSE cl[r]]

(* A handler runs for the request r, and the responses in answers go back: *)
(* answers maps requests to a response.  A request that has just arrived   *)
(* has a transaction from then on; nothing else makes one.  A response for *)
(* which no server transaction waits, because it has been answered or is   *)
(* gone, is dropped by the transaction layer.                              *)
Waits(r, q) == sv[q] = "trying" \/ (q = r /\ sv[q] = "none")
Answers(r, answers) ==
  /\ sv' = [q \in Request |->
              IF q \in DOMAIN answers /\ Waits(r, q) /\ answers[q] \in Final
                THEN "completed"
              ELSE IF q = r /\ sv[q] = "none" THEN "trying" ELSE sv[q]]
  /\ resp' = [q \in Request |->
                IF q \in DOMAIN answers /\ Waits(r, q)
                  THEN resp[q] \cup {answers[q]} ELSE resp[q]]

Answer(q, c) == [x \in {q} |-> c]
NoAnswer == [x \in {} |-> "180"]

(* getTransactions() of the dialog.                                        *)
Live(d) ==
  {r \in Request : \/ From(r) = d /\ cl[r] \in {"trying", "proceeding", "completed"}
                   \/ From(r) # d /\ sv[r] \in {"trying", "completed"}}

(* Fault: the end of the last transaction is never signalled once the      *)
(* dialog waits in termwait for it.                                        *)
SignalIfNoTransactions_NotInTermwait(d, ended) ==
  noTransactions' =
    [noTransactions EXCEPT ![d] = @ \/ (isTerminated'[d] /\ Live(d) \subseteq ended)]

(* The handlers call this before setCurrentState has run, the transaction  *)
(* layer calls it after a transaction has been removed.                    *)
SignalIfNoTransactions(d, ended) ==
  noTransactions' =
    [noTransactions EXCEPT
       ![d] = @ \/ ((isTerminated'[d] \/ dstate[d] = "termwait")
                    /\ Live(d) \subseteq ended)]

(* A packet from the peer reaches the dialog.  It is not yet among the     *)
(* live transactions of the state before the step.                         *)
Arrives(r, d) == From(r) # d /\ cl[r] # "none" /\ sv[r] = "none"
NoSignal == UNCHANGED noTransactions

(* A final response, or a provisional one, from the transaction layer.     *)
Receives(r, d, c) ==
  /\ From(r) = d /\ cl[r] \in {"trying", "proceeding"} /\ c \in resp[r]
  /\ c \in Provisional => r \in Invites
Progress(r, c) == IF c \in Final THEN "completed" ELSE "proceeding"

----------------------------------------------------------------------------
InCall == {"incall", "transferpending", "transferstarted"}

(* Fault: the media session runs on after the BYE of the peer.             *)
a1001_KeepsMedia(d) ==
  LET r == Bye(Other(d)) IN
  /\ Arrives(r, d) /\ dstate[d] \in InCall /\ remoteTag[d]
  /\ Become(d, "termwait", media[d], "ended")
  /\ Answers(r, Answer(r, "2xx"))
  /\ NoSignal
  /\ UNCHANGED <<isTerminated, remoteTag, lastInvite, cl, timedOut>>

(* Fault: the GUI is not told that the peer has hung up.                   *)
a1001_TellsNobody(d) ==
  LET r == Bye(Other(d)) IN
  /\ Arrives(r, d) /\ dstate[d] \in InCall /\ remoteTag[d]
  /\ Become(d, "termwait", FALSE, gui[d])
  /\ Answers(r, Answer(r, "2xx"))
  /\ NoSignal
  /\ UNCHANGED <<isTerminated, remoteTag, lastInvite, cl, timedOut>>

(* signalIfNoTransactions finds the transaction of the BYE at least.       *)
a1001_incall_termwait_BYE(d) ==
  LET r == Bye(Other(d)) IN
  /\ Arrives(r, d) /\ dstate[d] \in InCall /\ remoteTag[d]
  /\ Become(d, "termwait", FALSE, "ended")
  /\ Answers(r, Answer(r, "2xx"))
  /\ NoSignal
  /\ UNCHANGED <<isTerminated, remoteTag, lastInvite, cl, timedOut>>

(* Fault: the BYE is not sent.                                             *)
a1002_NoBye(d) ==
  /\ dstate[d] \in InCall
  /\ Become(d, "bye_request", FALSE, "ended")
  /\ UNCHANGED <<isTerminated, remoteTag, lastInvite, cl, sv, resp, timedOut>>
  /\ SignalIfNoTransactions(d, {})

a1002_incall_byerequest_hangup(d) ==
  /\ dstate[d] \in InCall
  /\ Sends({Bye(d)})
  /\ Become(d, "bye_request", FALSE, "ended")
  /\ UNCHANGED <<isTerminated, remoteTag, lastInvite, sv, resp, timedOut>>
  /\ SignalIfNoTransactions(d, {})

(* The handler takes the final response of any request of the dialog, not  *)
(* only that of the BYE.                                                   *)
a1003_byerequest_termwait_26(d) ==
  \E r \in Request, c \in Final :
    /\ Receives(r, d, c) /\ dstate[d] = "bye_request"
    /\ cl' = [cl EXCEPT ![r] = Progress(r, c)]
    /\ Become(d, "termwait", media[d], "ended")
    /\ isTerminated' = [isTerminated EXCEPT ![d] = TRUE]
    /\ UNCHANGED <<remoteTag, lastInvite, noTransactions, sv, resp, timedOut>>

a1101_termwait_terminated_notransactions(d) ==
  /\ noTransactions[d] /\ dstate[d] = "termwait"
  /\ noTransactions' = [noTransactions EXCEPT ![d] = FALSE]
  /\ Become(d, "terminated", media[d], gui[d])
  /\ isTerminated' = [isTerminated EXCEPT ![d] = TRUE]
  /\ lastInvite' = [lastInvite EXCEPT ![d] = "none"]
  /\ UNCHANGED <<remoteTag, cl, sv, resp, timedOut>>

----------------------------------------------------------------------------
(* Call transfer.                                                          *)
a1201_incall_transferrequested_transfer(d) ==
  /\ dstate[d] = "incall" /\ cl[Refer(d)] = "none" /\ "transfer" \in scenario
  /\ Sends({Refer(d)})
  /\ Become(d, "transferrequested", media[d], gui[d])
  /\ UNCHANGED <<isTerminated, remoteTag, lastInvite, noTransactions,
                 sv, resp, timedOut>>

(* "202": the 2xx of the REFER.                                            *)
a1202_transferrequested_transferpending_202(d) ==
  /\ Receives(Refer(d), d, "2xx") /\ dstate[d] = "transferrequested"
  /\ cl' = [cl EXCEPT ![Refer(d)] = "completed"]
  /\ Become(d, "transferpending", FALSE, gui[d])
  /\ UNCHANGED <<isTerminated, remoteTag, lastInvite, sv, resp, timedOut>>
  /\ SignalIfNoTransactions(d, {})

a1203_transferrequested_incall_36(d) ==
  \E r \in Request :
    /\ Receives(r, d, "36x") /\ dstate[d] = "transferrequested"
    /\ cl' = [cl EXCEPT ![r] = "completed"]
    /\ Become(d, "incall", media[d], gui[d])
    /\ UNCHANGED <<isTerminated, remoteTag, lastInvite, noTransactions,
                   sv, resp, timedOut>>

a1301_incall_transferaskuser_REFER(d) ==
  LET r == Refer(Other(d)) IN
  /\ Arrives(r, d) /\ dstate[d] = "incall"
  /\ Answers(r, NoAnswer)
  /\ Become(d, "transferaskuser", media[d], gui[d])
  /\ UNCHANGED <<isTerminated, remoteTag, lastInvite, noTransactions,
                 cl, timedOut>>

(* The call to the referred URI is another pair of dialogs.                *)
a1302_transferaskuser_transferstarted_accept(d) ==
  LET r == Refer(Other(d)) IN
  /\ dstate[d] = "transferaskuser"
  /\ Answers(r, Answer(r, "2xx"))
  /\ Become(d, "transferstarted", media[d], gui[d])
  /\ UNCHANGED <<isTerminated, remoteTag, lastInvite, noTransactions,
                 cl, timedOut>>

a1303_transferaskuser_incall_refuse(d) ==
  LET r == Refer(Other(d)) IN
  /\ dstate[d] = "transferaskuser"
  /\ Answers(r, Answer(r, "36x"))
  /\ Become(d, "incall", media[d], gui[d])
  /\ UNCHANGED <<isTerminated, remoteTag, lastInvite, noTransactions,
                 cl, timedOut>>

BaseNext(d) ==
  \/ a1001_incall_termwait_BYE(d) \/ a1002_incall_byerequest_hangup(d)
  \/ a1003_byerequest_termwait_26(d)
  \/ a1101_termwait_terminated_notransactions(d)
  \/ a1201_incall_transferrequested_transfer(d)
  \/ a1202_transferrequested_transferpending_202(d)
  \/ a1203_transferrequested_incall_36(d)
  \/ a1301_incall_transferaskuser_REFER(d)
  \/ a1302_transferaskuser_transferstarted_accept(d)
  \/ a1303_transferaskuser_incall_refuse(d)
=============================================================================
