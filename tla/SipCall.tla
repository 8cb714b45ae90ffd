------------------------------- MODULE SipCall -------------------------------
(***************************************************************************)
(* A call: the dialog of the caller, the dialog of the called party, their *)
(* users, and the transactions and the network between them.               *)
(***************************************************************************)
EXTENDS SipDialogVoipClient, SipDialogVoipServer

callVars == <<baseVars, rseqSeen, serverVars>>

Init == ClientInit /\ ServerInit

----------------------------------------------------------------------------
(* No dialog has the call-ID: the default handler answers BYE and CANCEL   *)
(* with 481 and other requests with 405.                                   *)
Absent(d) == dstate[d] = "terminated" \/ (d = "server" /\ dstate[d] = "start")

defaultHandler(r, d) ==
  /\ Arrives(r, d) /\ Absent(d) /\ r \notin Invites
  /\ Answers(r, Answer(r, "36x"))
  /\ UNCHANGED <<dialogVars, noTransactions, cl, timedOut, rseqSeen, serverVars>>

(* The dialog has no transition for the request.  It says that it has      *)
(* handled it, so that nobody answers.                                     *)
Takes(r, d) ==
  \/ Absent(d)
  \/ r = Bye(Other(d)) /\ remoteTag[d] /\ dstate[d] \in InCall \cup {"ringing"}
  \/ r = Refer(Other(d)) /\ dstate[d] = "incall"
  \/ r = "CANCEL" /\ dstate[d] \in {"100rel", "ringing"}
  \/ r \in Pracks /\ Acknowledges(r)

ignoresRequest(r, d) ==
  /\ Arrives(r, d) /\ ~Takes(r, d) /\ r \notin Invites
  /\ Answers(r, NoAnswer)
  /\ UNCHANGED <<dialogVars, noTransactions, cl, timedOut, rseqSeen, serverVars>>

(* A final response for which the dialog has no transition.                *)
ignoresResponse(r, d) ==
  \E c \in Final :
    /\ Receives(r, d, c)
    /\ ~(dstate[d] = "calling" /\ r \in Invites) /\ dstate[d] # "bye_request"
    /\ ~(dstate[d] = "transferrequested" /\ (c = "36x" \/ r = Refer(d)))
    /\ cl' = [cl EXCEPT ![r] = "completed"]
    /\ UNCHANGED <<dialogVars, noTransactions, sv, resp, timedOut, rseqSeen, serverVars>>

----------------------------------------------------------------------------
(* The transactions.                                                       *)

(* Timer B or F, where the dialog has no transition for transport_error.   *)
transportError(r) ==
  /\ cl[r] = "trying" /\ dstate[From(r)] # "calling"
  /\ cl' = [cl EXCEPT ![r] = "completed"]
  /\ timedOut' = timedOut \cup {r}
  /\ UNCHANGED <<dialogVars, noTransactions, sv, resp, rseqSeen, serverVars>>

(* A proxy asks for credentials, or refuses the call.                      *)
proxyAnswers(r) ==
  \E c \in {"401", "36x"} :
    /\ r \in Invites /\ Arrives(r, "server") /\ Server({"start"}) /\ "challenge" \in scenario
    /\ sv' = [sv EXCEPT ![r] = "gone"]
    /\ resp' = [resp EXCEPT ![r] = {c}]
    /\ UNCHANGED <<dialogVars, noTransactions, cl, timedOut, rseqSeen, serverVars>>

(* A caller of another make may end an early dialog by a BYE.              *)
earlyBye ==
  /\ "early_bye" \in scenario /\ Client("calling") /\ remoteTag["client"]
  /\ Sends({"BYEc"})
  /\ Become("client", "termwait", FALSE, "ended")
  /\ UNCHANGED <<isTerminated, remoteTag, lastInvite, noTransactions, sv, resp, timedOut,
                 rseqSeen, serverVars>>

(* Transactions that have told the dialog everything are removed, and the  *)
(* layer calls signalIfNoTransactions.  That only the end of the last one  *)
(* has an effect lets the model remove them together.                      *)
Completed(d) ==
  {r \in Request : \/ From(r) = d /\ cl[r] = "completed"
                   \/ From(r) # d /\ sv[r] = "completed"}

TransactionsEnd(d) ==
  /\ Completed(d) # {}
  /\ cl' = [r \in Request |->
              IF r \in Completed(d) /\ From(r) = d THEN "gone" ELSE cl[r]]
  /\ sv' = [r \in Request |->
              IF r \in Completed(d) /\ From(r) # d THEN "gone" ELSE sv[r]]
  /\ UNCHANGED <<dialogVars, resp, timedOut, rseqSeen, serverVars>>
  /\ SignalIfNoTransactions(d, Completed(d))

----------------------------------------------------------------------------
Base == \E d \in Dialogs : BaseNext(d) /\ UNCHANGED <<rseqSeen, serverVars>>
Caller == ClientNext /\ UNCHANGED serverVars
Called == ServerNext /\ UNCHANGED rseqSeen
Others ==
  \/ \E r \in Request :
       \/ \E d \in Dialogs :
            defaultHandler(r, d) \/ ignoresRequest(r, d) \/ ignoresResponse(r, d)
       \/ transportError(r) \/ proxyAnswers(r)
  \/ earlyBye

Ends == \E d \in Dialogs : TransactionsEnd(d)

Next == (Base \/ Caller \/ Called \/ Others \/ Ends) /\ UNCHANGED scenario

Spec == Init /\ [][Next]_callVars

----------------------------------------------------------------------------
(* The state of a dialog as the rest of the stack sees it.                 *)
PhaseOf(s) ==
  CASE s = "start" -> "none"
    [] s \in {"calling", "100rel", "ringing"} -> "early"
    [] s \in {"incall", "transferrequested", "transferpending",
              "transferaskuser", "transferstarted"} -> "up"
    [] s = "bye_request" -> "ending"
    [] s = "termwait" -> "over"
    [] s = "terminated" -> "terminated"
phase == [d \in Dialogs |-> PhaseOf(dstate[d])]

Outline == INSTANCE CallOutline WITH Calls <- Dialogs, call <- phase

Over(d) == dstate[d] \in {"termwait", "terminated"}
Up(d) ==
  dstate[d] \in {"incall", "transferrequested", "transferpending",
                "transferaskuser", "transferstarted"}

(* The types, and the resend timer of a reliable response ends at 64*T1.   *)
TypeOK ==
  /\ dstate \in [Dialogs -> DialogState]
  /\ {isTerminated, remoteTag, media, noTransactions} \subseteq [Dialogs -> BOOLEAN]
  /\ lastInvite \in [Dialogs -> Invites \cup {"none"}]
  /\ gui \in [Dialogs -> {"none", "shown", "ended"}]
  /\ cl \in [Request -> {"none", "trying", "proceeding", "completed", "gone"}]
  /\ sv \in [Request -> {"none", "trying", "completed", "gone"}]
  /\ resp \in [Request -> SUBSET (Provisional \cup Final)]
  /\ timedOut \subseteq Request /\ scenario \in Scenarios
  /\ rseqSeen \in 0 .. 2 /\ rseqNo \in 0 .. 2
  /\ lastProvisional \in Provisional \cup {"none"}
  /\ resendTimer \in BOOLEAN /\ resends \in 0 .. GiveUp /\ finals \in 0 .. 3

(* However a call ends, and whoever ends it, the last that the user of     *)
(* each side knows is that it has ended: a dialog in termwait or           *)
(* terminated is not shown as a call.                                      *)
LastWord == \A d \in Dialogs : Over(d) => gui[d] # "shown"

(* The media of a call that is over is stopped.  There is one way around   *)
(* it: a PRACK that nobody answers takes the dialog of the caller from     *)
(* calling to termwait with the early media running.                       *)
MediaStops ==
  \A d \in Dialogs : Over(d) /\ media[d] => d = "client" /\ timedOut \cap Pracks # {}

(* A side that is over while the other is in the call has sent a BYE, or   *)
(* the answer was crossed by a CANCEL, by a transport error or by the end  *)
(* of the resend timer.  These are the only ways to a call with one end.   *)
NoOrphanedCall ==
  \A d \in Dialogs :
    Over(d) /\ Up(Other(d)) =>
      \/ cl[Bye(d)] # "none"
      \/ cl["CANCEL"] # "none" \/ timedOut # {} \/ resends = GiveUp

(* An INVITE is given one final answer, with one exception: the resend     *)
(* timer answers 504 in whatever state it fires, before or after another   *)
(* answer.                                                                 *)
OneFinalAnswer == finals > 1 => resends = GiveUp

(* A dialog in termwait whose transactions have all ended has been sent    *)
(* no_transactions: it is not left in the dialog layer for ever because    *)
(* the last transaction ended before the dialog had got to termwait.  One  *)
(* dialog is left so: the resend timer has answered the INVITE with 504,   *)
(* the transaction is gone, and then the user refuses the call.  The       *)
(* refusal is dropped below, a3005 looks for transactions before it is in  *)
(* termwait, and it was no CANCEL, whose transaction would end, that came. *)
RefusedTooLate == resends = GiveUp /\ finals > 1 /\ "2xx" \notin resp["CANCEL"]
EndIsSignalled ==
  \A d \in Dialogs :
    dstate[d] = "termwait" /\ Live(d) = {} =>
      noTransactions[d] \/ (d = "server" /\ RefusedTooLate)

(* A call goes the one way that the shutdown of the stack relies on:       *)
(* whatever comes late or twice, a dialog that has left a state for good   *)
(* does not come back to it, none is up that was not early, and it waits   *)
(* in termwait before it terminates.                                       *)
ImplementsOutline == Outline!OutlineSpec
=============================================================================
