------------------------- MODULE SipDialogVoipServer -------------------------
(***************************************************************************)
(* The dialog of the called party until the call is established or over.   *)
(***************************************************************************)
EXTENDS SipDialogVoip

VARIABLES
  lastProvisional,  \* "none" or the reliable response that waits for a PRACK
  rseqNo,           \* dialogState.rseqNo of the server
  resendTimer,      \* ResendTimer1xx is requested
  resends,          \* how often resendTimer1xx has been doubled
  finals            \* final responses the dialog has given to its INVITE

serverVars == <<lastProvisional, rseqNo, resendTimer, resends, finals>>

ServerInit ==
  /\ lastProvisional = "none" /\ rseqNo = 0
  /\ resendTimer = FALSE /\ resends = 0 /\ finals = 0

Server(S) == dstate["server"] \in S
Invite == lastInvite["server"]
Reliable == <<lastProvisional, rseqNo, resendTimer, resends>>
Finally == finals' = finals + 1

(* A command of the user, or a packet, that a handler answers: what the    *)
(* handlers of the server dialog leave alone.                              *)
Rest == UNCHANGED <<isTerminated, cl, timedOut>>

ServerGets(r) ==
  /\ lastInvite' = [lastInvite EXCEPT !["server"] = r]
  /\ remoteTag' = [remoteTag EXCEPT !["server"] = TRUE]

----------------------------------------------------------------------------
(* sendSessionProgress and sendRinging with 100rel number the response and *)
(* keep it for the timer.                                                  *)
a3007_start_100rel_INVITE(r) ==
  /\ r \in Invites /\ Arrives(r, "server") /\ Server({"start"}) /\ use100Rel
  /\ ServerGets(r)
  /\ resendTimer' = TRUE /\ lastProvisional' = "183" /\ rseqNo' = 1
  /\ Answers(r, Answer(r, "183"))
  /\ Become("server", "100rel", FALSE, "none")
  /\ NoSignal /\ Rest /\ UNCHANGED <<resends, finals>>

a3001_start_ringing_INVITE(r) ==
  /\ r \in Invites /\ Arrives(r, "server") /\ Server({"start"}) /\ ~use100Rel
  /\ ServerGets(r)
  /\ Answers(r, Answer(r, "180"))
  /\ Become("server", "ringing", FALSE, "shown")
  /\ NoSignal /\ Rest /\ UNCHANGED <<Reliable, finals>>

(* The offer is refused.  With 100rel a3007 has requested the timer before *)
(* it returns FALSE; there is no response for the timer to send.           *)
a3006_start_termwait_INVITE(r) ==
  /\ r \in Invites /\ Arrives(r, "server") /\ Server({"start"})
  /\ ServerGets(r)
  /\ resendTimer' = use100Rel
  /\ Answers(r, Answer(r, "36x"))
  /\ Become("server", "termwait", FALSE, "none")
  /\ Finally
  /\ NoSignal /\ Rest /\ UNCHANGED <<lastProvisional, rseqNo, resends>>

(* accept_invite of the user, or of autoAnswer.                            *)
a3002_ringing_incall_accept ==
  /\ Server({"ringing"})
  /\ Answers(Invite, Answer(Invite, "2xx"))
  /\ Become("server", "incall", TRUE, "shown")
  /\ Finally
  /\ NoSignal /\ Rest /\ UNCHANGED <<lastInvite, remoteTag, Reliable>>

a3003_ringing_termwait_BYE ==
  /\ Arrives("BYEc", "server") /\ Server({"ringing"}) /\ remoteTag["server"]
  /\ Answers("BYEc", Answer("BYEc", "2xx"))
  /\ Become("server", "termwait", FALSE, "ended")
  /\ NoSignal /\ Rest /\ UNCHANGED <<lastInvite, remoteTag, Reliable, finals>>

(* Fault: a CANCEL is taken in incall as well.                             *)
a3004_InCall ==
  /\ Arrives("CANCEL", "server") /\ Server({"100rel", "ringing", "incall"})
  /\ Answers("CANCEL", [q \in {"CANCEL", Invite} |-> IF q = Invite THEN "36x" ELSE "2xx"])
  /\ Become("server", "termwait", FALSE, "ended")
  /\ Finally
  /\ NoSignal /\ Rest /\ UNCHANGED <<lastInvite, remoteTag, Reliable>>

(* 487 for the INVITE and 200 for the CANCEL.                              *)
a3004_ringing_termwait_CANCEL ==
  /\ Arrives("CANCEL", "server") /\ Server({"100rel", "ringing"})
  /\ Answers("CANCEL", [q \in {"CANCEL", Invite} |-> IF q = Invite THEN "36x" ELSE "2xx"])
  /\ Become("server", "termwait", FALSE, "ended")
  /\ Finally
  /\ NoSignal /\ Rest /\ UNCHANGED <<lastInvite, remoteTag, Reliable>>

(* reject_invite and hang_up.                                              *)
a3005_ringing_termwait_reject ==
  /\ Server({"100rel", "ringing"})
  /\ Answers(Invite, Answer(Invite, "36x"))
  /\ Become("server", "termwait", FALSE, "ended")
  /\ Finally
  /\ Rest /\ UNCHANGED <<lastInvite, remoteTag, Reliable>>
  /\ SignalIfNoTransactions("server", {})

Acknowledges(r) == lastProvisional # "none" /\ rseqNo = IF r = "PRACK1" THEN 1 ELSE 2

(* Fault: the transition is registered in anyState, as that of a3010 is.   *)
a3008_AnyState(r) ==
  /\ r \in Pracks /\ Arrives(r, "server") /\ Acknowledges(r)
  /\ ~Server({"start", "terminated"})
  /\ lastProvisional' = "180" /\ rseqNo' = rseqNo + 1
  /\ Answers(r, [q \in {r, Invite} |-> IF q = r THEN "2xx" ELSE "180"])
  /\ Become("server", "ringing", media["server"], "shown")
  /\ NoSignal /\ Rest /\ UNCHANGED <<lastInvite, remoteTag, resendTimer, resends, finals>>

a3008_100rel_ringing_PRACK(r) ==
  /\ r \in Pracks /\ Arrives(r, "server") /\ Server({"100rel"}) /\ Acknowledges(r)
  /\ lastProvisional' = "180" /\ rseqNo' = rseqNo + 1
  /\ Answers(r, [q \in {r, Invite} |-> IF q = r THEN "2xx" ELSE "180"])
  /\ Become("server", "ringing", media["server"], "shown")
  /\ NoSignal /\ Rest /\ UNCHANGED <<lastInvite, remoteTag, resendTimer, resends, finals>>

(* The transition is in anyState, from the answer to the INVITE on too.    *)
a3010_any_any_PRACK(r) ==
  /\ r \in Pracks /\ Arrives(r, "server") /\ use100Rel /\ Acknowledges(r)
  /\ ~Server({"start", "100rel", "terminated"})
  /\ lastProvisional' = "none"
  /\ Answers(r, Answer(r, "2xx"))
  /\ NoSignal /\ Rest
  /\ UNCHANGED <<dstate, media, gui, lastInvite, remoteTag, rseqNo, resendTimer,
                 resends, finals>>

(* Fault: the doubled interval is not compared with 64*T1.                 *)
a3009_NoGiveUp ==
  /\ resendTimer /\ ~Server({"start", "terminated"}) /\ lastProvisional # "none"
  /\ resends' = resends + 1
  /\ UNCHANGED <<dstate, media, gui, sv, resp, noTransactions, resendTimer, finals,
                 lastInvite, remoteTag, lastProvisional, rseqNo, isTerminated, cl,
                 timedOut>>

(* The transition is in anyState and changes no state: after 64*T1 the     *)
(* INVITE is answered with 504 and the media stopped, whatever the dialog  *)
(* has done meanwhile.                                                     *)
a3009_any_any_ResendTimer1xx ==
  /\ resendTimer /\ ~Server({"start", "terminated"})
  /\ UNCHANGED <<lastInvite, remoteTag, lastProvisional, rseqNo, isTerminated,
                 cl, timedOut>>
  /\ \/ /\ lastProvisional = "none"
        /\ resendTimer' = FALSE
        /\ UNCHANGED <<dstate, media, gui, sv, resp, noTransactions, resends, finals>>
     \/ /\ lastProvisional # "none" /\ resends + 1 < GiveUp
        /\ resends' = resends + 1
        /\ UNCHANGED <<dstate, media, gui, sv, resp, noTransactions, resendTimer, finals>>
     \/ /\ lastProvisional # "none" /\ resends + 1 = GiveUp
        /\ resends' = resends + 1 /\ resendTimer' = FALSE
        /\ sv' = [sv EXCEPT ![Invite] = IF @ = "trying" THEN "completed" ELSE @]
        /\ resp' = [resp EXCEPT ![Invite] = IF sv[Invite] = "trying" THEN @ \cup {"36x"} ELSE @]
        /\ Become("server", dstate["server"], FALSE, "ended")
        /\ Finally
        /\ SignalIfNoTransactions("server", {})

ServerNext ==
  \/ \E r \in Invites : \/ a3007_start_100rel_INVITE(r) \/ a3001_start_ringing_INVITE(r)
                        \/ a3006_start_termwait_INVITE(r)
  \/ a3002_ringing_incall_accept \/ a3003_ringing_termwait_BYE
  \/ a3004_ringing_termwait_CANCEL \/ a3005_ringing_termwait_reject
  \/ \E r \in Pracks : a3008_100rel_ringing_PRACK(r) \/ a3010_any_any_PRACK(r)
  \/ a3009_any_any_ResendTimer1xx
=============================================================================
