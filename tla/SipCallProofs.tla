---------------------------- MODULE SipCallProofs ----------------------------
(***************************************************************************)
(* The invariants of a call, for every scenario and every length of the    *)
(* resend timer.  What a user is told and when the media stops is a matter *)
(* of one dialog; that no call is left with one end relates the states of  *)
(* the two dialogs through the transactions between them, which is what    *)
(* most of the parts of the inductive invariant are about.                 *)
(***************************************************************************)
EXTENDS SipCall, TLAPS

----------------------------------------------------------------------------
(* The states of a dialog that has not answered its INVITE and of one that *)
(* is being taken down; of a client transaction that waits for a final     *)
(* response and of one that has concluded.                                 *)
Early == {"start", "100rel", "ringing"}
Ending == {"bye_request", "termwait", "terminated"}
Unanswered == {"trying", "proceeding"}
Done == {"completed", "gone"}

(* The resend timer runs from the reliable response on and stops at        *)
(* GiveUp; besides the answer that takes the server out of its early       *)
(* states, only the end of the timer gives a final answer.                 *)
TimerOK ==
  /\ Server({"start"}) => resends = 0 /\ ~resendTimer /\ rseqNo = 0
  /\ Server({"100rel"}) => rseqNo = 1
  /\ resendTimer => resends < GiveUp
  /\ finals <= (IF Server(Early) THEN 0 ELSE 1) + (IF resends = GiveUp THEN 1 ELSE 0)

(* A caller in calling has an INVITE open, had a 401 for every one that    *)
(* concluded, and has sent neither BYE nor REFER.                          *)
AskedOK ==
  /\ dstate["client"] \notin {"100rel", "ringing"}
  /\ Client("start") => \A r \in ByClient : cl[r] = "none"
  /\ Client("calling") => /\ lastInvite["client"] \in Invites
                          /\ cl[lastInvite["client"]] \in Unanswered
                          /\ cl["BYEc"] = "none" /\ cl["REFERc"] = "none"
                          /\ \A q \in Invites : cl[q] \in Done => "401" \in resp[q]
  /\ cl["INVITE2"] # "none" => cl["INVITE"] \in Done /\ "401" \in resp["INVITE"]

(* What a request has been answered came from a server transaction for it, *)
(* hence after it was sent.  A 401 is a proxy's: the INVITE it answers     *)
(* never reached the called party, which answers only the one it took: not *)
(* by a 2xx while it is early, by another only when it is over or the      *)
(* resend timer has ended.                                                 *)
AnsweredOK ==
  /\ \A r \in Request : resp[r] # {} => sv[r] # "none"
  /\ \A r \in Request : sv[r] # "none" => cl[r] # "none"
  /\ \A r \in Request : "401" \in resp[r] =>
       /\ r \in Invites /\ lastInvite["server"] # r
       /\ resp[r] = {"401"} /\ sv[r] = "gone"
  /\ \A r \in Request : "183" \in resp[r] => use100Rel
  /\ Server({"start"}) => lastInvite["server"] = "none"
  /\ ~Server({"start", "terminated"}) =>
       lastInvite["server"] \in Invites /\ sv[lastInvite["server"]] # "none"
  /\ Server(Early) => \A q \in Invites : "2xx" \notin resp[q]
  /\ \A q \in Invites : lastInvite["server"] = q /\ "36x" \in resp[q] =>
       Over("server") \/ resends = GiveUp
  /\ \A d \in Dialogs : dstate[d] = "transferaskuser" => sv[Refer(Other(d))] # "none"

(* A BYE is only sent on the way out, and a caller in the call was told of *)
(* it by a 2xx.                                                            *)
ByeOK ==
  /\ \A d \in Dialogs : cl[Bye(d)] # "none" => dstate[d] \in Ending
  /\ \A d \in Dialogs : dstate[d] = "bye_request" => cl[Bye(d)] # "none"
  /\ Up("client") => remoteTag["client"] /\ \E q \in Invites : "2xx" \in resp[q]

(* The media of a caller that is still calling is the early media of a     *)
(* 183, to an INVITE that is not cancelled; if it is, a reliable response  *)
(* had come before.                                                        *)
MediaOK ==
  /\ \A d \in Dialogs : dstate[d] = "bye_request" => ~media[d]
  /\ Client("calling") /\ media["client"] =>
       /\ cl[lastInvite["client"]] = "proceeding"
       /\ "183" \in resp[lastInvite["client"]]
       /\ cl["CANCEL"] = "none"
  /\ Client("calling") /\ cl["CANCEL"] # "none" => rseqSeen >= 1

(* The reasons NoOrphanedCall names, and, of two ends of which one is      *)
(* over, where the other may be without any of them: it has not got into   *)
(* the call and cannot any more, or is on its way out.                     *)
Excused(d) ==
  \/ cl[Bye(d)] # "none"
  \/ cl["CANCEL"] # "none" \/ timedOut # {} \/ resends = GiveUp

OrphanOK ==
  /\ Over("client") => \/ Excused("client")
                       \/ Server({"start"}) /\ \A q \in Invites : cl[q] = "none" \/ sv[q] # "none"
                       \/ Server(Ending)
  /\ Over("server") => \/ Excused("server")
                       \/ Client("start")
                       \/ Client("calling") /\ \A q \in Invites : "2xx" \notin resp[q]
                       \/ dstate["client"] \in Ending

(* The INVITE of a called party that has not answered waits for the answer *)
(* unless the resend timer has given it, and no CANCEL has been accepted.  *)
LateOK ==
  /\ Server({"100rel", "ringing"}) =>
       sv[Invite] = "trying" \/ (resends = GiveUp /\ finals > 0)
  /\ Server(Early) => "2xx" \notin resp["CANCEL"]

(* The inductive invariant.  LateOK and EndIsSignalled stand apart: they   *)
(* are kept by a different argument.                                       *)
CoreOK ==
  /\ TypeOK /\ TimerOK /\ AskedOK /\ AnsweredOK /\ ByeOK /\ OrphanOK
  /\ LastWord /\ MediaOK /\ MediaStops
IInv == CoreOK /\ LateOK /\ EndIsSignalled

----------------------------------------------------------------------------
(* The two ends of the call are each other's other.                        *)
LEMMA Roles == Other("client") = "server" /\ Other("server") = "client"
BY DEF Other, Dialogs

(* A flag that keeps its value or is reset does not rise.                  *)
LEMMA Falling ==
  ASSUME NEW a \in BOOLEAN, NEW b, b = a \/ b = FALSE
  PROVE  b \in BOOLEAN /\ (b => a)
<1>1. CASE b = a
  BY <1>1
<1>2. CASE b = FALSE
  BY <1>2
<1> QED
  BY <1>1, <1>2

(* A flag per dialog is one after one of them is set.                      *)
LEMMA Flags ==
  ASSUME NEW f \in [Dialogs -> BOOLEAN], NEW d, NEW x \in BOOLEAN
  PROVE  [f EXCEPT ![d] = x] \in [Dialogs -> BOOLEAN]
OBVIOUS

(* The steps of both dialogs that SipDialogVoip declares: BYE and REFER    *)
(* sent and received.                                                      *)
LEMMA BaseKeeps ==
  ASSUME CoreOK, NEW d \in Dialogs, UNCHANGED <<rseqSeen, serverVars>>,
         BaseNext(d), UNCHANGED scenario
  PROVE  CoreOK'
<1> USE Roles, GiveUpAssumption DEF CoreOK, Dialogs, Request, ByClient,
       ByServer, Invites, Pracks, Provisional, Final, Server, Client, Over, Up,
       Early, Ending, Unanswered, Done, Bye, Refer, From, use100Rel, Excused,
       InCall, DialogState, dialogVars, serverVars, baseVars, Invite, Reliable
<1>1. CASE a1001_incall_termwait_BYE(d)
  <2> USE <1>1 DEF a1001_incall_termwait_BYE, Arrives, Become, Answers, Waits,
         Answer, NoSignal
  <2>1. TypeOK' /\ TimerOK'
    BY DEF TypeOK, TimerOK
  <2>2. AskedOK' /\ AnsweredOK'
    BY DEF TypeOK, AskedOK, AnsweredOK
  <2>3. ByeOK' /\ OrphanOK'
    BY DEF TypeOK, ByeOK, OrphanOK
  <2>4. LastWord' /\ MediaOK' /\ MediaStops'
    BY DEF TypeOK, LastWord, MediaOK, MediaStops, AskedOK
  <2> QED
    BY <2>1, <2>2, <2>3, <2>4
<1>2. CASE a1002_incall_byerequest_hangup(d)
  <2> USE <1>2 DEF a1002_incall_byerequest_hangup, Sends, Sent, Become,
         SignalIfNoTransactions, Live
  <2>1. TypeOK' /\ TimerOK'
    BY DEF TypeOK, TimerOK
  <2>2. AskedOK' /\ AnsweredOK'
    BY DEF TypeOK, AskedOK, AnsweredOK
  <2>3. ByeOK' /\ OrphanOK'
    BY DEF TypeOK, ByeOK, OrphanOK
  <2>4. LastWord' /\ MediaOK' /\ MediaStops'
    BY DEF TypeOK, LastWord, MediaOK, MediaStops, AskedOK
  <2> QED
    BY <2>1, <2>2, <2>3, <2>4
<1>3. CASE a1003_byerequest_termwait_26(d)
  <2> USE <1>3 DEF a1003_byerequest_termwait_26, Receives, Progress, Become
  <2>1. TypeOK' /\ TimerOK'
    BY DEF TypeOK, TimerOK
  <2>2. AskedOK' /\ AnsweredOK'
    BY DEF TypeOK, AskedOK, AnsweredOK
  <2>3. ByeOK' /\ OrphanOK'
    BY DEF TypeOK, ByeOK, OrphanOK
  <2>4. LastWord' /\ MediaOK' /\ MediaStops'
    BY DEF TypeOK, LastWord, MediaOK, MediaStops
  <2> QED
    BY <2>1, <2>2, <2>3, <2>4
<1>4. CASE a1101_termwait_terminated_notransactions(d)
  <2> USE <1>4 DEF a1101_termwait_terminated_notransactions, Become
  <2>1. TypeOK' /\ TimerOK'
    BY DEF TypeOK, TimerOK
  <2>2. AskedOK' /\ AnsweredOK'
    BY DEF TypeOK, AskedOK, AnsweredOK
  <2>3. ByeOK' /\ OrphanOK'
    BY DEF TypeOK, ByeOK, OrphanOK
  <2>4. LastWord' /\ MediaOK' /\ MediaStops'
    BY DEF TypeOK, LastWord, MediaOK, MediaStops
  <2> QED
    BY <2>1, <2>2, <2>3, <2>4
<1>5. CASE a1201_incall_transferrequested_transfer(d)
  <2> USE <1>5 DEF a1201_incall_transferrequested_transfer, Sends, Sent, Become
  <2>1. TypeOK' /\ TimerOK'
    BY DEF TypeOK, TimerOK
  <2>2. AskedOK' /\ AnsweredOK'
    BY DEF TypeOK, AskedOK, AnsweredOK
  <2>3. ByeOK' /\ OrphanOK'
    BY DEF TypeOK, ByeOK, OrphanOK
  <2>4. LastWord' /\ MediaOK' /\ MediaStops'
    BY DEF TypeOK, LastWord, MediaOK, MediaStops, AskedOK
  <2> QED
    BY <2>1, <2>2, <2>3, <2>4
<1>6. CASE a1202_transferrequested_transferpending_202(d)
  <2> USE <1>6 DEF a1202_transferrequested_transferpending_202, Receives,
         Become, SignalIfNoTransactions, Live
  <2>1. TypeOK' /\ TimerOK'
    BY DEF TypeOK, TimerOK
  <2>2. AskedOK' /\ AnsweredOK'
    BY DEF TypeOK, AskedOK, AnsweredOK
  <2>3. ByeOK' /\ OrphanOK'
    BY DEF TypeOK, ByeOK, OrphanOK
  <2>4. LastWord' /\ MediaOK' /\ MediaStops'
    BY DEF TypeOK, LastWord, MediaOK, MediaStops
  <2> QED
    BY <2>1, <2>2, <2>3, <2>4
<1>7. CASE a1203_transferrequested_incall_36(d)
  <2> USE <1>7 DEF a1203_transferrequested_incall_36, Receives, Become
  <2>1. TypeOK' /\ TimerOK'
    BY DEF TypeOK, TimerOK
  <2>2. AskedOK' /\ AnsweredOK'
    BY DEF TypeOK, AskedOK, AnsweredOK
  <2>3. ByeOK' /\ OrphanOK'
    BY DEF TypeOK, ByeOK, OrphanOK
  <2>4. LastWord' /\ MediaOK' /\ MediaStops'
    BY DEF TypeOK, LastWord, MediaOK, MediaStops
  <2> QED
    BY <2>1, <2>2, <2>3, <2>4
<1>8. CASE a1301_incall_transferaskuser_REFER(d)
  <2> USE <1>8 DEF a1301_incall_transferaskuser_REFER, Arrives, Answers, Waits,
         NoAnswer, Become
  <2>1. TypeOK' /\ TimerOK'
    BY DEF TypeOK, TimerOK
  <2>2. AskedOK' /\ AnsweredOK'
    BY DEF TypeOK, AskedOK, AnsweredOK
  <2>3. ByeOK' /\ OrphanOK'
    BY DEF TypeOK, ByeOK, OrphanOK
  <2>4. LastWord' /\ MediaOK' /\ MediaStops'
    BY DEF TypeOK, LastWord, MediaOK, MediaStops
  <2> QED
    BY <2>1, <2>2, <2>3, <2>4
<1>9. CASE a1302_transferaskuser_transferstarted_accept(d)
  <2> USE <1>9 DEF a1302_transferaskuser_transferstarted_accept, Answers,
         Waits, Answer, Become
  <2>1. TypeOK' /\ TimerOK'
    BY DEF TypeOK, TimerOK
  <2>2. AskedOK' /\ AnsweredOK'
    BY DEF TypeOK, AskedOK, AnsweredOK
  <2>3. ByeOK' /\ OrphanOK'
    BY DEF TypeOK, ByeOK, OrphanOK
  <2>4. LastWord' /\ MediaOK' /\ MediaStops'
    BY DEF TypeOK, LastWord, MediaOK, MediaStops, AskedOK
  <2> QED
    BY <2>1, <2>2, <2>3, <2>4
<1>10. CASE a1303_transferaskuser_incall_refuse(d)
  <2> USE <1>10 DEF a1303_transferaskuser_incall_refuse, Answers, Waits,
         Answer, Become
  <2>1. TypeOK' /\ TimerOK'
    BY DEF TypeOK, TimerOK
  <2>2. AskedOK' /\ AnsweredOK'
    BY DEF TypeOK, AskedOK, AnsweredOK
  <2>3. ByeOK' /\ OrphanOK'
    BY DEF TypeOK, ByeOK, OrphanOK
  <2>4. LastWord' /\ MediaOK' /\ MediaStops'
    BY DEF TypeOK, LastWord, MediaOK, MediaStops, AskedOK
  <2> QED
    BY <2>1, <2>2, <2>3, <2>4
<1> QED
  BY <1>1, <1>2, <1>3, <1>4, <1>5, <1>6, <1>7, <1>8, <1>9, <1>10 DEF BaseNext

(* The steps of SipDialogVoipClient.                                       *)
LEMMA CallerKeeps ==
  ASSUME CoreOK, Caller, UNCHANGED scenario
  PROVE  CoreOK'
<1> USE Roles, GiveUpAssumption DEF CoreOK, Caller, Dialogs, Request, ByClient,
       ByServer, Invites, Pracks, Provisional, Final, Server, Client, Over, Up,
       Early, Ending, Unanswered, Done, Bye, Refer, From, use100Rel, Excused,
       InCall, DialogState, dialogVars, serverVars, baseVars, Invite, Reliable
<1>1. CASE a2001_start_calling_invite
  <2> USE <1>1 DEF a2001_start_calling_invite, Sends, Sent, Become
  <2>1. TypeOK' /\ TimerOK'
    BY DEF TypeOK, TimerOK
  <2>2. AskedOK' /\ AnsweredOK'
    BY DEF TypeOK, AskedOK, AnsweredOK
  <2>3. ByeOK' /\ OrphanOK'
    BY DEF TypeOK, ByeOK, OrphanOK, AskedOK, AnsweredOK
  <2>4. LastWord' /\ MediaOK' /\ MediaStops'
    BY DEF TypeOK, LastWord, MediaOK, MediaStops, AskedOK
  <2> QED
    BY <2>1, <2>2, <2>3, <2>4
<1>2. CASE a2002_calling_calling_18X
  <2> USE DEF RSeq, Prack, Receives, ClientTag,
         Sent, Become, SignalIfNoTransactions, Live
  <2>1. TypeOK' /\ TimerOK'
    <3>1. \/ media' = media
          \/ \E c \in Provisional, accepted \in BOOLEAN :
               media' = [media EXCEPT !["client"] =
                          IF c = "183" THEN accepted ELSE media["client"]]
      BY <1>2 DEF a2002_calling_calling_18X
    <3>2. media' \in [Dialogs -> BOOLEAN]
      <4>1. media \in [Dialogs -> BOOLEAN] /\ media["client"] \in BOOLEAN
        BY DEF TypeOK
      <4> QED
        BY <3>1, <4>1, Flags
    <3>3. cl' \in [Request -> {"none", "trying", "proceeding", "completed", "gone"}]
      BY <1>2 DEF a2002_calling_calling_18X, TypeOK
    <3>4. noTransactions' \in [Dialogs -> BOOLEAN]
      BY <1>2 DEF a2002_calling_calling_18X, TypeOK
    <3>5. remoteTag' \in [Dialogs -> BOOLEAN]
      <4>1. remoteTag' = remoteTag \/ remoteTag' = [remoteTag EXCEPT !["client"] = TRUE]
        BY <1>2 DEF a2002_calling_calling_18X
      <4> QED
        BY <4>1, Flags DEF TypeOK
    <3>6. rseqSeen' \in 0 .. 2 /\ dstate' = dstate /\ gui' = gui
      BY <1>2 DEF a2002_calling_calling_18X, TypeOK
    <3> QED
      BY <1>2, <3>2, <3>3, <3>4, <3>6, <3>5
      DEF a2002_calling_calling_18X, TypeOK, TimerOK
  <2>2. AskedOK' /\ AnsweredOK'
    BY <1>2 DEF a2002_calling_calling_18X, TypeOK, AskedOK, AnsweredOK
  <2>3. ByeOK' /\ OrphanOK'
    BY <1>2 DEF a2002_calling_calling_18X, TypeOK, ByeOK, OrphanOK
  <2>4. LastWord' /\ MediaOK' /\ MediaStops'
    BY <1>2 DEF a2002_calling_calling_18X, TypeOK, LastWord, MediaOK,
       MediaStops, AskedOK, AnsweredOK
  <2> QED
    BY <2>1, <2>2, <2>3, <2>4
<1>3. CASE a2004_calling_incall_2xx
  <2> USE <1>3 DEF a2004_calling_incall_2xx, Receives, ClientTag, Become
  <2>1. TypeOK' /\ TimerOK'
    <3>1. CASE use100Rel
      BY <3>1 DEF TypeOK, TimerOK
    <3>2. CASE ~use100Rel
      BY <3>2 DEF TypeOK, TimerOK
    <3> QED
      BY <3>1, <3>2
  <2>2. AskedOK' /\ AnsweredOK'
    BY DEF TypeOK, AskedOK, AnsweredOK
  <2>3. ByeOK' /\ OrphanOK'
    BY DEF TypeOK, ByeOK, OrphanOK
  <2>4. LastWord' /\ MediaOK' /\ MediaStops'
    BY DEF TypeOK, LastWord, MediaOK, MediaStops
  <2> QED
    BY <2>1, <2>2, <2>3, <2>4
<1>4. CASE a2006_calling_termwait_cancel
  <2> USE <1>4 DEF a2006_calling_termwait_cancel, Sends, Sent, Become,
         SignalIfNoTransactions, Live
  <2>1. TypeOK' /\ TimerOK'
    BY DEF TypeOK, TimerOK
  <2>2. AskedOK' /\ AnsweredOK'
    BY DEF TypeOK, AskedOK, AnsweredOK
  <2>3. ByeOK' /\ OrphanOK'
    BY DEF TypeOK, ByeOK, OrphanOK
  <2>4. LastWord' /\ MediaOK' /\ MediaStops'
    BY DEF TypeOK, LastWord, MediaOK, MediaStops
  <2> QED
    BY <2>1, <2>2, <2>3, <2>4
<1>5. CASE a2007_calling_termwait_36
  <2> USE <1>5 DEF a2007_calling_termwait_36, Receives, Become,
         SignalIfNoTransactions, Live
  <2>1. TypeOK' /\ TimerOK'
    BY DEF TypeOK, TimerOK
  <2>2. AskedOK' /\ AnsweredOK'
    BY DEF TypeOK, AskedOK, AnsweredOK
  <2>3. ByeOK' /\ OrphanOK'
    BY DEF TypeOK, ByeOK, OrphanOK, AskedOK, AnsweredOK
  <2>4. LastWord' /\ MediaOK' /\ MediaStops'
    BY DEF TypeOK, LastWord, MediaOK, MediaStops
  <2> QED
    BY <2>1, <2>2, <2>3, <2>4
<1>6. CASE a2008_calling_calling_40X
  <2> USE <1>6 DEF a2008_calling_calling_40X, Receives
  <2>1. TypeOK' /\ TimerOK'
    BY DEF TypeOK, TimerOK
  <2>2. AskedOK' /\ AnsweredOK'
    BY DEF TypeOK, AskedOK, AnsweredOK
  <2>3. ByeOK' /\ OrphanOK'
    BY DEF TypeOK, ByeOK, OrphanOK
  <2>4. LastWord' /\ MediaOK' /\ MediaStops'
    BY DEF TypeOK, LastWord, MediaOK, MediaStops, AskedOK, AnsweredOK
  <2> QED
    BY <2>1, <2>2, <2>3, <2>4
<1>7. CASE a2012_calling_termwait_2xx
  <2> USE <1>7 DEF a2012_calling_termwait_2xx, Receives, ClientTag, Become,
         SignalIfNoTransactions, Live
  <2>1. TypeOK' /\ TimerOK'
    BY DEF TypeOK, TimerOK
  <2>2. AskedOK' /\ AnsweredOK'
    BY DEF TypeOK, AskedOK, AnsweredOK
  <2>3. ByeOK' /\ OrphanOK'
    BY DEF TypeOK, ByeOK, OrphanOK
  <2>4. LastWord' /\ MediaOK' /\ MediaStops'
    BY DEF TypeOK, LastWord, MediaOK, MediaStops
  <2> QED
    BY <2>1, <2>2, <2>3, <2>4
<1>8. CASE a2017_any_any_2XX
  <2> USE <1>8 DEF a2017_any_any_2XX, Sends, Sent
  <2>1. TypeOK' /\ TimerOK'
    BY DEF TypeOK, TimerOK
  <2>2. AskedOK' /\ AnsweredOK'
    BY DEF TypeOK, AskedOK, AnsweredOK
  <2>3. ByeOK' /\ OrphanOK'
    BY DEF TypeOK, ByeOK, OrphanOK, AskedOK, AnsweredOK
  <2>4. LastWord' /\ MediaOK' /\ MediaStops'
    BY DEF TypeOK, LastWord, MediaOK, MediaStops, AskedOK
  <2> QED
    BY <2>1, <2>2, <2>3, <2>4
<1>9. ASSUME NEW r \in ByClient, a2013_calling_termwait_transporterror(r)
      PROVE  CoreOK'
  <2> USE <1>9 DEF a2013_calling_termwait_transporterror, Become,
         SignalIfNoTransactions, Live
  <2>1. TypeOK' /\ TimerOK'
    BY DEF TypeOK, TimerOK
  <2>2. AskedOK' /\ AnsweredOK'
    BY DEF TypeOK, AskedOK, AnsweredOK
  <2>3. ByeOK' /\ OrphanOK'
    BY DEF TypeOK, ByeOK, OrphanOK
  <2>4. LastWord' /\ MediaOK' /\ MediaStops'
    BY DEF TypeOK, LastWord, MediaOK, MediaStops, AskedOK
  <2> QED
    BY <2>1, <2>2, <2>3, <2>4
<1> QED
  BY <1>1, <1>2, <1>3, <1>4, <1>5, <1>6, <1>7, <1>8, <1>9 DEF Caller,
     ClientNext

(* The steps of SipDialogVoipServer.  The end of the resend timer is the   *)
(* one step that answers an INVITE in any state.                           *)
LEMMA CalledKeeps ==
  ASSUME CoreOK, Called, UNCHANGED scenario
  PROVE  CoreOK'
<1> USE Roles, GiveUpAssumption DEF CoreOK, Called, Dialogs, Request, ByClient,
       ByServer, Invites, Pracks, Provisional, Final, Server, Client, Over, Up,
       Early, Ending, Unanswered, Done, Bye, Refer, From, use100Rel, Excused,
       InCall, DialogState, dialogVars, serverVars, baseVars, Invite, Reliable
<1>1. ASSUME NEW r \in Invites, a3007_start_100rel_INVITE(r)
      PROVE  CoreOK'
  <2> USE <1>1 DEF a3007_start_100rel_INVITE, Arrives, ServerGets, Answers,
         Waits, Answer, Become, NoSignal, Rest
  <2>1. TypeOK' /\ TimerOK'
    BY DEF TypeOK, TimerOK
  <2>2. AskedOK' /\ AnsweredOK'
    BY DEF TypeOK, AskedOK, AnsweredOK
  <2>3. ByeOK' /\ OrphanOK'
    BY DEF TypeOK, ByeOK, OrphanOK
  <2>4. LastWord' /\ MediaOK' /\ MediaStops'
    BY DEF TypeOK, LastWord, MediaOK, MediaStops, AskedOK
  <2> QED
    BY <2>1, <2>2, <2>3, <2>4
<1>2. ASSUME NEW r \in Invites, a3001_start_ringing_INVITE(r)
      PROVE  CoreOK'
  <2> USE <1>2 DEF a3001_start_ringing_INVITE, Arrives, ServerGets, Answers,
         Waits, Answer, Become, NoSignal, Rest
  <2>1. TypeOK' /\ TimerOK'
    BY DEF TypeOK, TimerOK
  <2>2. AskedOK' /\ AnsweredOK'
    BY DEF TypeOK, AskedOK, AnsweredOK
  <2>3. ByeOK' /\ OrphanOK'
    BY DEF TypeOK, ByeOK, OrphanOK
  <2>4. LastWord' /\ MediaOK' /\ MediaStops'
    BY DEF TypeOK, LastWord, MediaOK, MediaStops, AskedOK
  <2> QED
    BY <2>1, <2>2, <2>3, <2>4
<1>3. ASSUME NEW r \in Invites, a3006_start_termwait_INVITE(r)
      PROVE  CoreOK'
  <2> USE <1>3 DEF a3006_start_termwait_INVITE, Arrives, ServerGets, Answers,
         Waits, Answer, Become, Finally, NoSignal, Rest
  <2>1. TypeOK' /\ TimerOK'
    BY DEF TypeOK, TimerOK
  <2>2. AskedOK' /\ AnsweredOK'
    BY DEF TypeOK, AskedOK, AnsweredOK
  <2>3. ByeOK' /\ OrphanOK'
    BY DEF TypeOK, ByeOK, OrphanOK, AskedOK, AnsweredOK
  <2>4. LastWord' /\ MediaOK' /\ MediaStops'
    BY DEF TypeOK, LastWord, MediaOK, MediaStops, AskedOK
  <2> QED
    BY <2>1, <2>2, <2>3, <2>4
<1>4. CASE a3002_ringing_incall_accept
  <2> USE <1>4 DEF a3002_ringing_incall_accept, Answers, Waits, Answer, Become,
         Finally, NoSignal, Rest
  <2>1. TypeOK' /\ TimerOK'
    BY DEF TypeOK, TimerOK
  <2>2. AskedOK' /\ AnsweredOK'
    BY DEF TypeOK, AskedOK, AnsweredOK
  <2>3. ByeOK' /\ OrphanOK'
    BY DEF TypeOK, ByeOK, OrphanOK
  <2>4. LastWord' /\ MediaOK' /\ MediaStops'
    BY DEF TypeOK, LastWord, MediaOK, MediaStops, AskedOK
  <2> QED
    BY <2>1, <2>2, <2>3, <2>4
<1>5. CASE a3003_ringing_termwait_BYE
  <2> USE <1>5 DEF a3003_ringing_termwait_BYE, Arrives, Answers, Waits, Answer,
         Become, NoSignal, Rest
  <2>1. TypeOK' /\ TimerOK'
    BY DEF TypeOK, TimerOK
  <2>2. AskedOK' /\ AnsweredOK'
    BY DEF TypeOK, AskedOK, AnsweredOK
  <2>3. ByeOK' /\ OrphanOK'
    BY DEF TypeOK, ByeOK, OrphanOK
  <2>4. LastWord' /\ MediaOK' /\ MediaStops'
    BY DEF TypeOK, LastWord, MediaOK, MediaStops, AskedOK
  <2> QED
    BY <2>1, <2>2, <2>3, <2>4
<1>6. CASE a3004_ringing_termwait_CANCEL
  <2> USE <1>6 DEF a3004_ringing_termwait_CANCEL, Arrives, Answers, Waits,
         Become, Finally, NoSignal, Rest
  <2>1. TypeOK' /\ TimerOK'
    BY DEF TypeOK, TimerOK
  <2>2. AskedOK' /\ AnsweredOK'
    BY DEF TypeOK, AskedOK, AnsweredOK
  <2>3. ByeOK' /\ OrphanOK'
    BY DEF TypeOK, ByeOK, OrphanOK
  <2>4. LastWord' /\ MediaOK' /\ MediaStops'
    BY DEF TypeOK, LastWord, MediaOK, MediaStops
  <2> QED
    BY <2>1, <2>2, <2>3, <2>4
<1>7. CASE a3005_ringing_termwait_reject
  <2> USE <1>7 DEF a3005_ringing_termwait_reject, Answers, Waits, Answer,
         Become, Finally, Rest, SignalIfNoTransactions, Live
  <2>1. TypeOK' /\ TimerOK'
    BY DEF TypeOK, TimerOK
  <2>2. AskedOK' /\ AnsweredOK'
    BY DEF TypeOK, AskedOK, AnsweredOK
  <2>3. ByeOK' /\ OrphanOK'
    BY DEF TypeOK, ByeOK, OrphanOK, AskedOK, AnsweredOK
  <2>4. LastWord' /\ MediaOK' /\ MediaStops'
    BY DEF TypeOK, LastWord, MediaOK, MediaStops, AskedOK
  <2> QED
    BY <2>1, <2>2, <2>3, <2>4
<1>8. ASSUME NEW r \in Pracks, a3008_100rel_ringing_PRACK(r)
      PROVE  CoreOK'
  <2> USE DEF Arrives, Acknowledges, Answers,
         Waits, Become, NoSignal, Rest
  <2>1. TypeOK' /\ TimerOK'
    BY <1>8 DEF a3008_100rel_ringing_PRACK, TypeOK, TimerOK
  <2>2. AskedOK' /\ AnsweredOK'
    <3>1. Invite \in Invites /\ sv[Invite] # "none" /\ "2xx" \notin resp[Invite]
      BY <1>8 DEF a3008_100rel_ringing_PRACK, AnsweredOK
    <3>2. \A q \in Request : sv'[q] = IF q = r THEN "completed" ELSE sv[q]
      BY <1>8, <3>1 DEF a3008_100rel_ringing_PRACK, TypeOK
    <3>3. /\ resp'[r] = resp[r] \union {"2xx"}
          /\ resp'[Invite] \in {resp[Invite], resp[Invite] \union {"180"}}
          /\ \A q \in Request \ {r, Invite} : resp'[q] = resp[q]
      BY <1>8, <3>1 DEF a3008_100rel_ringing_PRACK, TypeOK
    <3>4. AskedOK'
      BY <1>8, <3>3 DEF a3008_100rel_ringing_PRACK, TypeOK, AskedOK
    <3>5. AnsweredOK'
      <4>1. /\ "401" \notin resp[Invite] /\ resp[r] = {}
            /\ cl' = cl /\ cl[r] # "none" /\ r \notin Invites
        BY <1>8, <3>1 DEF a3008_100rel_ringing_PRACK, TypeOK, AnsweredOK
      <4>2. \A q \in Request : \A c \in resp'[q] :
              c \in resp[q] \/ (q = r /\ c = "2xx") \/ (q = Invite /\ c = "180")
        <5> TAKE q \in Request
        <5>1. CASE q = r
          BY <3>3, <5>1
        <5>2. CASE q = Invite
          BY <3>3, <5>2
        <5>3. CASE q # r /\ q # Invite
          BY <3>3, <5>3
        <5> QED
          BY <5>1, <5>2, <5>3
      <4>3. \A q \in Request : "401" \in resp'[q] => resp'[q] = resp[q] /\ q # r
        BY <3>3, <4>2, <4>1
      <4>4. dstate' = [dstate EXCEPT !["server"] = "ringing"] /\ dstate["server"] = "100rel"
        BY <1>8 DEF a3008_100rel_ringing_PRACK
      <4>5. UNCHANGED <<lastInvite, scenario, resends>>
        BY <1>8 DEF a3008_100rel_ringing_PRACK
      <4> QED
        BY <3>1, <3>2, <4>2, <4>3, <4>4, <4>5, <4>1 DEF TypeOK, AnsweredOK
    <3> QED
      BY <3>4, <3>5
  <2>3. ByeOK' /\ OrphanOK'
    BY <1>8 DEF a3008_100rel_ringing_PRACK, TypeOK, ByeOK, OrphanOK
  <2>4. LastWord' /\ MediaOK' /\ MediaStops'
    BY <1>8 DEF a3008_100rel_ringing_PRACK, TypeOK, LastWord, MediaOK,
       MediaStops, AskedOK
  <2> QED
    BY <2>1, <2>2, <2>3, <2>4
<1>9. ASSUME NEW r \in Pracks, a3010_any_any_PRACK(r)
      PROVE  CoreOK'
  <2> USE <1>9 DEF a3010_any_any_PRACK, Arrives, Acknowledges, Answers, Waits,
         Answer, NoSignal, Rest
  <2>1. TypeOK' /\ TimerOK'
    BY DEF TypeOK, TimerOK
  <2>2. AskedOK' /\ AnsweredOK'
    BY DEF TypeOK, AskedOK, AnsweredOK
  <2>3. ByeOK' /\ OrphanOK'
    BY DEF TypeOK, ByeOK, OrphanOK
  <2>4. LastWord' /\ MediaOK' /\ MediaStops'
    BY DEF TypeOK, LastWord, MediaOK, MediaStops, AskedOK
  <2> QED
    BY <2>1, <2>2, <2>3, <2>4
<1>10. CASE a3009_any_any_ResendTimer1xx
  <2> USE DEF Finally, Become
  <2>1. ASSUME UNCHANGED <<dstate, media, gui, sv, resp>>, UNCHANGED finals,
               UNCHANGED <<noTransactions, lastInvite, remoteTag, isTerminated>>,
               UNCHANGED <<cl, timedOut, lastProvisional, rseqNo>>,
               ~Server({"start"}), resendTimer' = resendTimer \/ resendTimer' = FALSE,
               \/ resends' = resends
               \/ resends' = resends + 1 /\ resends' < GiveUp
        PROVE  CoreOK'
    <3>1. resends # GiveUp \/ resends' = resends
      BY <2>1
    <3>2. resendTimer' \in BOOLEAN /\ (resendTimer' => resendTimer)
      <4>1. resendTimer \in BOOLEAN
        BY DEF TypeOK
      <4> QED
        BY <2>1, <4>1, Falling
    <3>3. TypeOK'
      BY <2>1, <3>2 DEF TypeOK
    <3>4. TimerOK'
      BY <2>1, <3>1, <3>2 DEF TypeOK, TimerOK
    <3>5. AskedOK' /\ AnsweredOK'
      BY <2>1, <3>1 DEF TypeOK, AskedOK, AnsweredOK
    <3>6. ByeOK' /\ OrphanOK'
      BY <2>1, <3>1 DEF TypeOK, ByeOK, OrphanOK
    <3>7. LastWord' /\ MediaOK' /\ MediaStops'
      BY <2>1 DEF LastWord, MediaOK, MediaStops
    <3> QED
      BY <3>5, <3>6, <3>7, <3>3, <3>4
  <2>2. CASE resendTimer /\ lastProvisional # "none" /\ resends + 1 = GiveUp
    <3>1. ~(resends + 1 < GiveUp)
      BY <2>2
    <3>2. /\ Invite \in Request /\ Invite \in Invites /\ ~Server({"start", "terminated"})
          /\ resends' = GiveUp /\ resendTimer' = FALSE /\ finals' = finals + 1
          /\ UNCHANGED <<lastInvite, remoteTag, cl, timedOut, isTerminated>>
          /\ UNCHANGED <<lastProvisional, rseqNo, rseqSeen, scenario>>
          /\ Become("server", dstate["server"], FALSE, "ended")
          /\ SignalIfNoTransactions("server", {})
      BY <1>10, <2>2, <3>1 DEF a3009_any_any_ResendTimer1xx, AnsweredOK,
         Finally
    <3>3. /\ sv' = [sv EXCEPT ![Invite] = IF @ = "trying" THEN "completed" ELSE @]
          /\ resp' = [resp EXCEPT ![Invite] = IF sv[Invite] = "trying"
                                               THEN @ \union {"36x"} ELSE @]
      BY <1>10, <2>2, <3>1 DEF a3009_any_any_ResendTimer1xx
    <3>4. /\ dstate' = dstate
          /\ media' = [media EXCEPT !["server"] = FALSE]
          /\ gui' = [gui EXCEPT !["server"] = "ended"]
      BY <3>2 DEF Become, TypeOK
    <3>5. TypeOK' /\ TimerOK'
      <4>1. noTransactions' \in [Dialogs -> BOOLEAN]
        BY <3>2 DEF SignalIfNoTransactions, TypeOK
      <4>2. /\ sv' \in [Request -> {"none", "trying", "completed", "gone"}]
            /\ resp' \in [Request -> SUBSET (Provisional \union Final)]
        BY <3>2, <3>3 DEF TypeOK
      <4>3. resends' \in 0 .. GiveUp
        BY <3>2
      <4>4. resendTimer' \in BOOLEAN
        BY <3>2
      <4>5. finals' \in 0 .. 3
        <5>1. finals \in 0 .. 3 /\ resends # GiveUp /\ finals <= 1
          BY <2>2 DEF TypeOK, TimerOK
        <5> QED
          BY <3>2, <5>1
      <4>6. TypeOK'
        BY <3>2, <3>4, <4>1, <4>2, <4>3, <4>5, <4>4 DEF TypeOK
      <4>7. TimerOK'
        BY <2>2, <3>2, <3>4 DEF TypeOK, TimerOK
      <4> QED
        BY <4>6, <4>7
    <3>6. AskedOK' /\ AnsweredOK'
      BY <3>2, <3>3, <3>4 DEF TypeOK, AskedOK, AnsweredOK
    <3>7. ByeOK' /\ OrphanOK'
      BY <3>2, <3>3, <3>4 DEF TypeOK, ByeOK, OrphanOK
    <3>8. LastWord' /\ MediaOK' /\ MediaStops'
      BY <3>2, <3>3, <3>4 DEF TypeOK, LastWord, MediaOK, MediaStops
    <3> QED
      BY <3>5, <3>6, <3>7, <3>8
  <2> QED
    BY <1>10, <2>1, <2>2 DEF a3009_any_any_ResendTimer1xx, TypeOK
<1> QED
  BY <1>1, <1>2, <1>3, <1>4, <1>5, <1>6, <1>7, <1>8, <1>9, <1>10 DEF Called,
     ServerNext

(* Requests and responses no dialog takes, timeouts, the proxy, and the    *)
(* BYE of an early dialog.                                                 *)
LEMMA OthersKeep ==
  ASSUME CoreOK, Others, UNCHANGED scenario
  PROVE  CoreOK'
<1> USE Roles, GiveUpAssumption DEF CoreOK, Dialogs, Request, ByClient,
       ByServer, Invites, Pracks, Provisional, Final, Server, Client, Over, Up,
       Early, Ending, Unanswered, Done, Bye, Refer, From, use100Rel, Excused,
       InCall, DialogState, dialogVars, serverVars, baseVars, Invite, Reliable
<1>1. ASSUME NEW r \in Request, NEW d \in Dialogs, defaultHandler(r, d)
      PROVE  CoreOK'
  <2> USE <1>1 DEF defaultHandler, Arrives, Absent, Answers, Waits, Answer
  <2>1. TypeOK' /\ TimerOK'
    BY DEF TypeOK, TimerOK
  <2>2. AskedOK' /\ AnsweredOK'
    BY DEF TypeOK, AskedOK, AnsweredOK
  <2>3. ByeOK' /\ OrphanOK'
    BY DEF TypeOK, ByeOK, OrphanOK
  <2>4. LastWord' /\ MediaOK' /\ MediaStops'
    BY DEF TypeOK, LastWord, MediaOK, MediaStops, AskedOK
  <2> QED
    BY <2>1, <2>2, <2>3, <2>4
<1>2. ASSUME NEW r \in Request, NEW d \in Dialogs, ignoresRequest(r, d)
      PROVE  CoreOK'
  <2> USE <1>2 DEF ignoresRequest, Arrives, Takes, Absent, Acknowledges,
         Answers, Waits, NoAnswer
  <2>1. TypeOK' /\ TimerOK'
    BY DEF TypeOK, TimerOK
  <2>2. AskedOK' /\ AnsweredOK'
    BY DEF TypeOK, AskedOK, AnsweredOK
  <2>3. ByeOK' /\ OrphanOK'
    BY DEF TypeOK, ByeOK, OrphanOK
  <2>4. LastWord' /\ MediaOK' /\ MediaStops'
    BY DEF TypeOK, LastWord, MediaOK, MediaStops
  <2> QED
    BY <2>1, <2>2, <2>3, <2>4
<1>3. ASSUME NEW r \in Request, NEW d \in Dialogs, ignoresResponse(r, d)
      PROVE  CoreOK'
  <2> USE <1>3 DEF ignoresResponse, Receives
  <2>1. TypeOK' /\ TimerOK'
    BY DEF TypeOK, TimerOK
  <2>2. AskedOK' /\ AnsweredOK'
    BY DEF TypeOK, AskedOK, AnsweredOK
  <2>3. ByeOK' /\ OrphanOK'
    BY DEF TypeOK, ByeOK, OrphanOK
  <2>4. LastWord' /\ MediaOK' /\ MediaStops'
    BY DEF TypeOK, LastWord, MediaOK, MediaStops
  <2> QED
    BY <2>1, <2>2, <2>3, <2>4
<1>4. ASSUME NEW r \in Request, transportError(r)
      PROVE  CoreOK'
  <2> USE <1>4 DEF transportError
  <2>1. TypeOK' /\ TimerOK'
    BY DEF TypeOK, TimerOK
  <2>2. AskedOK' /\ AnsweredOK'
    BY DEF TypeOK, AskedOK, AnsweredOK
  <2>3. ByeOK' /\ OrphanOK'
    BY DEF TypeOK, ByeOK, OrphanOK
  <2>4. LastWord' /\ MediaOK' /\ MediaStops'
    BY DEF TypeOK, LastWord, MediaOK, MediaStops
  <2> QED
    BY <2>1, <2>2, <2>3, <2>4
<1>5. ASSUME NEW r \in Request, proxyAnswers(r)
      PROVE  CoreOK'
  <2> USE <1>5 DEF proxyAnswers, Arrives
  <2>1. TypeOK' /\ TimerOK'
    BY DEF TypeOK, TimerOK
  <2>2. AskedOK' /\ AnsweredOK'
    BY DEF TypeOK, AskedOK, AnsweredOK
  <2>3. ByeOK' /\ OrphanOK'
    BY DEF TypeOK, ByeOK, OrphanOK, AnsweredOK
  <2>4. LastWord' /\ MediaOK' /\ MediaStops'
    BY DEF TypeOK, LastWord, MediaOK, MediaStops, AnsweredOK
  <2> QED
    BY <2>1, <2>2, <2>3, <2>4
<1>6. CASE earlyBye
  <2> USE <1>6 DEF earlyBye, Sends, Sent, Become
  <2>1. TypeOK' /\ TimerOK'
    BY DEF TypeOK, TimerOK
  <2>2. AskedOK' /\ AnsweredOK'
    BY DEF TypeOK, AskedOK, AnsweredOK
  <2>3. ByeOK' /\ OrphanOK'
    BY DEF TypeOK, ByeOK, OrphanOK
  <2>4. LastWord' /\ MediaOK' /\ MediaStops'
    BY DEF TypeOK, LastWord, MediaOK, MediaStops
  <2> QED
    BY <2>1, <2>2, <2>3, <2>4
<1> QED
  BY <1>1, <1>2, <1>3, <1>4, <1>5, <1>6 DEF Others

(* The end of transactions that have concluded.                            *)
LEMMA EndsKeep ==
  ASSUME CoreOK, Ends, UNCHANGED scenario
  PROVE  CoreOK'
<1> USE Roles, GiveUpAssumption DEF CoreOK, Dialogs, Request, ByClient,
       ByServer, Invites, Pracks, Provisional, Final, Server, Client, Over, Up,
       Early, Ending, Unanswered, Done, Bye, Refer, From, use100Rel, Excused,
       InCall, DialogState, dialogVars, serverVars, baseVars, Invite, Reliable
<1>1. ASSUME NEW d \in Dialogs, TransactionsEnd(d)
      PROVE  CoreOK'
  <2> USE <1>1 DEF TransactionsEnd, Completed, SignalIfNoTransactions, Live
  <2>1. TypeOK' /\ TimerOK'
    BY DEF TypeOK, TimerOK
  <2>2. AskedOK' /\ AnsweredOK'
    BY DEF TypeOK, AskedOK, AnsweredOK
  <2>3. ByeOK' /\ OrphanOK'
    BY DEF TypeOK, ByeOK, OrphanOK
  <2>4. LastWord' /\ MediaOK' /\ MediaStops'
    BY DEF TypeOK, LastWord, MediaOK, MediaStops, AskedOK
  <2> QED
    BY <2>1, <2>2, <2>3, <2>4
<1> QED
  BY <1>1 DEF Ends

----------------------------------------------------------------------------
(* EndIsSignalled.  A step other than the end of transactions ends none;   *)
(* if it enters termwait a transaction is left or the user has refused too *)
(* late, and in termwait neither no_transactions nor that is forgotten.    *)
Quiet ==
  /\ \A r \in Request :
       /\ cl[r] \in Unanswered \union {"completed"} => cl'[r] \in Unanswered \union {"completed"}
       /\ sv[r] \in {"trying", "completed"} => sv'[r] \in {"trying", "completed"}
  /\ \A d \in Dialogs : dstate'[d] = "termwait" =>
       /\ dstate[d] = "termwait" \/ Live(d)' # {} \/ (d = "server" /\ RefusedTooLate')
       /\ noTransactions[d] => noTransactions'[d]

LateStays == LateOK' /\ (Server({"termwait"}) /\ RefusedTooLate => RefusedTooLate')

LEMMA QuietSignals ==
  ASSUME EndIsSignalled, Quiet, LateStays
  PROVE  EndIsSignalled'
<1>1. \A d \in Dialogs : Live(d) \subseteq Live(d)'
  BY DEF Quiet, Live, Unanswered
<1>2. ASSUME NEW d \in Dialogs, dstate'[d] = "termwait", Live(d)' = {}
      PROVE  noTransactions'[d] \/ (d = "server" /\ RefusedTooLate')
  <2>1. Live(d) = {}
    BY <1>1, <1>2
  <2>2. CASE dstate[d] = "termwait"
    BY <2>1, <2>2, <1>2 DEF Quiet, LateStays, EndIsSignalled, Server
  <2>3. CASE dstate[d] # "termwait"
    BY <2>3, <1>2 DEF Quiet
  <2> QED
    BY <2>2, <2>3
<1> QED
  BY <1>2 DEF EndIsSignalled

(* What a step that is none of the called dialog leaves alone.             *)
LeavesServer ==
  /\ dstate'["server"] = dstate["server"] \/ dstate'["server"] \notin Early
  /\ dstate'["server"] \in Early => lastInvite'["server"] = lastInvite["server"]
  /\ UNCHANGED <<resends, finals>>
  /\ \A q \in Invites : sv[q] = "trying" => sv'[q] = "trying"
  /\ "2xx" \in resp'["CANCEL"] => "2xx" \in resp["CANCEL"]

LEMMA LateLeft ==
  ASSUME CoreOK, LateOK, LeavesServer
  PROVE  LateStays
<1>1. Server({"100rel", "ringing"}) => Invite \in Invites
  BY DEF CoreOK, AnsweredOK, Server, Invite
<1> QED
  BY <1>1 DEF LateOK, LeavesServer, LateStays, RefusedTooLate, Server, Early, Invite

LEMMA OthersLate ==
  ASSUME CoreOK, LateOK,
         \/ \E d \in Dialogs : BaseNext(d) /\ UNCHANGED <<rseqSeen, serverVars>>
         \/ Caller \/ Others \/ Ends
  PROVE  LateStays
<1> USE Roles DEF CoreOK, TypeOK, Dialogs, Request, ByClient, ByServer, Invites,
       Pracks, Final, Server, Client, Early, Bye, Refer, From, InCall,
       dialogVars, serverVars
<1>1. ASSUME NEW d \in Dialogs, BaseNext(d), UNCHANGED <<rseqSeen, serverVars>>
      PROVE  LeavesServer
  <2> USE DEF LeavesServer, Become, Answers, Answer, Arrives, Waits
  <2>1. CASE a1001_incall_termwait_BYE(d)
    BY <1>1, <2>1 DEF a1001_incall_termwait_BYE
  <2>2. CASE a1002_incall_byerequest_hangup(d)
    BY <1>1, <2>2 DEF a1002_incall_byerequest_hangup
  <2>3. CASE a1003_byerequest_termwait_26(d)
    BY <1>1, <2>3 DEF a1003_byerequest_termwait_26
  <2>4. CASE a1101_termwait_terminated_notransactions(d)
    BY <1>1, <2>4 DEF a1101_termwait_terminated_notransactions
  <2>5. CASE a1201_incall_transferrequested_transfer(d)
    BY <1>1, <2>5 DEF a1201_incall_transferrequested_transfer
  <2>6. CASE a1202_transferrequested_transferpending_202(d)
    BY <1>1, <2>6 DEF a1202_transferrequested_transferpending_202
  <2>7. CASE a1203_transferrequested_incall_36(d)
    BY <1>1, <2>7 DEF a1203_transferrequested_incall_36
  <2>8. CASE a1301_incall_transferaskuser_REFER(d)
    BY <1>1, <2>8 DEF a1301_incall_transferaskuser_REFER, NoAnswer
  <2>9. CASE a1302_transferaskuser_transferstarted_accept(d)
    BY <1>1, <2>9 DEF a1302_transferaskuser_transferstarted_accept
  <2>10. CASE a1303_transferaskuser_incall_refuse(d)
    BY <1>1, <2>10 DEF a1303_transferaskuser_incall_refuse
  <2> QED
    BY <1>1, <2>1, <2>2, <2>3, <2>4, <2>5, <2>6, <2>7, <2>8, <2>9, <2>10 DEF BaseNext
<1>2. ASSUME Caller
      PROVE  LeavesServer
  <2> USE DEF LeavesServer, Become, ClientTag
  <2>1. UNCHANGED <<sv, resp, resends, finals>>
    BY <1>2 DEF Caller, ClientNext, a2001_start_calling_invite,
       a2002_calling_calling_18X, a2004_calling_incall_2xx,
       a2006_calling_termwait_cancel, a2007_calling_termwait_36,
       a2008_calling_calling_40X, a2012_calling_termwait_2xx, a2017_any_any_2XX,
       a2013_calling_termwait_transporterror
  <2>2. /\ dstate'["server"] = dstate["server"]
        /\ lastInvite'["server"] = lastInvite["server"]
    BY <1>2 DEF Caller, ClientNext, a2001_start_calling_invite,
       a2002_calling_calling_18X, a2004_calling_incall_2xx,
       a2006_calling_termwait_cancel, a2007_calling_termwait_36,
       a2008_calling_calling_40X, a2012_calling_termwait_2xx, a2017_any_any_2XX,
       a2013_calling_termwait_transporterror
  <2> QED
    BY <2>1, <2>2
<1>3. ASSUME Others
      PROVE  LeavesServer
  <2> USE DEF LeavesServer, Answers, Arrives, Waits
  <2>1. ASSUME NEW r \in Request, NEW d \in Dialogs, defaultHandler(r, d)
        PROVE  LeavesServer
    BY <2>1 DEF defaultHandler, Answer
  <2>2. ASSUME NEW r \in Request, NEW d \in Dialogs, ignoresRequest(r, d)
        PROVE  LeavesServer
    BY <2>2 DEF ignoresRequest, NoAnswer
  <2>3. ASSUME NEW r \in Request, NEW d \in Dialogs, ignoresResponse(r, d)
        PROVE  LeavesServer
    BY <2>3 DEF ignoresResponse
  <2>4. ASSUME NEW r \in Request, transportError(r)
        PROVE  LeavesServer
    BY <2>4 DEF transportError
  <2>5. ASSUME NEW r \in Request, proxyAnswers(r)
        PROVE  LeavesServer
    BY <2>5 DEF proxyAnswers
  <2>6. CASE earlyBye
    BY <2>6 DEF earlyBye, Become
  <2> HIDE DEF LeavesServer
  <2> QED
    BY <1>3, <2>1, <2>2, <2>3, <2>4, <2>5, <2>6 DEF Others
<1>4. ASSUME Ends
      PROVE  LeavesServer
  BY <1>4 DEF Ends, TransactionsEnd, Completed, LeavesServer
<1> HIDE DEF CoreOK
<1> QED
  BY <1>1, <1>2, <1>3, <1>4, LateLeft

(* The timer answers an INVITE that waits, and the user refuses too late    *)
(* only after that.                                                        *)
LEMMA CalledLate ==
  ASSUME CoreOK, LateOK, Called
  PROVE  LateStays
<1> USE DEF LateStays, LateOK, RefusedTooLate, Server, Early, Invite
<1>1. /\ sv \in [Request -> {"none", "trying", "completed", "gone"}]
      /\ resp \in [Request -> SUBSET (Provisional \union Final)]
      /\ dstate \in [Dialogs -> DialogState] /\ GiveUp \in Nat /\ finals \in Nat
      /\ lastInvite \in [Dialogs -> Invites \union {"none"}]
      /\ resendTimer => resends < GiveUp
      /\ ~Server({"start", "terminated"}) => Invite \in Invites
  BY GiveUpAssumption DEF CoreOK, TypeOK, TimerOK, AnsweredOK
<1> USE <1>1 DEF Dialogs, Request, ByClient, ByServer, Invites, Pracks, Final,
       Become, Answers, Answer, Waits, Arrives, Rest
<1>2. ASSUME NEW r \in Invites, a3007_start_100rel_INVITE(r)
      PROVE  LateStays
  BY <1>2 DEF a3007_start_100rel_INVITE, ServerGets
<1>3. ASSUME NEW r \in Invites, a3001_start_ringing_INVITE(r)
      PROVE  LateStays
  BY <1>3 DEF a3001_start_ringing_INVITE, ServerGets
<1>4. ASSUME NEW r \in Invites, a3006_start_termwait_INVITE(r)
      PROVE  LateStays
  BY <1>4 DEF a3006_start_termwait_INVITE, ServerGets
<1>5. CASE a3002_ringing_incall_accept
  BY <1>5 DEF a3002_ringing_incall_accept
<1>6. CASE a3003_ringing_termwait_BYE
  BY <1>6 DEF a3003_ringing_termwait_BYE
<1>7. CASE a3004_ringing_termwait_CANCEL
  BY <1>7 DEF a3004_ringing_termwait_CANCEL
<1>8. CASE a3005_ringing_termwait_reject
  BY <1>8 DEF a3005_ringing_termwait_reject
<1>9. ASSUME NEW r \in Pracks, a3008_100rel_ringing_PRACK(r)
      PROVE  LateStays
  BY <1>9 DEF a3008_100rel_ringing_PRACK
<1>10. ASSUME NEW r \in Pracks, a3010_any_any_PRACK(r)
       PROVE  LateStays
  BY <1>10 DEF a3010_any_any_PRACK
<1>11. CASE a3009_any_any_ResendTimer1xx
  <2>1. /\ dstate' = dstate /\ lastInvite' = lastInvite
        /\ resendTimer /\ resends < GiveUp
    BY <1>11 DEF a3009_any_any_ResendTimer1xx
  <2>2. \/ UNCHANGED <<sv, resp, finals>>
        \/ /\ resends' = resends + 1 /\ resends + 1 = GiveUp /\ finals' = finals + 1
           /\ resp'["CANCEL"] = resp["CANCEL"]
    BY <1>11 DEF a3009_any_any_ResendTimer1xx, Finally
  <2> QED
    BY <2>1, <2>2
<1> QED
  BY <1>2, <1>3, <1>4, <1>5, <1>6, <1>7, <1>8, <1>9, <1>10, <1>11 DEF Called,
     ServerNext

(* The steps in the order of the lemmas above: each is quiet.              *)
LEMMA BaseQuiet ==
  ASSUME CoreOK, NEW d \in Dialogs, BaseNext(d)
  PROVE  Quiet
<1> USE Roles DEF CoreOK, TypeOK, Quiet, Live, Dialogs, Request, ByClient,
       ByServer, Invites, Pracks, Final, Server, Client, Unanswered, Done, Bye,
       From, InCall, dialogVars, serverVars, Invite
<1>1. CASE a1001_incall_termwait_BYE(d)
  BY <1>1 DEF a1001_incall_termwait_BYE, Arrives, Become, Answers, Waits,
     Answer, NoSignal
<1>2. CASE a1002_incall_byerequest_hangup(d)
  BY <1>2 DEF a1002_incall_byerequest_hangup, Sends, Sent, Become,
     SignalIfNoTransactions
<1>3. CASE a1003_byerequest_termwait_26(d)
  BY <1>3 DEF a1003_byerequest_termwait_26, Receives, Become, Progress
<1>4. CASE a1101_termwait_terminated_notransactions(d)
  BY <1>4 DEF a1101_termwait_terminated_notransactions, Become
<1>5. CASE a1201_incall_transferrequested_transfer(d)
  BY <1>5 DEF a1201_incall_transferrequested_transfer, Sends, Sent, Become
<1>6. CASE a1202_transferrequested_transferpending_202(d)
  BY <1>6 DEF a1202_transferrequested_transferpending_202, Receives, Become,
     SignalIfNoTransactions
<1>7. CASE a1203_transferrequested_incall_36(d)
  BY <1>7 DEF a1203_transferrequested_incall_36, Receives, Become
<1>8. CASE a1301_incall_transferaskuser_REFER(d)
  BY <1>8 DEF a1301_incall_transferaskuser_REFER, Arrives, Answers, Waits,
     NoAnswer, Become
<1>9. CASE a1302_transferaskuser_transferstarted_accept(d)
  BY <1>9 DEF a1302_transferaskuser_transferstarted_accept, Answers, Waits,
     Answer, Become
<1>10. CASE a1303_transferaskuser_incall_refuse(d)
  BY <1>10 DEF a1303_transferaskuser_incall_refuse, Answers, Waits, Answer,
     Become
<1> QED
  BY <1>1, <1>2, <1>3, <1>4, <1>5, <1>6, <1>7, <1>8, <1>9, <1>10 DEF BaseNext

LEMMA CallerQuiet ==
  ASSUME CoreOK, Caller
  PROVE  Quiet
<1> USE Roles DEF CoreOK, TypeOK, Quiet, Live, Dialogs, Request, ByClient,
       ByServer, Invites, Pracks, Final, Server, Client, Unanswered, Done, Bye,
       From, InCall, dialogVars, serverVars, Invite
<1>1. CASE a2001_start_calling_invite
  BY <1>1 DEF a2001_start_calling_invite, Sends, Sent, Become, AskedOK
<1>2. CASE a2002_calling_calling_18X
  BY <1>2 DEF a2002_calling_calling_18X, Receives, ClientTag, Sent, Become,
     SignalIfNoTransactions, AskedOK
<1>3. CASE a2004_calling_incall_2xx
  BY <1>3 DEF a2004_calling_incall_2xx, Receives, ClientTag, Become, AskedOK
<1>4. CASE a2006_calling_termwait_cancel
  BY <1>4 DEF a2006_calling_termwait_cancel, Sends, Sent, Become,
     SignalIfNoTransactions, AskedOK
<1>5. CASE a2007_calling_termwait_36
  BY <1>5 DEF a2007_calling_termwait_36, Receives, Become,
     SignalIfNoTransactions, AskedOK
<1>6. CASE a2008_calling_calling_40X
  BY <1>6 DEF a2008_calling_calling_40X, Receives, AskedOK
<1>7. CASE a2012_calling_termwait_2xx
  BY <1>7 DEF a2012_calling_termwait_2xx, Receives, ClientTag, Become,
     SignalIfNoTransactions, AskedOK
<1>8. CASE a2017_any_any_2XX
  BY <1>8 DEF a2017_any_any_2XX, Sends, Sent, AskedOK
<1>9. ASSUME NEW r \in ByClient, a2013_calling_termwait_transporterror(r)
      PROVE  Quiet
  BY <1>9 DEF a2013_calling_termwait_transporterror, Become,
     SignalIfNoTransactions, AskedOK
<1> QED
  BY <1>1, <1>2, <1>3, <1>4, <1>5, <1>6, <1>7, <1>8, <1>9 DEF Caller,
     ClientNext

LEMMA CalledQuiet ==
  ASSUME CoreOK, LateOK, Called
  PROVE  Quiet
<1> USE Roles DEF CoreOK, TypeOK, Quiet, Live, Dialogs, Request, ByClient,
       ByServer, Invites, Pracks, Final, Server, Client, Unanswered, Done, Bye,
       From, InCall, dialogVars, serverVars, Invite
<1>1. ASSUME NEW r \in Invites, a3007_start_100rel_INVITE(r)
      PROVE  Quiet
  BY <1>1 DEF a3007_start_100rel_INVITE, Arrives, ServerGets, Answers, Waits,
     Answer, Become, NoSignal, Rest, AnsweredOK
<1>2. ASSUME NEW r \in Invites, a3001_start_ringing_INVITE(r)
      PROVE  Quiet
  BY <1>2 DEF a3001_start_ringing_INVITE, Arrives, ServerGets, Answers, Waits,
     Answer, Become, NoSignal, Rest, AnsweredOK
<1>3. ASSUME NEW r \in Invites, a3006_start_termwait_INVITE(r)
      PROVE  Quiet
  BY <1>3 DEF a3006_start_termwait_INVITE, Arrives, ServerGets, Answers, Waits,
     Answer, Become, Finally, NoSignal, Rest, AnsweredOK
<1>4. CASE a3002_ringing_incall_accept
  BY <1>4 DEF a3002_ringing_incall_accept, Answers, Waits, Answer, Become,
     Finally, NoSignal, Rest, AnsweredOK
<1>5. CASE a3003_ringing_termwait_BYE
  BY <1>5 DEF a3003_ringing_termwait_BYE, Arrives, Answers, Waits, Answer,
     Become, NoSignal, Rest, AnsweredOK
<1>6. CASE a3004_ringing_termwait_CANCEL
  BY <1>6 DEF a3004_ringing_termwait_CANCEL, Arrives, Answers, Waits, Become,
     Finally, NoSignal, Rest, AnsweredOK
<1>7. CASE a3005_ringing_termwait_reject
  <2>1. Invite \in Invites /\ finals \in Nat /\ isTerminated' = isTerminated
    BY <1>7 DEF a3005_ringing_termwait_reject, Rest, AnsweredOK
  <2>2. sv[Invite] = "trying" => sv'[Invite] = "completed" /\ lastInvite' = lastInvite
    BY <1>7, <2>1 DEF a3005_ringing_termwait_reject, Answers, Waits, Answer
  <2>3. sv[Invite] # "trying" => RefusedTooLate'
    BY <1>7, <2>1 DEF a3005_ringing_termwait_reject, Answers, Waits, Answer,
       Finally, Reliable, RefusedTooLate, LateOK, Early
  <2> QED
    BY <1>7, <2>1, <2>2, <2>3 DEF a3005_ringing_termwait_reject, Answers, Waits,
       Answer, Become, Rest, SignalIfNoTransactions
<1>8. ASSUME NEW r \in Pracks, a3008_100rel_ringing_PRACK(r)
      PROVE  Quiet
  BY <1>8 DEF a3008_100rel_ringing_PRACK, Arrives, Acknowledges, Answers,
     Waits, Become, NoSignal, Rest, AnsweredOK
<1>9. ASSUME NEW r \in Pracks, a3010_any_any_PRACK(r)
      PROVE  Quiet
  BY <1>9 DEF a3010_any_any_PRACK, Arrives, Acknowledges, Answers, Waits,
     Answer, NoSignal, Rest, AnsweredOK
<1>10. CASE a3009_any_any_ResendTimer1xx
  <2>1. dstate' = dstate
    BY <1>10 DEF a3009_any_any_ResendTimer1xx, Become
  <2>2. \A d \in Dialogs : noTransactions[d] => noTransactions'[d]
    <3>1. noTransactions' = noTransactions \/ SignalIfNoTransactions("server", {})
      BY <1>10 DEF a3009_any_any_ResendTimer1xx
    <3>2. CASE noTransactions' = noTransactions
      BY <3>2
    <3>3. CASE SignalIfNoTransactions("server", {})
      BY <3>3 DEF SignalIfNoTransactions
    <3> QED
      BY <3>1, <3>2, <3>3
  <2>3. cl' = cl /\ \A r \in Request : sv'[r] = sv[r] \/ (sv[r] = "trying" /\ sv'[r] = "completed")
    <3>1. /\ cl' = cl
          /\ \/ sv' = sv
             \/ sv' = [sv EXCEPT ![Invite] = IF sv[Invite] = "trying"
                                              THEN "completed" ELSE sv[Invite]]
      BY <1>10 DEF a3009_any_any_ResendTimer1xx
    <3> QED
      BY <3>1
  <2> QED
    BY <2>1, <2>2, <2>3
<1> QED
  BY <1>1, <1>2, <1>3, <1>4, <1>5, <1>6, <1>7, <1>8, <1>9, <1>10 DEF Called,
     ServerNext

LEMMA OthersQuiet ==
  ASSUME CoreOK, Others
  PROVE  Quiet
<1> USE Roles DEF CoreOK, TypeOK, Quiet, Live, Dialogs, Request, ByClient,
       ByServer, Invites, Pracks, Final, Server, Client, Unanswered, Done, Bye,
       From, InCall, dialogVars, serverVars, Invite
<1>1. ASSUME NEW r \in Request, NEW d \in Dialogs, defaultHandler(r, d)
      PROVE  Quiet
  BY <1>1 DEF defaultHandler, Arrives, Absent, Answers, Waits, Answer, AskedOK
<1>2. ASSUME NEW r \in Request, NEW d \in Dialogs, ignoresRequest(r, d)
      PROVE  Quiet
  BY <1>2 DEF ignoresRequest, Arrives, Takes, Absent, Acknowledges, Answers,
     Waits, NoAnswer, AskedOK
<1>3. ASSUME NEW r \in Request, NEW d \in Dialogs, ignoresResponse(r, d)
      PROVE  Quiet
  BY <1>3 DEF ignoresResponse, Receives, AskedOK
<1>4. ASSUME NEW r \in Request, transportError(r)
      PROVE  Quiet
  BY <1>4 DEF transportError, AskedOK
<1>5. ASSUME NEW r \in Request, proxyAnswers(r)
      PROVE  Quiet
  BY <1>5 DEF proxyAnswers, Arrives, AskedOK
<1>6. CASE earlyBye
  BY <1>6 DEF earlyBye, Sends, Sent, Become, AskedOK
<1> HIDE DEF Quiet
<1> QED
  BY <1>1, <1>2, <1>3, <1>4, <1>5, <1>6 DEF Others

(* The end of the last transaction is the one that is signalled.           *)
LEMMA EndsSignal ==
  ASSUME CoreOK, EndIsSignalled, Ends
  PROVE  EndIsSignalled'
<1> USE Roles DEF CoreOK, TypeOK, Dialogs, Request, ByClient, ByServer, Invites, Pracks, From
<1>1. PICK d \in Dialogs : TransactionsEnd(d)
  BY DEF Ends
<1>2. dstate' = dstate /\ isTerminated' = isTerminated
  BY <1>1 DEF TransactionsEnd, dialogVars
<1>3. \A e \in Dialogs : noTransactions[e] => noTransactions'[e]
  BY <1>1 DEF TransactionsEnd, SignalIfNoTransactions
<1>4. ASSUME NEW e \in Dialogs, e # d
      PROVE  Live(e)' = Live(e)
  BY <1>1, <1>4 DEF TransactionsEnd, Completed, Live
<1>5. Live(d) \subseteq Completed(d) \union Live(d)'
  BY <1>1 DEF TransactionsEnd, Completed, Live
<1>6. dstate[d] = "termwait" /\ Live(d)' = {} => noTransactions'[d]
  BY <1>1, <1>2, <1>5 DEF TransactionsEnd, SignalIfNoTransactions
<1>7. RefusedTooLate' = RefusedTooLate
  BY <1>1 DEF TransactionsEnd, RefusedTooLate, serverVars
<1> QED
  BY <1>2, <1>3, <1>4, <1>6, <1>7 DEF EndIsSignalled

----------------------------------------------------------------------------
(* The three facts of the invariance proof.                                *)
LEMMA InitIInv == Init => IInv
<1> SUFFICES ASSUME Init
             PROVE  IInv
  OBVIOUS
<1> USE GiveUpAssumption, Roles DEF Init, ClientInit, ServerInit, BaseInit
<1>1. TypeOK /\ TimerOK
  <2>1. TypeOK
    <3>1. {isTerminated, remoteTag, media, noTransactions} \subseteq [Dialogs -> BOOLEAN]
      OBVIOUS
    <3>2. /\ dstate \in [Dialogs -> DialogState] /\ gui \in [Dialogs -> {"none", "shown", "ended"}]
          /\ lastInvite \in [Dialogs -> Invites \union {"none"}]
      BY DEF DialogState
    <3>3. resends \in 0 .. GiveUp
      OBVIOUS
    <3>4. /\ cl \in [Request -> {"none", "trying", "proceeding", "completed", "gone"}]
          /\ sv \in [Request -> {"none", "trying", "completed", "gone"}]
          /\ resp \in [Request -> SUBSET (Provisional \union Final)]
      OBVIOUS
    <3>5. /\ timedOut = {} /\ scenario \in Scenarios /\ lastProvisional = "none"
          /\ rseqSeen = 0 /\ rseqNo = 0 /\ finals = 0 /\ resendTimer = FALSE
      OBVIOUS
    <3> HIDE DEF Init, ClientInit, ServerInit, BaseInit
    <3>6. timedOut \subseteq Request /\ resendTimer \in BOOLEAN
      BY <3>5
    <3>7. rseqSeen \in 0 .. 2 /\ rseqNo \in 0 .. 2 /\ finals \in 0 .. 3
      BY <3>5
    <3> QED
      BY <3>1, <3>2, <3>3, <3>4, <3>5, <3>6, <3>7 DEF TypeOK
  <2>2. TimerOK
    BY DEF TimerOK, Dialogs, Server, Early
  <2> QED
    BY <2>1, <2>2
<1>2. AskedOK /\ AnsweredOK
  BY DEF AskedOK, AnsweredOK, Dialogs, Client, Server, Early, Request,
     ByClient, ByServer, Invites, Pracks
<1>3. ByeOK /\ OrphanOK /\ LastWord /\ MediaOK /\ MediaStops /\ LateOK /\ EndIsSignalled
  BY DEF LateOK, Server, Early, ByeOK, OrphanOK, LastWord, MediaOK,
     MediaStops, EndIsSignalled,
     Dialogs, Over, Up, Client, Bye, Request, ByClient, ByServer, Pracks,
     Invites
<1> QED
  BY <1>1, <1>2, <1>3 DEF IInv, CoreOK

LEMMA NextIInv == IInv /\ [Next]_callVars => IInv'
<1> SUFFICES ASSUME IInv, [Next]_callVars
             PROVE  IInv'
  OBVIOUS
<1>1. CASE UNCHANGED callVars
  <2> USE <1>1 DEF callVars, baseVars, dialogVars, serverVars
  <2>1. TypeOK' /\ TimerOK'
    BY DEF IInv, CoreOK, TypeOK, TimerOK, Server
  <2>2. AskedOK' /\ AnsweredOK'
    BY DEF IInv, CoreOK, AskedOK, AnsweredOK, Client, Server, use100Rel, Over
  <2>3. ByeOK' /\ OrphanOK'
    BY DEF IInv, CoreOK, ByeOK, OrphanOK, Up, Over, Server, Client, Excused
  <2>4. LastWord' /\ MediaOK' /\ MediaStops'
    BY DEF IInv, CoreOK, LastWord, MediaOK, MediaStops, Over, Client
  <2>5. LateOK' /\ EndIsSignalled'
    BY DEF IInv, LateOK, Server, Invite, EndIsSignalled, Live, RefusedTooLate
  <2> QED
    BY <2>1, <2>2, <2>3, <2>4, <2>5 DEF IInv, CoreOK
<1>2. ASSUME NEW d \in Dialogs, BaseNext(d), UNCHANGED <<rseqSeen, serverVars, scenario>>
      PROVE  IInv'
  BY <1>2, BaseKeeps, BaseQuiet, OthersLate, QuietSignals DEF IInv, LateStays
<1>3. CASE Caller /\ UNCHANGED scenario
  BY <1>3, CallerKeeps, CallerQuiet, OthersLate, QuietSignals DEF IInv, LateStays
<1>4. CASE Called /\ UNCHANGED scenario
  BY <1>4, CalledKeeps, CalledQuiet, CalledLate, QuietSignals DEF IInv, LateStays
<1>5. CASE Others /\ UNCHANGED scenario
  BY <1>5, OthersKeep, OthersQuiet, OthersLate, QuietSignals DEF IInv, LateStays
<1>6. CASE Ends /\ UNCHANGED scenario
  BY <1>6, EndsKeep, OthersLate, EndsSignal DEF IInv, LateStays
<1> QED
  BY <1>1, <1>2, <1>3, <1>4, <1>5, <1>6 DEF Next, Base

(* The inductive invariant holds of every call.                            *)
THEOREM Invariance == Spec => []IInv
BY InitIInv, NextIInv, PTL DEF Spec

(* Types; the resend timer of a reliable response ends at GiveUp.          *)
THEOREM TypeCorrect == Spec => []TypeOK
<1>1. IInv => TypeOK
  BY DEF IInv, CoreOK
<1> QED
  BY <1>1, Invariance, PTL

(* A dialog that is over (termwait, terminated) is not shown to its user   *)
(* as a call, whoever ended it and however.                                *)
THEOREM LastWordIsTrue == Spec => []LastWord
<1>1. IInv => LastWord
  BY DEF IInv, CoreOK
<1> QED
  BY <1>1, Invariance, PTL

(* A dialog that is over has stopped its media, unless it is the caller    *)
(* and a PRACK of its timed out.                                           *)
THEOREM MediaIsStopped == Spec => []MediaStops
<1>1. IInv => MediaStops
  BY DEF IInv, CoreOK
<1> QED
  BY <1>1, Invariance, PTL

(* A side that is over while the other is in the call has sent a BYE, or a *)
(* CANCEL, a timeout or the end of the resend timer crossed the answer:    *)
(* where OrphanOK lets one side be over without such a reason, the other   *)
(* is not in the call.                                                     *)
THEOREM NobodyOrphaned == Spec => []NoOrphanedCall
<1>1. ASSUME IInv
      PROVE  NoOrphanedCall
  <2>1. ASSUME Over("client"), Up("server")
        PROVE  Excused("client")
    BY <1>1, <2>1 DEF IInv, CoreOK, OrphanOK, Up, Server, Ending
  <2>2. ASSUME Over("server"), Up("client")
        PROVE  Excused("server")
    BY <1>1, <2>2 DEF IInv, CoreOK, OrphanOK, Up, Client, Ending
  <2> QED
    BY <2>1, <2>2, Roles DEF NoOrphanedCall, Excused, Dialogs
<1> QED
  BY <1>1, Invariance, PTL

(* The called party answers its INVITE finally once, and a second time     *)
(* only from the resend timer (the 504 of a3009).                          *)
THEOREM AnsweredOnce == Spec => []OneFinalAnswer
<1>1. IInv => OneFinalAnswer
  BY DEF IInv, CoreOK, TypeOK, TimerOK, OneFinalAnswer
<1> QED
  BY <1>1, Invariance, PTL

(* A dialog in termwait without a transaction has been sent                *)
(* no_transactions (signalIfNoTransactions), but for the one whose user    *)
(* refuses an INVITE that the resend timer has answered.                   *)
THEOREM EndSignalled == Spec => []EndIsSignalled
<1>1. IInv => EndIsSignalled
  BY DEF IInv
<1> QED
  BY <1>1, Invariance, PTL
----------------------------------------------------------------------------
(* The call as the rest of the stack sees it.                              *)

(* A dialog that goes from one state to another goes a step of the         *)
(* outline, or its phase stays.                                            *)
Onwards(s, t) ==
  \/ PhaseOf(t) = PhaseOf(s)
  \/ PhaseOf(s) = "none" /\ PhaseOf(t) \in {"early", "over"}
  \/ PhaseOf(s) = "early" /\ PhaseOf(t) \in {"up", "over"}
  \/ PhaseOf(s) = "up" /\ PhaseOf(t) \in {"ending", "over"}
  \/ PhaseOf(s) = "ending" /\ PhaseOf(t) = "over"
  \/ PhaseOf(s) = "over" /\ PhaseOf(t) = "terminated"

LEMMA DialogMoves ==
  ASSUME TypeOK, NEW d \in Dialogs, NEW s, dstate' = [dstate EXCEPT ![d] = s],
         Onwards(dstate[d], s)
  PROVE  [Outline!CallNext]_phase
<1>1. phase' = [phase EXCEPT ![d] = PhaseOf(s)] /\ phase[d] = PhaseOf(dstate[d])
  BY DEF phase, TypeOK
<1>2. CASE PhaseOf(s) = phase[d]
  <2>1. phase' = phase
    BY <1>1, <1>2 DEF phase
  <2> QED BY <2>1
<1>3. CASE PhaseOf(s) # phase[d]
  <2>1. \/ Outline!Starts(d) \/ Outline!Connects(d) \/ Outline!Ends(d)
        \/ Outline!SaysBye(d) \/ Outline!ByeIsAnswered(d) \/ Outline!Terminates(d)
    BY <1>1, <1>3 DEF Onwards, Outline!Starts, Outline!Connects, Outline!Ends,
       Outline!SaysBye, Outline!ByeIsAnswered, Outline!Terminates, Outline!Becomes
  <2> QED BY <2>1 DEF Outline!CallNext
<1> QED BY <1>2, <1>3

LEMMA DialogStays ==
  ASSUME dstate' = dstate
  PROVE  [Outline!CallNext]_phase
BY DEF phase

(* From its type and its guard, every handler moves its dialog onwards.    *)
LEMMA BaseMoves ==
  ASSUME TypeOK, NEW d \in Dialogs, BaseNext(d)
  PROVE  [Outline!CallNext]_phase
<1> USE DEF Become, InCall
<1>1. PICK s : dstate' = [dstate EXCEPT ![d] = s] /\ Onwards(dstate[d], s)
  <2> DEFINE Moves == \E s : dstate' = [dstate EXCEPT ![d] = s] /\ Onwards(dstate[d], s)
  <2>1. a1001_incall_termwait_BYE(d) => Moves
    BY DEF a1001_incall_termwait_BYE, Onwards, PhaseOf
  <2>2. a1002_incall_byerequest_hangup(d) => Moves
    BY DEF a1002_incall_byerequest_hangup, Onwards, PhaseOf
  <2>3. a1003_byerequest_termwait_26(d) => Moves
    BY DEF a1003_byerequest_termwait_26, Onwards, PhaseOf
  <2>4. a1101_termwait_terminated_notransactions(d) => Moves
    BY DEF a1101_termwait_terminated_notransactions, Onwards, PhaseOf
  <2>5. a1201_incall_transferrequested_transfer(d) => Moves
    BY DEF a1201_incall_transferrequested_transfer, Onwards, PhaseOf
  <2>6. a1202_transferrequested_transferpending_202(d) => Moves
    BY DEF a1202_transferrequested_transferpending_202, Onwards, PhaseOf
  <2>7. a1203_transferrequested_incall_36(d) => Moves
    BY DEF a1203_transferrequested_incall_36, Onwards, PhaseOf
  <2>8. a1301_incall_transferaskuser_REFER(d) => Moves
    BY DEF a1301_incall_transferaskuser_REFER, Onwards, PhaseOf
  <2>9. a1302_transferaskuser_transferstarted_accept(d) => Moves
    BY DEF a1302_transferaskuser_transferstarted_accept, Onwards, PhaseOf
  <2>10. a1303_transferaskuser_incall_refuse(d) => Moves
    BY DEF a1303_transferaskuser_incall_refuse, Onwards, PhaseOf
  <2> HIDE DEF Moves
  <2>11. Moves
    BY <2>1, <2>2, <2>3, <2>4, <2>5, <2>6, <2>7, <2>8, <2>9, <2>10 DEF BaseNext
  <2> QED BY <2>11 DEF Moves
<1> QED BY <1>1, DialogMoves

LEMMA CallerMoves ==
  ASSUME TypeOK, Caller
  PROVE  [Outline!CallNext]_phase
<1> DEFINE Moves == \/ dstate' = dstate
                    \/ \E s : /\ dstate' = [dstate EXCEPT !["client"] = s]
                              /\ Onwards(dstate["client"], s)
<1> USE DEF Become, Client, dialogVars
<1>1. a2001_start_calling_invite => Moves
  BY DEF a2001_start_calling_invite, Onwards, PhaseOf
<1>2. a2002_calling_calling_18X => Moves
  BY DEF a2002_calling_calling_18X, Onwards
<1>3. a2004_calling_incall_2xx => Moves
  BY DEF a2004_calling_incall_2xx, Onwards, PhaseOf
<1>4. a2006_calling_termwait_cancel => Moves
  BY DEF a2006_calling_termwait_cancel, Onwards, PhaseOf
<1>5. a2007_calling_termwait_36 => Moves
  BY DEF a2007_calling_termwait_36, Onwards, PhaseOf
<1>6. a2008_calling_calling_40X \/ a2017_any_any_2XX => Moves
  BY DEF a2008_calling_calling_40X, a2017_any_any_2XX
<1>7. a2012_calling_termwait_2xx => Moves
  BY DEF a2012_calling_termwait_2xx, Onwards, PhaseOf
<1>8. \A r \in ByClient : a2013_calling_termwait_transporterror(r) => Moves
  BY DEF a2013_calling_termwait_transporterror, Onwards, PhaseOf
<1> HIDE DEF Moves
<1>9. Moves
  BY <1>1, <1>2, <1>3, <1>4, <1>5, <1>6, <1>7, <1>8 DEF Caller, ClientNext
<1> QED BY <1>9, DialogStays, DialogMoves DEF Moves, Dialogs

LEMMA CalledMoves ==
  ASSUME TypeOK, Called
  PROVE  [Outline!CallNext]_phase
<1> DEFINE Moves == \/ dstate' = dstate
                    \/ \E s : /\ dstate' = [dstate EXCEPT !["server"] = s]
                              /\ Onwards(dstate["server"], s)
<1> USE DEF Become, Server
<1>1. \A r \in Invites : a3007_start_100rel_INVITE(r) => Moves
  BY DEF a3007_start_100rel_INVITE, Onwards, PhaseOf
<1>2. \A r \in Invites : a3001_start_ringing_INVITE(r) => Moves
  BY DEF a3001_start_ringing_INVITE, Onwards, PhaseOf
<1>3. \A r \in Invites : a3006_start_termwait_INVITE(r) => Moves
  BY DEF a3006_start_termwait_INVITE, Onwards, PhaseOf
<1>4. a3002_ringing_incall_accept => Moves
  BY DEF a3002_ringing_incall_accept, Onwards, PhaseOf
<1>5. a3003_ringing_termwait_BYE => Moves
  BY DEF a3003_ringing_termwait_BYE, Onwards, PhaseOf
<1>6. a3004_ringing_termwait_CANCEL => Moves
  BY DEF a3004_ringing_termwait_CANCEL, Onwards, PhaseOf
<1>7. a3005_ringing_termwait_reject => Moves
  BY DEF a3005_ringing_termwait_reject, Onwards, PhaseOf
<1>8. \A r \in Pracks : a3008_100rel_ringing_PRACK(r) => Moves
  BY DEF a3008_100rel_ringing_PRACK, Onwards, PhaseOf
<1>9. \A r \in Pracks : a3010_any_any_PRACK(r) => Moves
  BY DEF a3010_any_any_PRACK
<1>10. a3009_any_any_ResendTimer1xx => Moves
  BY DEF a3009_any_any_ResendTimer1xx, Onwards
<1> HIDE DEF Moves
<1>11. Moves
  BY <1>1, <1>2, <1>3, <1>4, <1>5, <1>6, <1>7, <1>8, <1>9, <1>10 DEF Called, ServerNext
<1> QED BY <1>11, DialogStays, DialogMoves DEF Moves, Dialogs

LEMMA OthersMove ==
  ASSUME TypeOK, Others \/ Ends
  PROVE  [Outline!CallNext]_phase
<1>1. CASE earlyBye
  <2>1. /\ dstate' = [dstate EXCEPT !["client"] = "termwait"]
        /\ Onwards(dstate["client"], "termwait")
    BY <1>1 DEF earlyBye, Client, Become, Onwards, PhaseOf
  <2> QED BY <2>1, DialogMoves DEF Dialogs
<1>2. CASE ~earlyBye
  <2>1. dstate' = dstate
    BY <1>2 DEF Others, Ends, defaultHandler, ignoresRequest, ignoresResponse,
       transportError, proxyAnswers, TransactionsEnd, dialogVars
  <2> QED BY <2>1, DialogStays
<1> QED BY <1>1, <1>2

(* A call implements its outline: whatever the network and the users do,   *)
(* each dialog goes the one way from early over up and ending to           *)
(* terminated that the shutdown of the stack is modelled with, and never   *)
(* back.                                                                   *)
THEOREM Implements == Spec => ImplementsOutline
<1>1. Init => phase = [c \in Dialogs |-> "none"]
  BY DEF Init, ClientInit, ServerInit, BaseInit, phase, PhaseOf
<1>2. TypeOK /\ [Next]_callVars => [Outline!CallNext]_phase
  <2> SUFFICES ASSUME TypeOK, [Next]_callVars
               PROVE  [Outline!CallNext]_phase
    OBVIOUS
  <2>1. CASE UNCHANGED callVars
    BY <2>1, DialogStays DEF callVars, baseVars, dialogVars
  <2>2. CASE Next
    BY <2>2, BaseMoves, CallerMoves, CalledMoves, OthersMove DEF Next, Base
  <2> QED BY <2>1, <2>2
<1> QED BY <1>1, <1>2, TypeCorrect, PTL DEF Spec, ImplementsOutline, Outline!OutlineSpec
=============================================================================
