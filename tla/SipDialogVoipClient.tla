------------------------- MODULE SipDialogVoipClient -------------------------
(***************************************************************************)
(* The dialog of the caller until the call is established or over.         *)
(***************************************************************************)
EXTENDS SipDialogVoip

VARIABLE
  rseqSeen  \* dialogState.rseqNo of the client: 0 before the first

(* The number RSeq of a reliable response, and the PRACK for it.           *)
RSeq(c) == IF c = "183" THEN 1 ELSE 2
Prack(c) == IF c = "183" THEN "PRACK1" ELSE "PRACK2"

ClientInit == BaseInit /\ rseqSeen = 0

Client(s) == dstate["client"] = s
ClientTag == remoteTag' = [remoteTag EXCEPT !["client"] = TRUE]

----------------------------------------------------------------------------
a2001_start_calling_invite ==
  /\ Client("start")
  /\ Sends({"INVITE"})
  /\ Become("client", "calling", FALSE, "shown")
  /\ lastInvite' = [lastInvite EXCEPT !["client"] = "INVITE"]
  /\ UNCHANGED <<isTerminated, remoteTag, noTransactions, sv, resp,
                 timedOut, rseqSeen>>

(* a2002 takes 18*, so that a2003 is left with no response of this peer.   *)
(* With 100rel both responses are reliable, and one that is not the next   *)
(* is ignored; 183 carries the answer to the offer then: early media.  An  *)
(* answer that is refused sends a CANCEL and no PRACK, and the dialog      *)
(* stays in calling.                                                       *)
a2002_calling_calling_18X ==
  \E r \in Invites, c \in Provisional :
    LET repeated == use100Rel /\ RSeq(c) <= rseqSeen
        prack == IF use100Rel THEN {Prack(c)} ELSE {} IN
    /\ Receives(r, "client", c) /\ Client("calling")
    /\ \/ /\ repeated
          /\ cl' = [cl EXCEPT ![r] = "proceeding"]
          /\ UNCHANGED <<dstate, remoteTag, media, gui, rseqSeen>>
       \/ /\ ~repeated
          /\ ClientTag
          /\ rseqSeen' = IF use100Rel THEN RSeq(c) ELSE rseqSeen
          /\ \E accepted \in BOOLEAN :
               /\ c = "180" => accepted
               /\ cl' = [q \in Request |->
                           IF q = r THEN "proceeding"
                           ELSE IF q \in Sent(IF accepted THEN prack ELSE {"CANCEL"})
                             THEN "trying" ELSE cl[q]]
               /\ Become("client", "calling",
                         IF c = "183" THEN accepted ELSE media["client"],
                         gui["client"])
    /\ UNCHANGED <<isTerminated, lastInvite, sv, resp, timedOut>>
    /\ SignalIfNoTransactions("client", {})

(* The answer in the 2xx is accepted and starts the media.  With 100rel    *)
(* there is no answer in the 2xx: it was in the 183.                       *)
a2004_calling_incall_2xx ==
  \E r \in Invites :
    /\ Receives(r, "client", "2xx") /\ Client("calling")
    /\ cl' = [cl EXCEPT ![r] = "completed"]
    /\ ClientTag
    /\ Become("client", "incall", IF use100Rel THEN media["client"] ELSE TRUE, "shown")
    /\ UNCHANGED <<isTerminated, lastInvite, noTransactions, sv, resp,
                   timedOut, rseqSeen>>

a2006_calling_termwait_cancel ==
  /\ Client("calling")
  /\ Sends({"CANCEL"})
  /\ Become("client", "termwait", FALSE, "ended")
  /\ UNCHANGED <<isTerminated, remoteTag, lastInvite, sv, resp, timedOut, rseqSeen>>
  /\ SignalIfNoTransactions("client", {})

(* a2007, also where a2008 found no credentials for a challenge.           *)
a2007_calling_termwait_36 ==
  \E r \in Invites, c \in {"401", "36x"} :
    /\ Receives(r, "client", c) /\ Client("calling")
    /\ cl' = [cl EXCEPT ![r] = "completed"]
    /\ isTerminated' = [isTerminated EXCEPT !["client"] = TRUE]
    /\ Become("client", "termwait", FALSE, "ended")
    /\ UNCHANGED <<remoteTag, lastInvite, sv, resp, timedOut, rseqSeen>>
    /\ SignalIfNoTransactions("client", {})

(* updateAuthentications has found credentials.                            *)
a2008_calling_calling_40X ==
  /\ Receives("INVITE", "client", "401") /\ Client("calling")
  /\ cl' = [cl EXCEPT !["INVITE"] = "completed", !["INVITE2"] = "trying"]
  /\ lastInvite' = [lastInvite EXCEPT !["client"] = "INVITE2"]
  /\ UNCHANGED <<dstate, isTerminated, remoteTag, media, gui, noTransactions,
                 sv, resp, timedOut, rseqSeen>>

(* a2004 refuses the answer after it has sent the ACK, and a2012 goes on.  *)
a2012_calling_termwait_2xx ==
  \E r \in Invites :
    /\ Receives(r, "client", "2xx") /\ Client("calling") /\ ~use100Rel
    /\ cl' = [cl EXCEPT ![r] = "completed", !["BYEc"] = "trying"]
    /\ ClientTag
    /\ Become("client", "termwait", FALSE, "ended")
    /\ UNCHANGED <<isTerminated, lastInvite, sv, resp, timedOut, rseqSeen>>
    /\ SignalIfNoTransactions("client", {})

(* a2017: a 2xx that the transport layer received after the INVITE client  *)
(* transaction had gone.  Without a remote tag the 2xx is taken for one of *)
(* another fork and the call it makes is ended; one with the tag only gets *)
(* another ACK, or none in termwait.                                       *)
a2017_any_any_2XX ==
  \E r \in Invites :
    /\ cl[r] \in {"completed", "gone"} /\ "2xx" \in resp[r]
    /\ dstate["client"] \notin {"start", "terminated"}
    /\ ~remoteTag["client"] /\ cl["BYEc"] = "none"
    /\ Sends({"BYEc"})
    /\ UNCHANGED <<dialogVars, noTransactions, sv, resp, timedOut, rseqSeen>>

(* transport_error of whichever transaction of the dialog: the INVITE or a *)
(* PRACK or a CANCEL that was never answered.  The media is left alone.    *)
a2013_calling_termwait_transporterror(r) ==
  /\ From(r) = "client" /\ cl[r] = "trying" /\ Client("calling")
  /\ cl' = [cl EXCEPT ![r] = "completed"]
  /\ timedOut' = timedOut \cup {r}
  /\ Become("client", "termwait", media["client"], "ended")
  /\ UNCHANGED <<isTerminated, remoteTag, lastInvite, sv, resp, rseqSeen>>
  /\ SignalIfNoTransactions("client", {})

ClientNext ==
  \/ a2001_start_calling_invite \/ a2002_calling_calling_18X
  \/ a2004_calling_incall_2xx \/ a2006_calling_termwait_cancel
  \/ a2007_calling_termwait_36 \/ a2008_calling_calling_40X
  \/ a2012_calling_termwait_2xx \/ a2017_any_any_2XX
  \/ \E r \in ByClient : a2013_calling_termwait_transporterror(r)
=============================================================================
