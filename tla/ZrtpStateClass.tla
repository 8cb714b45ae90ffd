---------------------------- MODULE ZrtpStateClass ----------------------------
(***************************************************************************)
(* ZrtpStateClass.cxx: one action for what a state does with a packet      *)
(* (ev...), one for what it does when the timer fires (tm...).             *)
(*                                                                         *)
(* rest is what is left on the network when the packet p has been taken    *)
(* off.  Sending fails only for the lack of a packet: the bridge answers 1 *)
(* always.                                                                 *)
(***************************************************************************)
EXTENDS ZRtp

(* nextState, and the packet that is kept for a resend.                    *)
Become(e, next, packet) ==
  /\ state' = [state EXCEPT ![e] = next]
  /\ sentPacket' = [sentPacket EXCEPT ![e] = packet]

Ignore(rest) ==
  /\ net' = rest
  /\ UNCHANGED <<engineVars, timerVars, keyVars, zid>>

(* The packet of sentPacket once more.                                     *)
Resend(e, rest) ==
  /\ net' = rest \cup {sendPacket(e, sentPacket[e])}
  /\ UNCHANGED <<engineVars, keyVars, zid>>

(* A Commit makes this end the responder: DHPart1, and no timer.  Another  *)
(* packet with the same letter is taken for a Commit that offers nothing.  *)
Respond(e, p, rest) ==
  \E packet \in (IF p.kind = "Commit" THEN Prepared("DHPart1") ELSE {NULL}) :
    IF packet = NULL
    THEN Become(e, "Initial", NULL) /\ net' = rest
    ELSE Become(e, "WaitDHPart2", packet) /\ net' = rest \cup {sendPacket(e, packet)}

----------------------------------------------------------------------------
evInitial(e) ==
  /\ Become(e, "Detect", "Hello")
  /\ net' = net \cup {sendPacket(e, "Hello")}
  /\ startTimer(e)
  /\ UNCHANGED <<keyVars, zid>>

(* Hello: once more our Hello, if it is still kept, and our Commit.        *)
Detect_Hello(e, rest) ==
  LET again == IF sentPacket[e] = NULL THEN {} ELSE {sendPacket(e, sentPacket[e])}
  IN \E packet \in Prepared("Commit") :
       IF packet = NULL
       THEN Become(e, "Initial", NULL) /\ net' = rest \cup again /\ cancelTimer(e)
       ELSE /\ Become(e, "CommitSent", packet)
            /\ net' = rest \cup again \cup {sendPacket(e, packet)}
            /\ restartTimer(e)

evDetect(e, p, rest) ==
  /\ state[e] = "Detect"
  /\ \/ /\ p.kind \in CKind
        /\ cancelTimer(e)
        /\ Respond(e, p, rest)
     \/ /\ p.kind = "HelloACK"
        /\ cancelTimer(e)
        /\ Become(e, "AckDetected", NULL)
        /\ net' = rest
     \/ /\ p.kind = "Hello"
        /\ Detect_Hello(e, rest)
  /\ UNCHANGED <<keyVars, zid>>

evAckDetected(e, p, rest) ==
  /\ state[e] = "AckDetected"
  /\ \/ /\ p.kind \in HKind
        /\ Become(e, "WaitCommit", "HelloACK")
        /\ net' = rest \cup {sendPacket(e, "HelloACK")}
     \/ /\ p.kind \in CKind
        /\ Respond(e, p, rest)
  /\ UNCHANGED <<timerVars, keyVars, zid>>

evWaitCommit(e, p, rest) ==
  /\ state[e] = "WaitCommit"
  /\ \/ /\ p.kind \in HKind
        /\ Resend(e, rest)
     \/ /\ p.kind \in CKind
        /\ Respond(e, p, rest)
        /\ UNCHANGED <<keyVars, zid>>
  /\ UNCHANGED timerVars

(* The Commits have crossed: the smaller hvi responds, the greater waits   *)
(* on for DHPart1.                                                         *)
CommitSent_Commit(e, p, rest) ==
  /\ IF hviIsLower(e)
     THEN cancelTimer(e) /\ Respond(e, p, rest)
     ELSE restartTimer(e) /\ net' = rest /\ UNCHANGED engineVars
  /\ UNCHANGED <<keyVars, zid>>

(* DHPart1: this end is the initiator.  The receiver gets its key for the  *)
(* Confirm1, even if there was nothing to compute one from.                *)
CommitSent_DHPart(e, p, rest) ==
  /\ \E packet \in Prepared("DHPart2") :
       IF packet = NULL
       THEN /\ Become(e, "Initial", NULL)
            /\ net' = rest
            /\ cancelTimer(e)
            /\ receiver' = [receiver EXCEPT ![e] = KeyOf(NULL, "Responder")]
            /\ UNCHANGED s0
       ELSE LET secret == generateS0(e, e, p) IN
            /\ Become(e, "WaitConfirm1", packet)
            /\ net' = rest \cup {sendPacket(e, packet)}
            /\ restartTimer(e)
            /\ s0' = [s0 EXCEPT ![e] = secret]
            /\ receiver' = [receiver EXCEPT ![e] = KeyOf(secret, "Responder")]
  /\ UNCHANGED <<sender, zid>>

evCommitSent(e, p, rest) ==
  /\ state[e] = "CommitSent"
  /\ \/ p.kind \in CKind /\ CommitSent_Commit(e, p, rest)
     \/ p.kind \in DKind /\ CommitSent_DHPart(e, p, rest)

(* DHPart2: keys for both directions, and the Confirm1 protected.          *)
WaitDHPart2_DHPart(e, p, rest) ==
  /\ \E packet \in (IF hviFits(p) THEN Prepared("Confirm1") ELSE {NULL}) :
       IF packet = NULL
       THEN Become(e, "Initial", NULL) /\ net' = rest /\ UNCHANGED keyVars
       ELSE LET secret == generateS0(e, Peer(e), p)
                key == KeyOf(secret, "Responder") IN
            /\ Become(e, "WaitConfirm2", packet)
            /\ net' = rest \cup {PacketWith(e, packet, key)}
            /\ s0' = [s0 EXCEPT ![e] = secret]
            /\ sender' = [sender EXCEPT ![e] = key]
            /\ receiver' = [receiver EXCEPT ![e] = KeyOf(secret, "Initiator")]
  /\ UNCHANGED zid

evWaitDHPart2(e, p, rest) ==
  /\ state[e] = "WaitDHPart2"
  /\ \/ p.kind \in CKind /\ Resend(e, rest)
     \/ p.kind \in DKind /\ WaitDHPart2_DHPart(e, p, rest)
  /\ UNCHANGED timerVars

(* Confirm1: the new retained secret is saved, the sender gets its key,    *)
(* and the Confirm2 goes out protected.                                    *)
evWaitConfirm1(e, p, rest) ==
  /\ state[e] = "WaitConfirm1"
  /\ p.kind = "Confirm1"
  /\ \E packet \in Prepared("Confirm2") :
       IF packet = NULL
       THEN /\ Become(e, "Initial", NULL)
            /\ net' = rest
            /\ cancelTimer(e)
            /\ srtpSecretsOff(e)
            /\ UNCHANGED zid
       ELSE LET key == KeyOf(s0[e], "Initiator") IN
            /\ Become(e, "WaitConfAck", packet)
            /\ net' = rest \cup {PacketWith(e, packet, key)}
            /\ restartTimer(e)
            /\ setNewRs1(e)
            /\ sender' = [sender EXCEPT ![e] = key]
            /\ UNCHANGED <<s0, receiver>>

(* Confirm2: the new retained secret is saved and acknowledged.            *)
WaitConfirm2_Confirm2(e, rest) ==
  \E packet \in Prepared("Conf2ACK") :
    IF packet = NULL
    THEN Become(e, "Initial", NULL) /\ net' = rest /\ srtpSecretsOff(e) /\ UNCHANGED zid
    ELSE /\ Become(e, "SecureState", packet)
         /\ net' = rest \cup {sendPacket(e, packet)}
         /\ setNewRs1(e)
         /\ UNCHANGED keyVars

(* A repeated DHPart2 has the Confirm1 sent again, if it gets here.        *)
evWaitConfirm2(e, p, rest) ==
  /\ state[e] = "WaitConfirm2"
  /\ p.kind \in DKind \cup {"Confirm2"}
  /\ IF p.kind \in DKind THEN Resend(e, rest) ELSE WaitConfirm2_Confirm2(e, rest)
  /\ UNCHANGED timerVars

evWaitConfAck(e, p, rest) ==
  /\ state[e] = "WaitConfAck"
  /\ p.kind \in CKind
  /\ cancelTimer(e)
  /\ Become(e, "SecureState", NULL)
  /\ net' = rest
  /\ UNCHANGED <<keyVars, zid>>

evSecureState(e, p, rest) ==
  /\ state[e] = "SecureState"
  /\ p.kind = "Confirm2"
  /\ sentPacket[e] # NULL
  /\ Resend(e, rest)
  /\ UNCHANGED timerVars

----------------------------------------------------------------------------
(* A packet its state does not know, or one that comes before the start or *)
(* after the end.                                                          *)
Known(e) ==
  CASE state[e] \in {"Detect", "AckDetected", "WaitCommit"} -> HKind \cup CKind
    [] state[e] \in {"CommitSent", "WaitDHPart2"} -> CKind \cup DKind
    [] state[e] = "WaitConfirm1" -> {"Confirm1"}
    [] state[e] = "WaitConfirm2" -> DKind \cup {"Confirm2"}
    [] state[e] = "WaitConfAck" -> CKind
    [] state[e] = "SecureState" -> IF sentPacket[e] = NULL THEN {} ELSE {"Confirm2"}
    [] OTHER -> {}

evUnknown(e, p, rest) == p.kind \notin Known(e) /\ Ignore(rest)

processExtensionHeader(e, p, rest) ==
  \/ evDetect(e, p, rest)
  \/ evAckDetected(e, p, rest)
  \/ evWaitCommit(e, p, rest)
  \/ evCommitSent(e, p, rest)
  \/ evWaitDHPart2(e, p, rest)
  \/ evWaitConfirm1(e, p, rest)
  \/ evWaitConfirm2(e, p, rest)
  \/ evWaitConfAck(e, p, rest)
  \/ evSecureState(e, p, rest)
  \/ evUnknown(e, p, rest)

----------------------------------------------------------------------------
(* The timer fires; due says that it is this one that is being delivered.  *)
Delivered(e) == due[e] /\ due' = [due EXCEPT ![e] = FALSE]

(* nextTimer, and the packet once more.  The last time the wait is over.   *)
tmResend(e) ==
  /\ state[e] \in {"Detect", "CommitSent", "WaitConfirm1", "WaitConfAck"}
  /\ sentPacket[e] # NULL
  /\ counter[e] < MaxResend
  /\ Delivered(e)
  /\ counter' = [counter EXCEPT ![e] = @ + 1]
  /\ pending' = [pending EXCEPT ![e] = @ + 1]
  /\ Resend(e, net)

GiveUp(e) ==
  /\ sentPacket[e] # NULL
  /\ counter[e] >= MaxResend
  /\ Delivered(e)
  /\ counter' = [counter EXCEPT ![e] = @ + 1]
  /\ UNCHANGED <<pending, zid, net>>

(* zrtpNotSuppOther: stay prepared for a Hello any time later.             *)
tmDetect(e) ==
  /\ state[e] = "Detect"
  /\ GiveUp(e)
  /\ Become(e, "Detect", NULL)
  /\ UNCHANGED keyVars

tmCommitSent(e) ==
  /\ state[e] = "CommitSent"
  /\ GiveUp(e)
  /\ Become(e, "Initial", NULL)
  /\ UNCHANGED keyVars

(* srtpSecretsOff(ForReceiver), see there.                                 *)
tmWaitConfirm1(e) ==
  /\ state[e] = "WaitConfirm1"
  /\ GiveUp(e)
  /\ Become(e, "Initial", NULL)
  /\ UNCHANGED keyVars

tmWaitConfAck(e) ==
  /\ state[e] = "WaitConfAck"
  /\ GiveUp(e)
  /\ Become(e, "Initial", NULL)
  /\ srtpSecretsOff(e)

(* A timeout that was taken off the list before it was cancelled: an event *)
(* these states do not know.  They go back to Initial.                     *)
tmInternalProtocolError(e) ==
  /\ state[e] \in {"AckDetected", "WaitCommit", "WaitDHPart2"}
  /\ Delivered(e)
  /\ Become(e, "Initial", NULL)
  /\ UNCHANGED <<pending, counter, keyVars, zid, net>>

tmSecretsOff(e) ==
  /\ state[e] \in {"WaitConfirm2", "SecureState"}
  /\ Delivered(e)
  /\ Become(e, "Initial", NULL)
  /\ srtpSecretsOff(e)
  /\ UNCHANGED <<pending, counter, zid, net>>

(* Nothing is left to resend, or the engine is over.                       *)
tmIgnored(e) ==
  /\ \/ state[e] \in {"Initial", "Deleted"}
     \/ state[e] = "Detect" /\ sentPacket[e] = NULL
  /\ Delivered(e)
  /\ UNCHANGED <<engineVars, pending, counter, keyVars, zid, net>>

processTimeout(e) ==
  \/ tmResend(e)
  \/ tmDetect(e)
  \/ tmCommitSent(e)
  \/ tmWaitConfirm1(e)
  \/ tmWaitConfAck(e)
  \/ tmInternalProtocolError(e)
  \/ tmSecretsOff(e)
  \/ tmIgnored(e)
===============================================================================
