--------------------------- MODULE ZrtpSessionProofs ---------------------------
(***************************************************************************)
(* What two ZRTP engines rely on, proved for every bound on resends, calls *)
(* and doubled packets, and whichever packets cannot be prepared.          *)
(***************************************************************************)
EXTENDS ZrtpSession, TLAPS

BeforeSecret == {"None", "Detect", "AckDetected", "WaitCommit", "CommitSent", "WaitDHPart2"}
WithSecret == {"WaitConfirm1", "WaitConfirm2", "WaitConfAck", "SecureState"}

(* What is kept for a resend belongs to the state.                         *)
KeptFits ==
  \A e \in Endpoint :
    /\ state[e] = "Detect" => sentPacket[e] \in {"Hello", NULL}
    /\ state[e] = "WaitCommit" => sentPacket[e] = "HelloACK"
    /\ state[e] = "CommitSent" => sentPacket[e] = "Commit"
    /\ state[e] = "WaitDHPart2" => sentPacket[e] = "DHPart1"
    /\ state[e] = "WaitConfirm1" => sentPacket[e] = "DHPart2"
    /\ state[e] = "WaitConfirm2" => sentPacket[e] = "Confirm1"
    /\ state[e] = "WaitConfAck" => sentPacket[e] = "Confirm2"
    /\ state[e] = "SecureState" => sentPacket[e] \in {"Conf2ACK", NULL}

(* Where there is a secret, and keys.                                      *)
SecretFits ==
  \A e \in Endpoint :
    /\ state[e] \in BeforeSecret => s0[e] = NULL /\ sender[e] = NULL
    /\ state[e] \in WithSecret => s0[e] # NULL
    /\ state[e] \in {"WaitConfirm1", "WaitConfAck"} =>
         receiver[e] = KeyOf(s0[e], "Responder")
    /\ state[e] = "WaitConfirm1" => sender[e] = NULL
    /\ state[e] = "WaitConfAck" => sender[e] = KeyOf(s0[e], "Initiator")
    /\ state[e] = "WaitConfirm2" =>
         sender[e] = KeyOf(s0[e], "Responder") /\ receiver[e] = KeyOf(s0[e], "Initiator")
    /\ state[e] = "SecureState" /\ sentPacket[e] # NULL =>
         sender[e] = KeyOf(s0[e], "Responder")
    /\ sender[e] # NULL => s0[e] # NULL /\ s0[Peer(e)] # NULL

(* The secret that the initiator x has is the one the responder will have. *)
Offered(x, ids) ==
  /\ s0[x] # NULL
  /\ s0[x].session = session
  /\ s0[x].initiator = x
  /\ receiver[x] = KeyOf(s0[x], "Responder")
  /\ s0[Peer(x)] = NULL => s0[x].retained = Matching(zid[Peer(x)], ids)

OfferedFits ==
  /\ \A e \in Endpoint : state[e] = "WaitConfirm1" => Offered(e, zid[e])
  /\ \A p \in net : p.kind = "DHPart2" => Offered(p.from, p.ids)
  /\ \A p \in net : p.kind = "DHPart1" /\ s0[p.from] = NULL => p.ids = zid[p.from]

(* What is under way in the clear, and what protected.                     *)
PacketsFit ==
  \A p \in net :
    /\ p.kind \in DKind \cup {"Commit"} => p.key = NULL
    /\ p.key # NULL => s0[p.from] # NULL
    /\ p.kind = "Confirm1" =>
         /\ p.key = KeyOf(s0[p.from], "Responder")
         /\ receiver[p.from] = KeyOf(s0[p.from], "Initiator")
         /\ p.ids = <<NULL, NULL>>
         /\ state[Peer(p.from)] # "WaitConfAck"
    /\ p.kind = "Confirm2" => p.key = KeyOf(s0[p.from], "Initiator") /\ zid[p.from][1] = s0[p.from]
    /\ p.kind = "Conf2ACK" => p.key = KeyOf(s0[p.from], "Responder") /\ zid[p.from][1] = s0[p.from]

SecureFits ==
  \A e \in Endpoint :
    /\ state[e] = "WaitConfAck" => zid[e][1] = s0[e]
    /\ state[e] = "SecureState" =>
         s0[Peer(e)] = s0[e] /\ zid[e][1] = s0[e] /\ zid[Peer(e)][1] = s0[e]

(* The inductive invariant, once the types are known.                      *)
Agreement ==
  /\ SecretFits
  /\ OfferedFits
  /\ PacketsFit
  /\ ZrtpIsReadable
  /\ SecureFits

----------------------------------------------------------------------------
TypeInv == TypeOK /\ KeptFits

LEMMA PeerFacts ==
  /\ \A e \in Endpoint : Peer(e) \in Endpoint /\ Peer(e) # e /\ Peer(Peer(e)) = e
  /\ \A e, f \in Endpoint : f = e \/ f = Peer(e)
BY DEF Endpoint, Peer

LEMMA NullFacts ==
  /\ NULL \notin Kind /\ NULL \notin Secret /\ NULL \notin Key
  /\ \A s \in Secret \cup {NULL}, r \in {"Initiator", "Responder"} :
       KeyOf(s, r) \in Key /\ KeyOf(s, r) # NULL
BY ZRtpAssumption DEF KeyOf, Key

LEMMA PacketType ==
  ASSUME TypeOK, NEW e \in Endpoint, NEW kind \in Kind, NEW key \in Key \cup {NULL}
  PROVE  PacketWith(e, kind, key) \in Packet
BY DEF TypeOK, PacketWith, Packet, Record

LEMMA SendType ==
  ASSUME TypeOK, NEW e \in Endpoint, NEW kind \in Kind
  PROVE  sendPacket(e, kind) \in Packet
BY PacketType DEF sendPacket, TypeOK

LEMMA SecretType ==
  ASSUME TypeOK, NEW e \in Endpoint, NEW i \in Endpoint, NEW p \in Packet
  PROVE  generateS0(e, i, p) \in Secret
BY DEF TypeOK, generateS0, Secret, Matching

LEMMA TimerType ==
  ASSUME TypeOK, NEW e \in Endpoint
  PROVE  /\ cancelTimer(e) => pending' \in [Endpoint -> Nat] /\ due' = due /\ counter' = counter
         /\ startTimer(e) => /\ pending' \in [Endpoint -> Nat] /\ due' = due
                              /\ counter' \in [Endpoint -> Nat] /\ pending'[e] > 0
         /\ restartTimer(e) => /\ pending' \in [Endpoint -> Nat] /\ due' = due
                                /\ counter' \in [Endpoint -> Nat] /\ pending'[e] > 0
BY DEF TypeOK, cancelTimer, startTimer, restartTimer, Cancelled

LEMMA BecomeType ==
  ASSUME TypeInv, NEW e \in Endpoint, NEW next, NEW packet,
         Become(e, next, packet),
         \/ next \in {"Initial", "AckDetected", "Deleted"} /\ packet = NULL
         \/ next = "Detect" /\ packet \in {"Hello", NULL}
         \/ next = "WaitCommit" /\ packet = "HelloACK"
         \/ next = "CommitSent" /\ packet = "Commit"
         \/ next = "WaitDHPart2" /\ packet = "DHPart1"
         \/ next = "WaitConfirm1" /\ packet = "DHPart2"
         \/ next = "WaitConfirm2" /\ packet = "Confirm1"
         \/ next = "WaitConfAck" /\ packet = "Confirm2"
         \/ next = "SecureState" /\ packet \in {"Conf2ACK", NULL}
  PROVE  /\ state' \in [Endpoint -> {"None", "Initial", "Detect", "AckDetected", "WaitCommit",
                             "CommitSent", "WaitDHPart2", "WaitConfirm1", "WaitConfirm2",
                             "WaitConfAck", "SecureState", "Deleted"}]
         /\ sentPacket' \in [Endpoint -> Kind \cup {NULL}]
         /\ KeptFits'
<1>1. packet \in Kind \cup {NULL}
  BY DEF Kind, HKind, CKind, DKind
<1>2. /\ state \in [Endpoint -> {"None", "Initial", "Detect", "AckDetected", "WaitCommit",
                             "CommitSent", "WaitDHPart2", "WaitConfirm1", "WaitConfirm2",
                             "WaitConfAck", "SecureState", "Deleted"}]
      /\ sentPacket \in [Endpoint -> Kind \cup {NULL}]
      /\ state' = [state EXCEPT ![e] = next]
      /\ sentPacket' = [sentPacket EXCEPT ![e] = packet]
  BY DEF TypeInv, TypeOK, Become
<1>3. \A f \in Endpoint : /\ state'[f] = (IF f = e THEN next ELSE state[f])
                          /\ sentPacket'[f] = (IF f = e THEN packet ELSE sentPacket[f])
  BY <1>2
<1>4. KeptFits'
  BY <1>3 DEF TypeInv, KeptFits
<1>. QED
  BY <1>1, <1>2, <1>4

LEMMA SaveType ==
  ASSUME TypeOK, NEW e \in Endpoint, setNewRs1(e)
  PROVE  zid' \in [Endpoint -> Record]
<1>1. s0[e] \in Secret \cup {NULL} /\ zid[e][1] \in Secret \cup {NULL}
  BY DEF TypeOK, Record
<1>2. <<s0[e], zid[e][1]>> \in Record
  BY <1>1 DEF Record
<1>. QED
  BY <1>2 DEF setNewRs1, TypeOK

LEMMA KeysType ==
  ASSUME TypeOK, NEW e \in Endpoint, NEW secret \in Secret \cup {NULL}
  PROVE  /\ [s0 EXCEPT ![e] = secret] \in [Endpoint -> Secret \cup {NULL}]
         /\ \A role \in {"Initiator", "Responder"} :
              /\ [sender EXCEPT ![e] = KeyOf(secret, role)] \in [Endpoint -> Key \cup {NULL}]
              /\ [receiver EXCEPT ![e] = KeyOf(secret, role)] \in [Endpoint -> Key \cup {NULL}]
              /\ \A kind \in Kind : PacketWith(e, kind, KeyOf(secret, role)) \in Packet
BY NullFacts, PacketType DEF TypeOK

LEMMA EvType ==
  ASSUME TypeInv, NEW e \in Endpoint, NEW p \in Packet, NEW rest \in SUBSET Packet,
         session' = session, lower' = lower, doubled' \in 0 .. MaxDoubled[session],
         processExtensionHeader(e, p, rest)
  PROVE  TypeInv'
<1>. USE DEF TypeInv
<1>0. TypeOK /\ KeptFits
  OBVIOUS
<1>1. CASE evDetect(e, p, rest)
  BY <1>1, BecomeType, SendType, TimerType, NullFacts DEF evDetect, Respond, Detect_Hello,
     Prepared, TypeOK, keyVars, Kind, HKind, CKind, DKind
<1>2. CASE evAckDetected(e, p, rest)
  BY <1>2, BecomeType, SendType DEF evAckDetected, Respond, Prepared, TypeOK, keyVars,
     timerVars, Kind, HKind, CKind, DKind
<1>3. CASE evWaitCommit(e, p, rest)
  BY <1>3, BecomeType, SendType DEF evWaitCommit, Respond, Resend, Prepared, TypeOK, keyVars,
     timerVars, engineVars, KeptFits, Kind, HKind, CKind, DKind
<1>4. CASE evCommitSent(e, p, rest)
  <2>1. CASE CommitSent_Commit(e, p, rest)
    BY <2>1, BecomeType, SendType, TimerType DEF CommitSent_Commit, Respond, Prepared, TypeOK,
       keyVars, engineVars, KeptFits, Kind, HKind, CKind, DKind
  <2>2. CASE CommitSent_DHPart(e, p, rest)
    <3>1. /\ generateS0(e, e, p) \in Secret
          /\ sender' = sender /\ zid' = zid
          /\ \A kind \in Kind : sendPacket(e, kind) \in Packet
          /\ "DHPart2" \in Kind
      BY <2>2, SecretType, SendType DEF CommitSent_DHPart, Kind, DKind
    <3>2. CASE /\ Become(e, "Initial", NULL)
               /\ net' = rest
               /\ cancelTimer(e)
               /\ receiver' = [receiver EXCEPT ![e] = KeyOf(NULL, "Responder")]
               /\ s0' = s0
      BY <3>1, <3>2, BecomeType, TimerType, KeysType DEF TypeOK
    <3>3. CASE LET secret == generateS0(e, e, p) IN
               /\ Become(e, "WaitConfirm1", "DHPart2")
               /\ net' = rest \cup {sendPacket(e, "DHPart2")}
               /\ restartTimer(e)
               /\ s0' = [s0 EXCEPT ![e] = secret]
               /\ receiver' = [receiver EXCEPT ![e] = KeyOf(secret, "Responder")]
      BY <3>1, <3>3, BecomeType, TimerType, KeysType DEF TypeOK
    <3>. QED
      BY <2>2, <3>2, <3>3, NullFacts DEF CommitSent_DHPart, Prepared, Kind, DKind
  <2>. QED
    BY <1>4, <2>1, <2>2 DEF evCommitSent
<1>5. CASE evWaitDHPart2(e, p, rest)
  <2>1. CASE p.kind \in CKind /\ Resend(e, rest)
    BY <1>5, <2>1, SendType DEF evWaitDHPart2, Resend, TypeOK, keyVars, timerVars, engineVars,
       KeptFits, Kind, DKind, CKind
  <2>2. CASE WaitDHPart2_DHPart(e, p, rest)
    <3>1. /\ generateS0(e, Peer(e), p) \in Secret
          /\ zid' = zid /\ UNCHANGED timerVars
          /\ "Confirm1" \in Kind
      BY <1>5, <2>2, SecretType, PeerFacts DEF evWaitDHPart2, WaitDHPart2_DHPart, Kind, CKind
    <3>2. CASE Become(e, "Initial", NULL) /\ net' = rest /\ UNCHANGED keyVars
      BY <3>1, <3>2, BecomeType DEF TypeOK, keyVars, timerVars
    <3>3. CASE LET secret == generateS0(e, Peer(e), p)
                   key == KeyOf(secret, "Responder") IN
               /\ Become(e, "WaitConfirm2", "Confirm1")
               /\ net' = rest \cup {PacketWith(e, "Confirm1", key)}
               /\ s0' = [s0 EXCEPT ![e] = secret]
               /\ sender' = [sender EXCEPT ![e] = key]
               /\ receiver' = [receiver EXCEPT ![e] = KeyOf(secret, "Initiator")]
      BY <3>1, <3>3, BecomeType, KeysType DEF TypeOK, timerVars
    <3>. QED
      BY <2>2, <3>2, <3>3, NullFacts DEF WaitDHPart2_DHPart, Prepared, Kind, CKind
  <2>. QED
    BY <1>5, <2>1, <2>2 DEF evWaitDHPart2
<1>6. CASE evWaitConfirm1(e, p, rest)
  <2>1. CASE /\ Become(e, "Initial", NULL) /\ net' = rest /\ cancelTimer(e)
             /\ srtpSecretsOff(e) /\ UNCHANGED zid
    BY <2>1, BecomeType, TimerType DEF TypeOK, srtpSecretsOff
  <2>2. CASE LET key == KeyOf(s0[e], "Initiator") IN
             /\ Become(e, "WaitConfAck", "Confirm2")
             /\ net' = rest \cup {PacketWith(e, "Confirm2", key)}
             /\ restartTimer(e)
             /\ setNewRs1(e)
             /\ sender' = [sender EXCEPT ![e] = key]
             /\ UNCHANGED <<s0, receiver>>
    <3>1. s0[e] \in Secret \cup {NULL} /\ "Confirm2" \in Kind
      BY DEF TypeOK, Kind, CKind
    <3>. QED
      BY <3>1, <2>2, BecomeType, TimerType, KeysType, SaveType DEF TypeOK
  <2>. QED
    BY <1>6, <2>1, <2>2, NullFacts DEF evWaitConfirm1, Prepared, Kind, CKind
<1>7. CASE evWaitConfirm2(e, p, rest)
  <2>1. CASE Resend(e, rest)
    BY <1>7, <2>1, SendType DEF evWaitConfirm2, Resend, TypeOK, KeptFits, keyVars, timerVars,
       engineVars, Kind, CKind
  <2>2. CASE WaitConfirm2_Confirm2(e, rest)
    <3>1. CASE Become(e, "Initial", NULL) /\ net' = rest /\ srtpSecretsOff(e) /\ UNCHANGED zid
      BY <1>7, <3>1, BecomeType DEF evWaitConfirm2, TypeOK, srtpSecretsOff, timerVars
    <3>2. CASE /\ Become(e, "SecureState", "Conf2ACK")
               /\ net' = rest \cup {sendPacket(e, "Conf2ACK")}
               /\ setNewRs1(e)
               /\ UNCHANGED keyVars
      BY <1>7, <3>2, BecomeType, SendType, SaveType DEF evWaitConfirm2, TypeOK, keyVars,
         timerVars, Kind, CKind
    <3>. QED
      BY <2>2, <3>1, <3>2, NullFacts DEF WaitConfirm2_Confirm2, Prepared, Kind, CKind
  <2>. QED
    BY <1>7, <2>1, <2>2 DEF evWaitConfirm2
<1>8. CASE evWaitConfAck(e, p, rest)
  BY <1>8, BecomeType, TimerType DEF evWaitConfAck, TypeOK, keyVars
<1>9. CASE evSecureState(e, p, rest)
  BY <1>9, SendType DEF evSecureState, Resend, TypeOK, KeptFits, keyVars, timerVars, engineVars,
     Kind, CKind
<1>10. CASE evUnknown(e, p, rest)
  BY <1>10 DEF evUnknown, Ignore, TypeOK, KeptFits, keyVars, timerVars, engineVars
<1>. QED
  BY <1>1, <1>2, <1>3, <1>4, <1>5, <1>6, <1>7, <1>8, <1>9, <1>10 DEF processExtensionHeader

LEMMA TmType ==
  ASSUME TypeInv, NEW e \in Endpoint,
         session' = session, lower' = lower, doubled' = doubled,
         processTimeout(e)
  PROVE  TypeInv'
<1>. USE DEF TypeInv
<1>0. TypeOK /\ KeptFits
  OBVIOUS
<1>1. CASE tmResend(e)
  BY <1>1, SendType DEF tmResend, Delivered, Resend, TypeOK, KeptFits, keyVars, engineVars
<1>2. CASE tmDetect(e)
  BY <1>2, BecomeType DEF tmDetect, GiveUp, Delivered, TypeOK, keyVars
<1>3. CASE tmCommitSent(e)
  BY <1>3, BecomeType DEF tmCommitSent, GiveUp, Delivered, TypeOK, keyVars
<1>7. CASE tmWaitConfirm1(e)
  BY <1>7, BecomeType DEF tmWaitConfirm1, GiveUp, Delivered, TypeOK, keyVars
<1>6. CASE tmWaitConfAck(e)
  BY <1>6, BecomeType DEF tmWaitConfAck, GiveUp, Delivered, srtpSecretsOff, TypeOK
<1>4. CASE tmInternalProtocolError(e) \/ tmSecretsOff(e)
  BY <1>4, BecomeType DEF tmInternalProtocolError, tmSecretsOff, Delivered, srtpSecretsOff,
     TypeOK, keyVars
<1>5. CASE tmIgnored(e)
  BY <1>5 DEF tmIgnored, Delivered, TypeOK, KeptFits, keyVars, engineVars
<1>. QED
  BY <1>1, <1>2, <1>3, <1>4, <1>5, <1>6, <1>7 DEF processTimeout

LEMMA InitType == Init => TypeInv
BY NullFacts, ZRtpAssumption DEF Init, TypeInv, TypeOK, KeptFits, Record

LEMMA StepType == TypeInv /\ [Next]_vars => TypeInv'
<1>. SUFFICES ASSUME TypeInv, [Next]_vars PROVE TypeInv'
  OBVIOUS
<1>0. TypeOK /\ KeptFits
  BY DEF TypeInv
<1>1. ASSUME NEW e \in Endpoint, Start(e) PROVE TypeInv'
  BY <1>0, <1>1, BecomeType, SendType, TimerType DEF Start, evInitial, sessionVars, keyVars,
     TypeOK, TypeInv, Kind, HKind
<1>2. ASSUME NEW e \in Endpoint, NEW p \in net, Receive(e, p) \/ ReceiveDoubled(e, p)
      PROVE  TypeInv'
  <2>. DEFINE rest == IF Receive(e, p) THEN net \ {p} ELSE net
  <2>1. /\ p \in Packet /\ rest \in SUBSET Packet
        /\ session' = session /\ lower' = lower /\ doubled' \in 0 .. MaxDoubled[session]
        /\ Process(e, p, rest)
    BY <1>0, <1>2, ZRtpAssumption DEF Receive, ReceiveDoubled, TypeOK, sessionVars
  <2>2. CASE unprotect(e, p)
    BY <2>1, <2>2, EvType DEF Process
  <2>3. CASE ~unprotect(e, p)
    BY <1>0, <2>1, <2>3 DEF Process, Ignore, TypeInv, TypeOK, KeptFits, keyVars, timerVars,
       engineVars
  <2>. QED
    BY <2>2, <2>3
<1>3. ASSUME NEW e \in Endpoint, TakeTimeout(e) PROVE TypeInv'
  BY <1>0, <1>3 DEF TakeTimeout, TypeInv, TypeOK, KeptFits, keyVars, engineVars, sessionVars
<1>4. ASSUME NEW e \in Endpoint, Timeout(e) PROVE TypeInv'
  BY <1>4, TmType DEF Timeout, sessionVars
<1>5. ASSUME NEW e \in Endpoint, Stop(e) PROVE TypeInv'
  BY <1>0, <1>5, BecomeType DEF Stop, srtpSecretsOff, TypeInv, TypeOK, keyVars, sessionVars
<1>6. CASE NextCall
  BY <1>0, <1>6, NullFacts, ZRtpAssumption DEF NextCall, TypeInv, TypeOK, KeptFits
<1>7. ASSUME NEW e \in Endpoint, Acknowledge(e) PROVE TypeInv'
  BY <1>0, <1>7, SendType DEF Acknowledge, TypeInv, TypeOK, KeptFits, keyVars, timerVars,
     engineVars, sessionVars, Kind, HKind
<1>8. CASE UNCHANGED vars
  BY <1>0, <1>8 DEF vars, TypeInv, TypeOK, KeptFits, keyVars, timerVars, engineVars, sessionVars
<1>. QED
  BY <1>1, <1>2, <1>3, <1>4, <1>5, <1>6, <1>7, <1>8 DEF Next

(* The variables have their types, and every state has kept the packet it  *)
(* will resend: none of the handlers ever sends what is not there.         *)
THEOREM Typed == Spec => [](TypeOK /\ KeptFits)
<1>1. Spec => []TypeInv
  BY InitType, StepType, PTL DEF Spec
<1>. QED
  BY <1>1, PTL DEF TypeInv


----------------------------------------------------------------------------
(* Timers.                                                                 *)
LEMMA TimerFrame ==
  ASSUME TypeInv, NEW e \in Endpoint,
         cancelTimer(e) \/ startTimer(e) \/ restartTimer(e) \/ UNCHANGED timerVars
  PROVE  \A f \in Endpoint \ {e} :
           pending'[f] = pending[f] /\ due'[f] = due[f] /\ counter'[f] = counter[f]
BY DEF TypeInv, TypeOK, cancelTimer, startTimer, restartTimer, timerVars

LEMMA BecomeFrame ==
  ASSUME TypeInv, NEW e \in Endpoint, NEW next, NEW packet, Become(e, next, packet)
  PROVE  /\ state'[e] = next /\ sentPacket'[e] = packet
         /\ \A f \in Endpoint \ {e} : state'[f] = state[f] /\ sentPacket'[f] = sentPacket[f]
BY DEF TypeInv, TypeOK, Become

LEMMA EvTimed ==
  ASSUME TypeInv, WaitIsTimed, NEW e \in Endpoint, NEW p \in Packet, NEW rest,
         processExtensionHeader(e, p, rest)
  PROVE  WaitIsTimed'
<1>. USE DEF InitiatorWaits
<1>0. \A f \in Endpoint : state[f] \in InitiatorWaits => pending[f] > 0 \/ due[f]
  BY DEF WaitIsTimed
<1>1. CASE evDetect(e, p, rest)
  BY <1>0, <1>1, TimerFrame, BecomeFrame, TimerType, NullFacts DEF TypeInv, evDetect, Respond,
     Detect_Hello, Prepared, WaitIsTimed
<1>2. CASE evAckDetected(e, p, rest) \/ evWaitCommit(e, p, rest)
  BY <1>0, <1>2, BecomeFrame DEF evAckDetected, evWaitCommit, Respond, Resend, engineVars,
     timerVars, WaitIsTimed
<1>3. CASE evCommitSent(e, p, rest)
  <2>1. CASE CommitSent_Commit(e, p, rest)
    BY <1>0, <2>1, TimerFrame, BecomeFrame, TimerType DEF TypeInv, CommitSent_Commit, Respond,
       engineVars, WaitIsTimed
  <2>2. CASE CommitSent_DHPart(e, p, rest)
    BY <1>0, <2>2, TimerFrame, BecomeFrame, TimerType DEF TypeInv, CommitSent_DHPart,
       WaitIsTimed
  <2>. QED
    BY <1>3, <2>1, <2>2 DEF evCommitSent
<1>4. CASE evWaitDHPart2(e, p, rest)
  BY <1>0, <1>4, BecomeFrame DEF evWaitDHPart2, WaitDHPart2_DHPart, Resend, engineVars,
     timerVars, WaitIsTimed
<1>5. CASE evWaitConfirm1(e, p, rest)
  BY <1>0, <1>5, TimerFrame, BecomeFrame, TimerType DEF TypeInv, evWaitConfirm1, WaitIsTimed
<1>6. CASE evWaitConfirm2(e, p, rest)
  BY <1>0, <1>6, BecomeFrame DEF evWaitConfirm2, WaitConfirm2_Confirm2, Resend, engineVars,
     timerVars, WaitIsTimed
<1>7. CASE evWaitConfAck(e, p, rest)
  BY <1>0, <1>7, TimerFrame, BecomeFrame DEF evWaitConfAck, WaitIsTimed
<1>8. CASE evSecureState(e, p, rest) \/ evUnknown(e, p, rest)
  BY <1>0, <1>8 DEF evSecureState, evUnknown, Ignore, Resend, engineVars, timerVars, WaitIsTimed
<1>. QED
  BY <1>1, <1>2, <1>3, <1>4, <1>5, <1>6, <1>7, <1>8 DEF processExtensionHeader

LEMMA TmTimed ==
  ASSUME TypeInv, WaitIsTimed, NEW e \in Endpoint, processTimeout(e)
  PROVE  WaitIsTimed'
<1>. USE DEF InitiatorWaits
<1>0. \A f \in Endpoint : state[f] \in InitiatorWaits => pending[f] > 0 \/ due[f]
  BY DEF WaitIsTimed
<1>1. /\ due \in [Endpoint -> BOOLEAN] /\ pending \in [Endpoint -> Nat]
      /\ due' = [due EXCEPT ![e] = FALSE]
  BY DEF TypeInv, TypeOK, processTimeout, tmResend, tmDetect, tmCommitSent, tmWaitConfirm1,
     tmWaitConfAck, tmInternalProtocolError, tmSecretsOff, tmIgnored, GiveUp, Delivered
<1>2. CASE tmResend(e)
  BY <1>0, <1>1, <1>2 DEF tmResend, Resend, engineVars, WaitIsTimed
<1>3. CASE tmIgnored(e)
  BY <1>0, <1>1, <1>3 DEF tmIgnored, engineVars, WaitIsTimed
<1>4. CASE \E next \in {"Initial", "Detect"} : Become(e, next, NULL) /\ pending' = pending
  BY <1>0, <1>1, <1>4, BecomeFrame DEF WaitIsTimed
<1>. QED
  BY <1>2, <1>3, <1>4 DEF processTimeout, tmDetect, tmCommitSent, tmWaitConfirm1,
     tmWaitConfAck, tmInternalProtocolError, tmSecretsOff, GiveUp

(* An initiator never waits without a timeout to come, whether that was    *)
(* cancelled too late or what it repeats is answered by nobody.            *)
THEOREM WaitsAreTimed == Spec => []WaitIsTimed
<1>1. Init => WaitIsTimed
  BY DEF Init, WaitIsTimed, InitiatorWaits
<1>2. TypeInv /\ WaitIsTimed /\ [Next]_vars => WaitIsTimed'
  <2>. SUFFICES ASSUME TypeInv, WaitIsTimed, [Next]_vars PROVE WaitIsTimed'
    OBVIOUS
  <2>0. \A f \in Endpoint : state[f] \in InitiatorWaits => pending[f] > 0 \/ due[f]
    BY DEF WaitIsTimed
  <2>1. ASSUME NEW e \in Endpoint, Start(e) PROVE WaitIsTimed'
    BY <2>0, <2>1, BecomeFrame, TimerFrame DEF Start, evInitial, WaitIsTimed, InitiatorWaits
  <2>2. ASSUME NEW e \in Endpoint, NEW p \in net, Receive(e, p) \/ ReceiveDoubled(e, p)
        PROVE  WaitIsTimed'
    <3>1. p \in Packet
      BY DEF TypeInv, TypeOK
    <3>2. ASSUME NEW rest, Process(e, p, rest) PROVE WaitIsTimed'
      BY <2>0, <3>1, <3>2, EvTimed DEF Process, Ignore, engineVars, timerVars, WaitIsTimed
    <3>. QED
      BY <2>2, <3>2 DEF Receive, ReceiveDoubled
  <2>3. ASSUME NEW e \in Endpoint, TakeTimeout(e) PROVE WaitIsTimed'
    BY <2>0, <2>3 DEF TakeTimeout, engineVars, TypeInv, TypeOK, WaitIsTimed
  <2>4. ASSUME NEW e \in Endpoint, Timeout(e) PROVE WaitIsTimed'
    BY <2>4, TmTimed DEF Timeout
  <2>5. ASSUME NEW e \in Endpoint, Stop(e) PROVE WaitIsTimed'
    BY <2>0, <2>5, BecomeFrame DEF Stop, TypeInv, TypeOK, WaitIsTimed, InitiatorWaits
  <2>6. CASE NextCall
    BY <2>6 DEF NextCall, WaitIsTimed, InitiatorWaits
  <2>7. ASSUME NEW e \in Endpoint, Acknowledge(e) PROVE WaitIsTimed'
    BY <2>0, <2>7 DEF Acknowledge, timerVars, engineVars, WaitIsTimed
  <2>8. CASE UNCHANGED vars
    BY <2>0, <2>8 DEF vars, timerVars, engineVars, WaitIsTimed
  <2>. QED
    BY <2>1, <2>2, <2>3, <2>4, <2>5, <2>6, <2>7, <2>8 DEF Next
<1>. QED
  BY <1>1, <1>2, Typed, PTL DEF Spec, TypeInv


----------------------------------------------------------------------------
(* Agreement.                                                              *)

(* What may be sent in a state without a look at what it says.             *)
MaySend(e, kind) ==
  \/ kind \in HKind \cup {"Commit", "DHPart1"} /\ state[e] \in BeforeSecret
  \/ kind = "DHPart2" /\ state[e] = "WaitConfirm1"
  \/ kind = "Confirm2" /\ state[e] = "WaitConfAck"
  \/ kind = "Conf2ACK" /\ state[e] = "SecureState" /\ sentPacket[e] # NULL

LEMMA MaySendFits ==
  ASSUME TypeInv, Agreement, NEW e \in Endpoint, NEW kind \in Kind, MaySend(e, kind),
         NEW q, q = sendPacket(e, kind)
  PROVE  /\ q.kind = kind /\ q.from = e /\ q.key = sender[e]
         /\ kind \in DKind => q.ids = zid[e]
         /\ kind \in DKind \cup {"Commit"} => q.key = NULL
         /\ q.key # NULL => s0[e] # NULL
         /\ kind # "Confirm1"
         /\ kind = "Confirm2" => q.key = KeyOf(s0[e], "Initiator") /\ zid[e][1] = s0[e]
         /\ kind = "Conf2ACK" => q.key = KeyOf(s0[e], "Responder") /\ zid[e][1] = s0[e]
         /\ kind = "DHPart2" => Offered(e, q.ids)
         /\ kind = "DHPart1" => s0[e] = NULL
<1>1. q.kind = kind /\ q.from = e /\ q.key = sender[e] /\ (kind \in DKind => q.ids = zid[e])
  BY DEF sendPacket, PacketWith
<1>. QED
  BY <1>1 DEF MaySend, Agreement, SecretFits, SecureFits, OfferedFits, BeforeSecret, HKind, DKind

(* A step that agrees on nothing: it may only end the negotiation, or go   *)
(* on before there is a secret, or repeat.                                 *)
LEMMA Quiet ==
  ASSUME TypeInv, Agreement, NEW e \in Endpoint,
         s0' = s0, receiver' = receiver, zid' = zid, session' = session,
         \A f \in Endpoint \ {e} : state'[f] = state[f] /\ sentPacket'[f] = sentPacket[f],
         \/ state'[e] = state[e] /\ sentPacket'[e] = sentPacket[e]
         \/ state[e] \in BeforeSecret /\ state'[e] \in BeforeSecret
         \/ state'[e] \in {"Initial", "Deleted"},
         \/ sender' = sender
         \/ state'[e] \in {"Initial", "Deleted"} /\ sender' = [sender EXCEPT ![e] = NULL],
         \A q \in net' : q \in net \/ \E kind \in Kind : MaySend(e, kind) /\ q = sendPacket(e, kind)
  PROVE  Agreement'
<1>. USE DEF Agreement
<1>a. \A f \in Endpoint : f = e \/ f \in Endpoint \ {e}
  OBVIOUS
<1>b. \A f \in Endpoint : state'[f] \in {"Initial", "Deleted"} \/ sender'[f] = sender[f]
  <2>1. sender \in [Endpoint -> Key \cup {NULL}]
    BY DEF TypeInv, TypeOK
  <2>2. CASE sender' = sender
    BY <2>2
  <2>3. CASE state'[e] \in {"Initial", "Deleted"} /\ sender' = [sender EXCEPT ![e] = NULL]
    BY <1>a, <2>1, <2>3
  <2>. QED
    BY <2>2, <2>3
<1>c. \A f \in Endpoint : sender'[f] = sender[f] \/ (f = e /\ sender'[f] = NULL)
  <2>1. sender \in [Endpoint -> Key \cup {NULL}]
    BY DEF TypeInv, TypeOK
  <2>2. CASE sender' = sender
    BY <2>2
  <2>3. CASE sender' = [sender EXCEPT ![e] = NULL]
    BY <1>a, <2>1, <2>3
  <2>. QED
    BY <2>2, <2>3
<1>d. \A f \in Endpoint :
        \/ state'[f] = state[f] /\ sentPacket'[f] = sentPacket[f]
        \/ state[f] \in BeforeSecret /\ state'[f] \in BeforeSecret
        \/ state'[f] \in {"Initial", "Deleted"}
  BY <1>a
<1>0. /\ \A f \in Endpoint : sender'[f] = sender[f] \/ (f = e /\ sender'[f] = NULL)
      /\ \A f \in Endpoint : state'[f] \in {"Initial", "Deleted"} \/ sender'[f] = sender[f]
      /\ \A f \in Endpoint :
           \/ state'[f] = state[f] /\ sentPacket'[f] = sentPacket[f]
           \/ state[f] \in BeforeSecret /\ state'[f] \in BeforeSecret
           \/ state'[f] \in {"Initial", "Deleted"}
  BY <1>b, <1>c, <1>d
<1>1. SecretFits'
  BY <1>0, PeerFacts DEF SecretFits, BeforeSecret, WithSecret
<1>2. OfferedFits'
  <2>1. \A f \in Endpoint : state'[f] = "WaitConfirm1" => state[f] = "WaitConfirm1"
    BY <1>0 DEF BeforeSecret
  <2>2. \A q \in net' : /\ q.kind = "DHPart2" => Offered(q.from, q.ids)
                        /\ q.kind = "DHPart1" /\ s0[q.from] = NULL => q.ids = zid[q.from]
    BY MaySendFits DEF OfferedFits, DKind
  <2>. QED
    BY <2>1, <2>2 DEF OfferedFits, Offered
<1>3. PacketsFit'
  <2>1. \A f \in Endpoint : state'[f] = "WaitConfAck" => state[f] = "WaitConfAck"
    BY <1>0 DEF BeforeSecret
  <2>2. ASSUME NEW q \in net', q \in net
        PROVE  /\ q.kind \in DKind \cup {"Commit"} => q.key = NULL
               /\ q.key # NULL => s0[q.from] # NULL
               /\ q.kind = "Confirm1" =>
                    /\ q.key = KeyOf(s0[q.from], "Responder")
                    /\ receiver[q.from] = KeyOf(s0[q.from], "Initiator")
                    /\ q.ids = <<NULL, NULL>>
                    /\ state'[Peer(q.from)] # "WaitConfAck"
               /\ q.kind = "Confirm2" =>
                    q.key = KeyOf(s0[q.from], "Initiator") /\ zid[q.from][1] = s0[q.from]
               /\ q.kind = "Conf2ACK" =>
                    q.key = KeyOf(s0[q.from], "Responder") /\ zid[q.from][1] = s0[q.from]
    BY <2>1, <2>2, PeerFacts DEF PacketsFit, TypeInv, TypeOK, Packet
  <2>3. ASSUME NEW q \in net', NEW kind \in Kind, MaySend(e, kind), q = sendPacket(e, kind)
        PROVE  /\ q.kind \in DKind \cup {"Commit"} => q.key = NULL
               /\ q.key # NULL => s0[q.from] # NULL
               /\ q.kind # "Confirm1"
               /\ q.kind = "Confirm2" =>
                    q.key = KeyOf(s0[q.from], "Initiator") /\ zid[q.from][1] = s0[q.from]
               /\ q.kind = "Conf2ACK" =>
                    q.key = KeyOf(s0[q.from], "Responder") /\ zid[q.from][1] = s0[q.from]
    BY <2>3, MaySendFits
  <2>. QED
    BY <2>2, <2>3 DEF PacketsFit, KeyOf
<1>4. ZrtpIsReadable'
  BY <1>0, PeerFacts DEF ZrtpIsReadable
<1>5. SecureFits'
  BY <1>0 DEF SecureFits, BeforeSecret
<1>. QED
  BY <1>1, <1>2, <1>3, <1>4, <1>5


(* DHPart1 arrives: the initiator has its secret, or none for lack of one. *)
LEMMA OfferAgrees ==
  ASSUME TypeInv, TypeInv', Agreement, NEW e \in Endpoint, NEW p \in net, NEW rest \in SUBSET net,
         p.from = Peer(e), state[e] = "CommitSent", p.kind \in DKind, session' = session,
         CommitSent_DHPart(e, p, rest)
  PROVE  Agreement'
<1>. USE DEF Agreement
<1>1. /\ s0[e] = NULL /\ sender[e] = NULL /\ sender[Peer(e)] = NULL
      /\ state[Peer(e)] \notin {"SecureState", "WaitConfAck"}
  <2>1. s0[e] = NULL /\ sender[e] = NULL
    BY DEF SecretFits, BeforeSecret
  <2>2. Peer(e) \in Endpoint /\ Peer(Peer(e)) = e
    BY PeerFacts
  <2>3. sender[Peer(e)] = NULL
    BY <2>1, <2>2 DEF SecretFits
  <2>4. state[Peer(e)] # "SecureState"
    BY <2>1, <2>2 DEF SecretFits, SecureFits, WithSecret
  <2>5. state[Peer(e)] # "WaitConfAck"
    BY <2>2, <2>3, NullFacts DEF SecretFits, TypeInv, TypeOK
  <2>. QED
    BY <2>1, <2>3, <2>4, <2>5
<1>2. /\ sender' = sender /\ zid' = zid
      /\ s0 \in [Endpoint -> Secret \cup {NULL}] /\ receiver \in [Endpoint -> Key \cup {NULL}]
      /\ \A f \in Endpoint : f = e \/ f = Peer(e)
      /\ Peer(e) \in Endpoint \ {e}
  BY PeerFacts DEF CommitSent_DHPart, TypeInv, TypeOK
<1>3. /\ \A q \in net : q \in Packet /\ q.from \in Endpoint
      /\ \A q \in net : q.from = e => q.key = NULL /\ q.kind # "DHPart2"
  BY <1>1 DEF PacketsFit, OfferedFits, Offered, TypeInv, TypeOK, Packet
<1>4. \A q \in net : q.from = e => q.kind \notin {"Confirm1", "Confirm2", "Conf2ACK"}
  BY <1>3, <1>1, NullFacts DEF PacketsFit
<1>5. CASE /\ Become(e, "Initial", NULL) /\ net' = rest /\ s0' = s0
           /\ receiver' = [receiver EXCEPT ![e] = KeyOf(NULL, "Responder")]
  <2>1. /\ state'[e] = "Initial" /\ state'[Peer(e)] = state[Peer(e)]
        /\ sentPacket'[Peer(e)] = sentPacket[Peer(e)]
        /\ receiver'[Peer(e)] = receiver[Peer(e)]
    BY <1>2, <1>5, BecomeFrame
  <2>2. SecretFits'
    BY <1>1, <1>2, <1>5, <2>1, PeerFacts DEF SecretFits, BeforeSecret, WithSecret
  <2>3. OfferedFits'
    BY <1>1, <1>2, <1>3, <1>5, <2>1 DEF OfferedFits, Offered
  <2>4. PacketsFit'
    BY <1>1, <1>2, <1>3, <1>4, <1>5, <2>1, PeerFacts DEF PacketsFit
  <2>5. ZrtpIsReadable' /\ SecureFits'
    BY <1>1, <1>2, <1>5, <2>1, PeerFacts DEF ZrtpIsReadable, SecureFits
  <2>. QED
    BY <2>2, <2>3, <2>4, <2>5
<1>6. CASE LET secret == generateS0(e, e, p) IN
           /\ Become(e, "WaitConfirm1", "DHPart2")
           /\ net' = rest \cup {sendPacket(e, "DHPart2")}
           /\ s0' = [s0 EXCEPT ![e] = secret]
           /\ receiver' = [receiver EXCEPT ![e] = KeyOf(secret, "Responder")]
  <2>. DEFINE secret == generateS0(e, e, p)
  <2>1. /\ state'[e] = "WaitConfirm1" /\ state'[Peer(e)] = state[Peer(e)]
        /\ sentPacket'[Peer(e)] = sentPacket[Peer(e)]
        /\ s0'[Peer(e)] = s0[Peer(e)] /\ s0'[e] = secret
        /\ receiver'[Peer(e)] = receiver[Peer(e)] /\ receiver'[e] = KeyOf(secret, "Responder")
    BY <1>2, <1>6, BecomeFrame
  <2>2. secret \in Secret /\ secret # NULL
    BY <1>3, SecretType, NullFacts DEF TypeInv
  <2>3. Offered(e, zid[e])'
    <3>1. s0[Peer(e)] = NULL => p.ids = zid[Peer(e)]
      BY <1>3 DEF OfferedFits, Offered, DKind
    <3>2. s0[Peer(e)] = NULL => secret.retained = Matching(zid[Peer(e)], zid[e])
      BY <3>1 DEF generateS0, Matching
    <3>3. secret.session = session /\ secret.initiator = e
      BY DEF generateS0
    <3>. QED
      BY <1>2, <2>1, <2>2, <3>2, <3>3 DEF Offered
  <2>4. SecretFits'
    BY <1>1, <1>2, <2>1, <2>2, PeerFacts DEF SecretFits, BeforeSecret, WithSecret
  <2>5. \A q \in net' : \/ q \in net
                       \/ /\ q.kind = "DHPart2" /\ q.from = e /\ q.key = NULL
                          /\ q.ids = zid[e]
    BY <1>1, <1>6 DEF sendPacket, PacketWith, DKind
  <2>6. OfferedFits'
    <3>1. \A q \in net : q.kind = "DHPart2" => Offered(q.from, q.ids)'
      BY <1>2, <1>3, <2>1, <2>2, PeerFacts DEF OfferedFits, Offered
    <3>2. \A q \in net : q.kind = "DHPart1" /\ s0'[q.from] = NULL => q.ids = zid[q.from]
      BY <1>2, <1>3, <2>1, <2>2 DEF OfferedFits
    <3>3. state'[Peer(e)] = "WaitConfirm1" => Offered(Peer(e), zid[Peer(e)])'
      <4>1. state[Peer(e)] = "WaitConfirm1" => Offered(Peer(e), zid[Peer(e)])
        BY <1>2 DEF OfferedFits
      <4>2. Peer(Peer(e)) = e
        BY PeerFacts
      <4>. QED
        BY <4>1, <4>2, <1>2, <2>1, <2>2 DEF Offered
    <3>. QED
      BY <1>2, <2>3, <2>5, <3>1, <3>2, <3>3 DEF OfferedFits
  <2>7. PacketsFit'
    BY <1>1, <1>2, <1>3, <1>4, <2>1, <2>2, <2>5, PeerFacts DEF PacketsFit, DKind
  <2>8. ZrtpIsReadable' /\ SecureFits'
    BY <1>1, <1>2, <2>1, PeerFacts DEF ZrtpIsReadable, SecureFits
  <2>. QED
    BY <2>4, <2>6, <2>7, <2>8
<1>. QED
  BY <1>5, <1>6, <1>2 DEF CommitSent_DHPart, Prepared


(* DHPart2 arrives: the responder computes the secret the initiator has.   *)
LEMMA AnswerAgrees ==
  ASSUME TypeInv, TypeInv', Agreement, NEW e \in Endpoint, NEW p \in net, NEW rest \in SUBSET net,
         p.from = Peer(e), state[e] = "WaitDHPart2", p.kind = "DHPart2", session' = session,
         zid' = zid,
         Become(e, "WaitConfirm2", "Confirm1"),
         net' = rest \cup {PacketWith(e, "Confirm1",
                                      KeyOf(generateS0(e, Peer(e), p), "Responder"))},
         s0' = [s0 EXCEPT ![e] = generateS0(e, Peer(e), p)],
         sender' = [sender EXCEPT ![e] = KeyOf(generateS0(e, Peer(e), p), "Responder")],
         receiver' = [receiver EXCEPT ![e] = KeyOf(generateS0(e, Peer(e), p), "Initiator")]
  PROVE  Agreement'
<1>. USE DEF Agreement
<1>. DEFINE secret == generateS0(e, Peer(e), p)
            key == KeyOf(secret, "Responder")
<1>1. /\ \A f \in Endpoint : f = e \/ f = Peer(e)
      /\ Peer(e) \in Endpoint \ {e} /\ Peer(Peer(e)) = e
  BY PeerFacts
<1>2. /\ s0[e] = NULL /\ sender[e] = NULL /\ sender[Peer(e)] = NULL
      /\ state[Peer(e)] # "SecureState"
  BY <1>1 DEF SecretFits, SecureFits, BeforeSecret, WithSecret
<1>3. state[Peer(e)] # "WaitConfAck"
  BY <1>1, <1>2, NullFacts DEF SecretFits, TypeInv, TypeOK
<1>4. /\ s0 \in [Endpoint -> Secret \cup {NULL}] /\ sender \in [Endpoint -> Key \cup {NULL}]
      /\ receiver \in [Endpoint -> Key \cup {NULL}]
      /\ \A q \in net : q \in Packet /\ q.from \in Endpoint
  BY DEF TypeInv, TypeOK, Packet
<1>5. secret \in Secret /\ secret # NULL /\ key # NULL
  BY <1>1, <1>4, SecretType, NullFacts DEF TypeInv
<1>6. secret = s0[Peer(e)] /\ receiver[Peer(e)] = key
  <2>1. Offered(Peer(e), p.ids)
    BY DEF OfferedFits
  <2>2. /\ s0[Peer(e)] \in Secret
        /\ s0[Peer(e)].session = session /\ s0[Peer(e)].initiator = Peer(e)
        /\ s0[Peer(e)].retained = Matching(zid[e], p.ids)
        /\ receiver[Peer(e)] = KeyOf(s0[Peer(e)], "Responder")
    BY <1>1, <1>2, <1>4, <2>1 DEF Offered
  <2>3. secret = s0[Peer(e)]
    BY <2>2 DEF generateS0, Secret
  <2>. QED
    BY <2>2, <2>3
<1>7. /\ state'[e] = "WaitConfirm2" /\ state'[Peer(e)] = state[Peer(e)]
      /\ sentPacket'[Peer(e)] = sentPacket[Peer(e)]
      /\ s0'[e] = secret /\ s0'[Peer(e)] = s0[Peer(e)]
      /\ sender'[e] = key /\ sender'[Peer(e)] = sender[Peer(e)]
      /\ receiver'[e] = KeyOf(secret, "Initiator") /\ receiver'[Peer(e)] = receiver[Peer(e)]
  BY <1>1, <1>4, BecomeFrame
<1>8. \A q \in net' : \/ q \in net
                     \/ /\ q.kind = "Confirm1" /\ q.from = e /\ q.key = key
                        /\ q.ids = <<NULL, NULL>>
  BY DEF PacketWith, DKind
<1>9. SecretFits'
  BY <1>1, <1>2, <1>5, <1>6, <1>7 DEF SecretFits, BeforeSecret, WithSecret
<1>10. OfferedFits'
  <2>1. \A q \in net : q.kind = "DHPart2" => Offered(q.from, q.ids)'
    BY <1>1, <1>2, <1>4, <1>5, <1>7 DEF OfferedFits, Offered
  <2>2. \A q \in net : q.kind = "DHPart1" /\ s0'[q.from] = NULL => q.ids = zid[q.from]
    BY <1>1, <1>4, <1>5, <1>7 DEF OfferedFits
  <2>3. state'[Peer(e)] = "WaitConfirm1" => Offered(Peer(e), zid[Peer(e)])'
    <3>1. state[Peer(e)] = "WaitConfirm1" => Offered(Peer(e), zid[Peer(e)])
      BY <1>1 DEF OfferedFits
    <3>. QED
      BY <3>1, <1>1, <1>5, <1>7 DEF Offered
  <2>. QED
    BY <1>1, <1>7, <1>8, <2>1, <2>2, <2>3 DEF OfferedFits
<1>11. PacketsFit'
  <2>1. \A q \in net : q.from = e =>
          q.key = NULL /\ q.kind \notin {"Confirm1", "Confirm2", "Conf2ACK"}
    BY <1>2, <1>4, NullFacts DEF PacketsFit
  <2>. QED
    BY <1>1, <1>3, <1>4, <1>5, <1>7, <1>8, <2>1 DEF PacketsFit, DKind
<1>12. ZrtpIsReadable'
  BY <1>1, <1>2, <1>6, <1>7 DEF ZrtpIsReadable
<1>13. SecureFits'
  BY <1>1, <1>2, <1>3, <1>7 DEF SecureFits
<1>. QED
  BY <1>9, <1>10, <1>11, <1>12, <1>13

(* What the network may say of a packet p that the handler for it leaves.  *)
Left(p, rest) == rest = net \ {p} \/ (p.key = NULL /\ rest = net)

(* Confirm1 arrives: the initiator saves the secret and protects, too.     *)
LEMMA ConfirmAgrees ==
  ASSUME TypeInv, TypeInv', Agreement, NEW e \in Endpoint, NEW p \in net, NEW rest,
         p.from = Peer(e), Left(p, rest), unprotect(e, p),
         state[e] = "WaitConfirm1", p.kind = "Confirm1", session' = session,
         Become(e, "WaitConfAck", "Confirm2"),
         net' = rest \cup {PacketWith(e, "Confirm2", KeyOf(s0[e], "Initiator"))},
         setNewRs1(e),
         sender' = [sender EXCEPT ![e] = KeyOf(s0[e], "Initiator")],
         s0' = s0, receiver' = receiver
  PROVE  Agreement'
<1>. USE DEF Agreement
<1>. DEFINE key == KeyOf(s0[e], "Initiator")
<1>1. /\ \A f \in Endpoint : f = e \/ f = Peer(e)
      /\ Peer(e) \in Endpoint \ {e} /\ Peer(Peer(e)) = e
  BY PeerFacts
<1>2. /\ s0 \in [Endpoint -> Secret \cup {NULL}] /\ sender \in [Endpoint -> Key \cup {NULL}]
      /\ receiver \in [Endpoint -> Key \cup {NULL}] /\ zid \in [Endpoint -> Record]
      /\ \A q \in net : q \in Packet /\ q.from \in Endpoint
  BY DEF TypeInv, TypeOK, Packet
<1>3. /\ s0[e] \in Secret /\ receiver[e] = KeyOf(s0[e], "Responder") /\ receiver[e] # NULL
      /\ key # NULL
  BY <1>2, NullFacts DEF SecretFits, WithSecret
<1>4. /\ p.key = receiver[e] /\ p.key = KeyOf(s0[Peer(e)], "Responder")
      /\ receiver[Peer(e)] = KeyOf(s0[Peer(e)], "Initiator")
  BY <1>3 DEF unprotect, PacketsFit
<1>5. s0[Peer(e)] = s0[e] /\ receiver[Peer(e)] = key
  BY <1>3, <1>4 DEF KeyOf
<1>6. rest = net \ {p}
  BY <1>3, <1>4 DEF Left
<1>7. /\ state'[e] = "WaitConfAck" /\ state'[Peer(e)] = state[Peer(e)]
      /\ sentPacket'[Peer(e)] = sentPacket[Peer(e)]
      /\ sender'[e] = key /\ sender'[Peer(e)] = sender[Peer(e)]
      /\ zid'[e] = <<s0[e], zid[e][1]>> /\ zid'[e][1] = s0[e] /\ zid'[Peer(e)] = zid[Peer(e)]
  BY <1>1, <1>2, BecomeFrame DEF setNewRs1
<1>8. \A q \in net' : \/ q \in net /\ q # p
                     \/ /\ q.kind = "Confirm2" /\ q.from = e /\ q.key = key
  BY <1>6 DEF PacketWith
<1>9. SecretFits'
  BY <1>1, <1>3, <1>5, <1>7 DEF SecretFits, BeforeSecret, WithSecret
<1>10. OfferedFits'
  <2>1. \A q \in net : q.kind = "DHPart2" => Offered(q.from, q.ids)'
    BY <1>1, <1>2, <1>3, <1>5, <1>7, NullFacts DEF OfferedFits, Offered
  <2>2. \A q \in net : q.kind = "DHPart1" /\ s0'[q.from] = NULL => q.ids = zid'[q.from]
    BY <1>1, <1>2, <1>3, <1>5, <1>7, NullFacts DEF OfferedFits
  <2>3. state'[Peer(e)] = "WaitConfirm1" => Offered(Peer(e), zid[Peer(e)])'
    <3>1. state[Peer(e)] = "WaitConfirm1" => Offered(Peer(e), zid[Peer(e)])
      BY <1>1 DEF OfferedFits
    <3>. QED
      BY <3>1, <1>1, <1>3, <1>7, NullFacts DEF Offered
  <2>. QED
    BY <1>1, <1>7, <1>8, <2>1, <2>2, <2>3 DEF OfferedFits
<1>11. PacketsFit'
  <2>1. \A q \in net : q.kind = "Confirm1" /\ q.from = Peer(e) => q = p
    BY <1>2 DEF PacketsFit, Packet
  <2>2. ASSUME NEW q \in net, q # p
        PROVE  /\ q.kind \in DKind \cup {"Commit"} => q.key = NULL
               /\ q.key # NULL => s0'[q.from] # NULL
               /\ q.kind = "Confirm1" =>
                    /\ q.key = KeyOf(s0'[q.from], "Responder")
                    /\ receiver'[q.from] = KeyOf(s0'[q.from], "Initiator")
                    /\ q.ids = <<NULL, NULL>>
                    /\ state'[Peer(q.from)] # "WaitConfAck"
               /\ q.kind = "Confirm2" =>
                    q.key = KeyOf(s0'[q.from], "Initiator") /\ zid'[q.from][1] = s0'[q.from]
               /\ q.kind = "Conf2ACK" =>
                    q.key = KeyOf(s0'[q.from], "Responder") /\ zid'[q.from][1] = s0'[q.from]
    BY <1>1, <1>2, <1>7, <2>1, <2>2 DEF PacketsFit
  <2>. QED
    BY <1>3, <1>7, <1>8, <2>2, NullFacts DEF PacketsFit, DKind
<1>12. ZrtpIsReadable'
  BY <1>1, <1>5, <1>7 DEF ZrtpIsReadable
<1>13. SecureFits'
  BY <1>1, <1>5, <1>7 DEF SecureFits
<1>. QED
  BY <1>9, <1>10, <1>11, <1>12, <1>13


(* A key tells its secret and its role.                                    *)
LEMMA KeyParts ==
  ASSUME NEW s, NEW t, NEW x, NEW y, KeyOf(s, x) = KeyOf(t, y)
  PROVE  s = t /\ x = y
BY DEF KeyOf

(* Confirm2 arrives: the responder saves the secret and is secure.         *)
LEMMA AckAgrees ==
  ASSUME TypeInv, TypeInv', Agreement, NEW e \in Endpoint, NEW p \in net, NEW rest \in SUBSET net,
         p.from = Peer(e), unprotect(e, p),
         state[e] = "WaitConfirm2", p.kind = "Confirm2", session' = session,
         Become(e, "SecureState", "Conf2ACK"),
         net' = rest \cup {sendPacket(e, "Conf2ACK")},
         setNewRs1(e), s0' = s0, sender' = sender, receiver' = receiver
  PROVE  Agreement'
<1>. USE DEF Agreement
<1>1. /\ \A f \in Endpoint : f = e \/ f = Peer(e)
      /\ Peer(e) \in Endpoint \ {e} /\ Peer(Peer(e)) = e
  BY PeerFacts
<1>2. /\ s0 \in [Endpoint -> Secret \cup {NULL}] /\ zid \in [Endpoint -> Record]
      /\ \A q \in net : q \in Packet /\ q.from \in Endpoint
  BY DEF TypeInv, TypeOK, Packet
<1>3. /\ s0[e] \in Secret /\ receiver[e] = KeyOf(s0[e], "Initiator") /\ receiver[e] # NULL
      /\ sender[e] = KeyOf(s0[e], "Responder") /\ sender[e] # NULL
  BY <1>2, NullFacts DEF SecretFits, WithSecret
<1>4. /\ p.key = receiver[e] /\ p.key = KeyOf(s0[Peer(e)], "Initiator")
      /\ zid[Peer(e)][1] = s0[Peer(e)]
  BY <1>3 DEF unprotect, PacketsFit
<1>5. s0[Peer(e)] = s0[e]
  <2>1. KeyOf(s0[Peer(e)], "Initiator") = KeyOf(s0[e], "Initiator")
    BY <1>4, <1>3
  <2>. QED
    BY <2>1, KeyParts
<1>7. /\ state'[e] = "SecureState" /\ state'[Peer(e)] = state[Peer(e)]
      /\ sentPacket'[Peer(e)] = sentPacket[Peer(e)]
      /\ zid'[e][1] = s0[e] /\ zid'[Peer(e)] = zid[Peer(e)]
  BY <1>1, <1>2, BecomeFrame DEF setNewRs1
<1>8. \A q \in net' : \/ q \in net
                     \/ /\ q.kind = "Conf2ACK" /\ q.from = e /\ q.key = sender[e]
  BY DEF sendPacket, PacketWith
<1>9. SecretFits'
  BY <1>1, <1>3, <1>5, <1>7 DEF SecretFits, BeforeSecret, WithSecret
<1>10. OfferedFits'
  <2>1. \A q \in net : q.kind = "DHPart2" => Offered(q.from, q.ids)'
    BY <1>1, <1>2, <1>3, <1>5, <1>7, NullFacts DEF OfferedFits, Offered
  <2>2. \A q \in net : q.kind = "DHPart1" /\ s0'[q.from] = NULL => q.ids = zid'[q.from]
    BY <1>1, <1>2, <1>3, <1>5, <1>7, NullFacts DEF OfferedFits
  <2>3. state'[Peer(e)] = "WaitConfirm1" => Offered(Peer(e), zid[Peer(e)])'
    <3>1. state[Peer(e)] = "WaitConfirm1" => Offered(Peer(e), zid[Peer(e)])
      BY <1>1 DEF OfferedFits
    <3>. QED
      BY <3>1, <1>1, <1>3, <1>7, NullFacts DEF Offered
  <2>. QED
    BY <1>1, <1>7, <1>8, <2>1, <2>2, <2>3 DEF OfferedFits
<1>11. PacketsFit'
  BY <1>1, <1>2, <1>3, <1>7, <1>8, NullFacts DEF PacketsFit, DKind
<1>12. ZrtpIsReadable'
  BY DEF ZrtpIsReadable
<1>13. SecureFits'
  BY <1>1, <1>4, <1>5, <1>7 DEF SecureFits
<1>. QED
  BY <1>9, <1>10, <1>11, <1>12, <1>13

(* The acknowledgement arrives: nothing else that the peer protects can,   *)
(* because its one Confirm1 is taken and nothing makes it repeat that.     *)
LEMMA SecureAgrees ==
  ASSUME TypeInv, TypeInv', Agreement, NEW e \in Endpoint, NEW p \in net, NEW rest \in SUBSET net,
         p.from = Peer(e), unprotect(e, p),
         state[e] = "WaitConfAck", p.kind \in CKind, session' = session,
         Become(e, "SecureState", NULL), net' = rest,
         UNCHANGED <<keyVars, zid>>
  PROVE  Agreement'
<1>. USE DEF Agreement
<1>1. /\ \A f \in Endpoint : f = e \/ f = Peer(e)
      /\ Peer(e) \in Endpoint \ {e} /\ Peer(Peer(e)) = e
  BY PeerFacts
<1>2. /\ s0 \in [Endpoint -> Secret \cup {NULL}]
      /\ \A q \in net : q \in Packet /\ q.from \in Endpoint
      /\ s0' = s0 /\ sender' = sender /\ receiver' = receiver /\ zid' = zid
  BY DEF TypeInv, TypeOK, Packet, keyVars
<1>3. /\ s0[e] \in Secret /\ receiver[e] = KeyOf(s0[e], "Responder") /\ receiver[e] # NULL
  BY <1>2, NullFacts DEF SecretFits, WithSecret
<1>4. p.key = receiver[e]
  BY <1>3 DEF unprotect
<1>5. p.kind = "Conf2ACK"
  <2>1. p.kind # "Commit" /\ p.kind # "Confirm1"
    BY <1>1, <1>3, <1>4 DEF PacketsFit
  <2>2. p.kind # "Confirm2"
    <3>1. p.kind = "Confirm2" => p.key = KeyOf(s0[Peer(e)], "Initiator")
      BY DEF PacketsFit
    <3>. QED
      BY <1>3, <1>4, <3>1, KeyParts
  <2>. QED
    BY <2>1, <2>2 DEF CKind
<1>6. s0[Peer(e)] = s0[e] /\ zid[Peer(e)][1] = s0[e]
  <2>1. p.key = KeyOf(s0[Peer(e)], "Responder") /\ zid[Peer(e)][1] = s0[Peer(e)]
    BY <1>5 DEF PacketsFit
  <2>2. KeyOf(s0[Peer(e)], "Responder") = KeyOf(s0[e], "Responder")
    BY <1>3, <1>4, <2>1
  <2>. QED
    BY <2>1, <2>2, KeyParts
<1>7. /\ state'[e] = "SecureState" /\ state'[Peer(e)] = state[Peer(e)]
      /\ sentPacket'[e] = NULL /\ sentPacket'[Peer(e)] = sentPacket[Peer(e)]
  BY <1>1, BecomeFrame
<1>8. SecretFits'
  BY <1>1, <1>2, <1>3, <1>7 DEF SecretFits, BeforeSecret, WithSecret
<1>9. OfferedFits'
  BY <1>1, <1>2, <1>7 DEF OfferedFits, Offered
<1>10. PacketsFit'
  BY <1>1, <1>2, <1>7 DEF PacketsFit
<1>11. ZrtpIsReadable' /\ SecureFits'
  BY <1>1, <1>2, <1>6, <1>7 DEF ZrtpIsReadable, SecureFits
<1>. QED
  BY <1>8, <1>9, <1>10, <1>11

(* Whatever a packet does that unprotect has let through.                  *)
LEMMA EvAgrees ==
  ASSUME TypeInv, TypeInv', Agreement, NEW e \in Endpoint, NEW p \in net, NEW rest \in SUBSET net,
         p.from = Peer(e), Left(p, rest), unprotect(e, p), session' = session,
         processExtensionHeader(e, p, rest)
  PROVE  Agreement'

<1>1. CASE evDetect(e, p, rest)
  <2>1. /\ s0' = s0 /\ sender' = sender /\ receiver' = receiver /\ zid' = zid
        /\ state[e] = "Detect" /\ sentPacket[e] \in {"Hello", NULL}
    BY <1>1 DEF evDetect, keyVars, TypeInv, KeptFits
  <2>2. \E next \in BeforeSecret \cup {"Initial"} : \E packet : Become(e, next, packet)
    BY <1>1 DEF evDetect, Respond, Detect_Hello, BeforeSecret
  <2>3. \A q \in net' :
          q \in net \/ \E kind \in {"Hello", "Commit", "DHPart1"} : q = sendPacket(e, kind)
    BY <1>1, <2>1 DEF evDetect, Respond, Detect_Hello, Prepared
  <2>4. \A kind \in {"Hello", "Commit", "DHPart1"} : kind \in Kind /\ MaySend(e, kind)
    BY <2>1 DEF MaySend, BeforeSecret, Kind, HKind, CKind, DKind
  <2>. QED
    BY <2>1, <2>2, <2>3, <2>4, BecomeFrame, Quiet DEF BeforeSecret
<1>2. CASE evAckDetected(e, p, rest) \/ evWaitCommit(e, p, rest)
  <2>1. /\ s0' = s0 /\ sender' = sender /\ receiver' = receiver /\ zid' = zid
        /\ state[e] \in {"AckDetected", "WaitCommit"}
        /\ state[e] = "WaitCommit" => sentPacket[e] = "HelloACK"
    BY <1>2 DEF evAckDetected, evWaitCommit, Resend, keyVars, TypeInv, KeptFits
  <2>2. \/ \E next \in BeforeSecret \cup {"Initial"} : \E packet : Become(e, next, packet)
        \/ UNCHANGED engineVars
    BY <1>2 DEF evAckDetected, evWaitCommit, Respond, Resend, BeforeSecret
  <2>3. \A q \in net' : q \in net \/ \E kind \in {"HelloACK", "DHPart1"} : q = sendPacket(e, kind)
    BY <1>2, <2>1 DEF evAckDetected, evWaitCommit, Respond, Resend, Prepared
  <2>4. \A kind \in {"HelloACK", "DHPart1"} : kind \in Kind /\ MaySend(e, kind)
    BY <2>1 DEF MaySend, BeforeSecret, Kind, HKind, DKind
  <2>. QED
    BY <2>1, <2>2, <2>3, <2>4, BecomeFrame, Quiet DEF BeforeSecret, engineVars
<1>3. CASE evCommitSent(e, p, rest) /\ p.kind \in CKind
  <2>0. CommitSent_Commit(e, p, rest) /\ state[e] = "CommitSent"
    BY <1>3 DEF evCommitSent, CKind, DKind
  <2>1. s0' = s0 /\ sender' = sender /\ receiver' = receiver /\ zid' = zid
    BY <2>0 DEF CommitSent_Commit, keyVars
  <2>2. \/ \E next \in BeforeSecret \cup {"Initial"} : \E packet : Become(e, next, packet)
        \/ UNCHANGED engineVars
    BY <2>0 DEF CommitSent_Commit, Respond, BeforeSecret
  <2>3. \A q \in net' : q \in net \/ q = sendPacket(e, "DHPart1")
    BY <2>0 DEF CommitSent_Commit, Respond, Prepared
  <2>4. "DHPart1" \in Kind /\ MaySend(e, "DHPart1")
    BY <2>0 DEF MaySend, BeforeSecret, Kind, DKind
  <2>. QED
    BY <2>0, <2>1, <2>2, <2>3, <2>4, BecomeFrame, Quiet DEF BeforeSecret, engineVars
<1>4. CASE evCommitSent(e, p, rest) /\ p.kind \in DKind
  BY <1>4, OfferAgrees DEF evCommitSent, CKind, DKind
<1>5. CASE evWaitDHPart2(e, p, rest)
  <2>1. state[e] = "WaitDHPart2" /\ sentPacket[e] = "DHPart1" /\ MaySend(e, "DHPart1")
        /\ "DHPart1" \in Kind
    BY <1>5 DEF evWaitDHPart2, TypeInv, KeptFits, MaySend, BeforeSecret, Kind, DKind
  <2>2. CASE Resend(e, rest)
    BY <2>1, <2>2, Quiet DEF Resend, keyVars, engineVars
  <2>3. CASE Become(e, "Initial", NULL) /\ net' = rest /\ UNCHANGED keyVars /\ zid' = zid
    BY <2>3, BecomeFrame, Quiet DEF keyVars
  <2>4. CASE /\ WaitDHPart2_DHPart(e, p, rest)
             /\ ~(Become(e, "Initial", NULL) /\ net' = rest /\ UNCHANGED keyVars /\ zid' = zid)
    <3>1. p.kind = "DHPart2" /\ zid' = zid
      BY <2>4 DEF WaitDHPart2_DHPart, hviFits
    <3>2. \A packet \in Prepared("Confirm1") \ {NULL} : packet = "Confirm1"
      BY DEF Prepared
    <3>. QED
      BY <2>1, <2>4, <3>1, <3>2, AnswerAgrees DEF WaitDHPart2_DHPart
  <2>. QED
    BY <1>5, <2>2, <2>3, <2>4 DEF evWaitDHPart2
<1>6. CASE evWaitConfirm1(e, p, rest)
  <2>1. state[e] = "WaitConfirm1" /\ p.kind = "Confirm1"
    BY <1>6 DEF evWaitConfirm1
  <2>2. CASE Become(e, "Initial", NULL) /\ net' = rest /\ srtpSecretsOff(e) /\ zid' = zid
    BY <2>2, BecomeFrame, Quiet DEF srtpSecretsOff
  <2>3. CASE /\ Become(e, "WaitConfAck", "Confirm2")
             /\ net' = rest \cup {PacketWith(e, "Confirm2", KeyOf(s0[e], "Initiator"))}
             /\ setNewRs1(e)
             /\ sender' = [sender EXCEPT ![e] = KeyOf(s0[e], "Initiator")]
             /\ s0' = s0 /\ receiver' = receiver
    BY <2>1, <2>3, ConfirmAgrees
  <2>. QED
    BY <1>6, <2>2, <2>3 DEF evWaitConfirm1, Prepared
<1>7. CASE evWaitConfirm2(e, p, rest)
  <2>1. state[e] = "WaitConfirm2" /\ p.kind \notin DKind /\ p.kind = "Confirm2"
    <3>1. state[e] = "WaitConfirm2" /\ s0[e] \in Secret \cup {NULL}
      BY <1>7 DEF evWaitConfirm2, TypeInv, TypeOK
    <3>2. receiver[e] # NULL
      BY <3>1, NullFacts DEF Agreement, SecretFits
    <3>3. p.kind \notin DKind
      BY <3>2 DEF unprotect, Agreement, PacketsFit
    <3>. QED
      BY <1>7, <3>1, <3>3 DEF evWaitConfirm2
  <2>2. WaitConfirm2_Confirm2(e, rest)
    BY <1>7, <2>1 DEF evWaitConfirm2
  <2>3. CASE Become(e, "Initial", NULL) /\ net' = rest /\ srtpSecretsOff(e) /\ zid' = zid
    BY <2>3, BecomeFrame, Quiet DEF srtpSecretsOff
  <2>4. CASE /\ Become(e, "SecureState", "Conf2ACK")
             /\ net' = rest \cup {sendPacket(e, "Conf2ACK")}
             /\ setNewRs1(e)
             /\ UNCHANGED keyVars
    BY <2>1, <2>4, AckAgrees DEF keyVars
  <2>. QED
    BY <2>2, <2>3, <2>4 DEF WaitConfirm2_Confirm2, Prepared
<1>8. CASE evWaitConfAck(e, p, rest)
  BY <1>8, SecureAgrees DEF evWaitConfAck
<1>9. CASE evSecureState(e, p, rest)
  <2>1. /\ state[e] = "SecureState" /\ sentPacket[e] = "Conf2ACK"
        /\ MaySend(e, "Conf2ACK") /\ "Conf2ACK" \in Kind
    BY <1>9, NullFacts DEF evSecureState, TypeInv, KeptFits, MaySend, Kind, CKind
  <2>. QED
    BY <1>9, <2>1, Quiet DEF evSecureState, Resend, keyVars, engineVars
<1>10. CASE evUnknown(e, p, rest)
  BY <1>10, Quiet DEF evUnknown, Ignore, keyVars, engineVars
<1>. QED
  BY <1>1, <1>2, <1>3, <1>4, <1>5, <1>6, <1>7, <1>8, <1>9, <1>10
     DEF processExtensionHeader, evCommitSent

(* Timeouts agree on nothing.                                              *)
LEMMA TmAgrees ==
  ASSUME TypeInv, Agreement, NEW e \in Endpoint, session' = session, processTimeout(e)
  PROVE  Agreement'
<1>1. CASE tmResend(e)
  <2>1. MaySend(e, sentPacket[e]) /\ sentPacket[e] \in Kind
    BY <1>1 DEF tmResend, TypeInv, KeptFits, MaySend, BeforeSecret, Kind, HKind, CKind, DKind
  <2>. QED
    BY <1>1, <2>1, Quiet DEF tmResend, Resend, keyVars, engineVars
<1>2. CASE tmIgnored(e)
  BY <1>2, Quiet DEF tmIgnored, keyVars, engineVars
<1>3. CASE tmDetect(e)
  BY <1>3, BecomeFrame, Quiet DEF tmDetect, GiveUp, keyVars, BeforeSecret
<1>4. CASE tmCommitSent(e) \/ tmWaitConfirm1(e) \/ tmInternalProtocolError(e)
  BY <1>4, BecomeFrame, Quiet DEF tmCommitSent, tmWaitConfirm1, tmInternalProtocolError, GiveUp,
     keyVars
<1>5. CASE tmWaitConfAck(e) \/ tmSecretsOff(e)
  BY <1>5, BecomeFrame, Quiet DEF tmWaitConfAck, tmSecretsOff, GiveUp, srtpSecretsOff
<1>. QED
  BY <1>1, <1>2, <1>3, <1>4, <1>5 DEF processTimeout

LEMMA InitAgrees == Init => Agreement
BY NullFacts DEF Init, Agreement, SecretFits, OfferedFits, PacketsFit, ZrtpIsReadable, SecureFits,
   WithSecret

LEMMA NextCallAgrees == Agreement /\ NextCall => Agreement'
BY NullFacts DEF NextCall, Agreement, SecretFits, OfferedFits, PacketsFit, ZrtpIsReadable,
   SecureFits, WithSecret

LEMMA StepAgrees == TypeInv /\ Agreement /\ [Next]_vars => Agreement'
<1>. SUFFICES ASSUME TypeInv, Agreement, [Next]_vars PROVE Agreement'
  OBVIOUS
<1>0. TypeInv'
  BY StepType
<1>1. ASSUME NEW e \in Endpoint, Start(e) PROVE Agreement'
  <2>1. MaySend(e, "Hello") /\ "Hello" \in Kind
    BY <1>1 DEF Start, MaySend, BeforeSecret, HKind, Kind
  <2>. QED
    BY <1>1, <2>1, BecomeFrame, Quiet DEF Start, evInitial, keyVars, sessionVars, BeforeSecret
<1>2. ASSUME NEW e \in Endpoint, NEW p \in net, p.from = Peer(e),
             Receive(e, p) \/ ReceiveDoubled(e, p)
      PROVE  Agreement'
  <2>1. PICK rest \in SUBSET net : Left(p, rest) /\ Process(e, p, rest)
    BY <1>2 DEF Receive, ReceiveDoubled, Left
  <2>2. session' = session
    BY <1>2 DEF Receive, ReceiveDoubled, sessionVars
  <2>3. CASE unprotect(e, p)
    BY <1>0, <1>2, <2>1, <2>2, <2>3, EvAgrees DEF Process
  <2>4. CASE ~unprotect(e, p)
    BY <2>1, <2>2, <2>4, Quiet DEF Process, Ignore, keyVars, engineVars
  <2>. QED
    BY <2>3, <2>4
<1>3. ASSUME NEW e \in Endpoint, TakeTimeout(e) PROVE Agreement'
  BY <1>3, Quiet DEF TakeTimeout, keyVars, engineVars, sessionVars
<1>4. ASSUME NEW e \in Endpoint, Timeout(e) PROVE Agreement'
  BY <1>4, TmAgrees DEF Timeout, sessionVars
<1>5. ASSUME NEW e \in Endpoint, Stop(e) PROVE Agreement'
  BY <1>5, BecomeFrame, Quiet DEF Stop, srtpSecretsOff, keyVars, sessionVars
<1>6. CASE NextCall
  BY <1>6, NextCallAgrees
<1>7. ASSUME NEW e \in Endpoint, Acknowledge(e) PROVE Agreement'
  <2>1. MaySend(e, "HelloACK") /\ "HelloACK" \in Kind
    BY <1>7 DEF Acknowledge, MaySend, BeforeSecret, HKind, Kind
  <2>. QED
    BY <1>7, <2>1, Quiet DEF Acknowledge, keyVars, engineVars, sessionVars
<1>8. CASE UNCHANGED vars
  <2>1. PICK e \in Endpoint : TRUE
    BY DEF Endpoint
  <2>. QED
    BY <1>8, <2>1, Quiet DEF vars, keyVars, engineVars, sessionVars
<1>. QED
  BY <1>1, <1>2, <1>3, <1>4, <1>5, <1>6, <1>7, <1>8 DEF Next

THEOREM Agreed == Spec => [](TypeInv /\ Agreement)
BY InitType, InitAgrees, StepType, StepAgrees, PTL DEF Spec

(* Whatever is lost, doubled or refused, the ZRTP packets an end protects  *)
(* are readable by the other: the handlers that derive keys do so from the *)
(* same Commit, the same retained secrets and the same call.               *)
THEOREM ZrtpStaysReadable == Spec => []ZrtpIsReadable
<1>1. TypeInv /\ Agreement => ZrtpIsReadable
  BY DEF Agreement
<1>. QED
  BY <1>1, Agreed, PTL

(* An end that is in SecureState shares its retained secret with the other *)
(* for the next call.                                                      *)
THEOREM SecurityIsMutual == Spec => []SecureIsMutual
<1>1. TypeInv /\ Agreement => SecureIsMutual
  BY PeerFacts DEF Agreement, SecureFits, SecureIsMutual
<1>. QED
  BY <1>1, Agreed, PTL
===============================================================================
