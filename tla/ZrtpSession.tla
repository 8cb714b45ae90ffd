----------------------------- MODULE ZrtpSession -----------------------------
(***************************************************************************)
(* Two ZRTP engines, each with its host, over a network that loses,        *)
(* delays, reorders and doubles packets; one call after the other.         *)
(***************************************************************************)
EXTENDS ZrtpStateClass

CONSTANT
  Acknowledging \* endpoints that answer a Hello with a HelloACK at once

ASSUME AcknowledgingAssumption == Acknowledging \subseteq Endpoint

Init ==
  /\ state = [e \in Endpoint |-> "None"]
  /\ sentPacket = [e \in Endpoint |-> NULL]
  /\ pending = [e \in Endpoint |-> 0]
  /\ due = [e \in Endpoint |-> FALSE]
  /\ counter = [e \in Endpoint |-> 0]
  /\ s0 = [e \in Endpoint |-> NULL]
  /\ sender = [e \in Endpoint |-> NULL]
  /\ receiver = [e \in Endpoint |-> NULL]
  /\ zid = [e \in Endpoint |-> <<NULL, NULL>>]
  /\ net = {}
  /\ session = 1
  /\ lower \in Endpoint
  /\ doubled = 0

----------------------------------------------------------------------------
(* The first packet of the stream has been sent: start().                  *)
Start(e) ==
  /\ state[e] = "None"
  /\ evInitial(e)
  /\ UNCHANGED <<sessionVars, doubled>>

(* processPacket, once unprotect has let the packet pass.                  *)
Process(e, p, rest) ==
  IF unprotect(e, p) THEN processExtensionHeader(e, p, rest) ELSE Ignore(rest)

Receive(e, p) ==
  /\ Process(e, p, net \ {p})
  /\ UNCHANGED <<sessionVars, doubled>>

(* The network doubles a packet.  It does so in vain with what has been    *)
(* protected: the replay list takes a packet once.                         *)
ReceiveDoubled(e, p) ==
  /\ p.key = NULL
  /\ doubled < MaxDoubled[session]
  /\ doubled' = doubled + 1
  /\ Process(e, p, net)
  /\ UNCHANGED sessionVars

(* The thread of the TimeoutProvider: off the list, and delivered.         *)
TakeTimeout(e) ==
  /\ pending[e] > 0
  /\ ~due[e]
  /\ due' = [due EXCEPT ![e] = TRUE]
  /\ pending' = [pending EXCEPT ![e] = @ - 1]
  /\ UNCHANGED <<engineVars, counter, keyVars, zid, net, sessionVars, doubled>>

Timeout(e) ==
  /\ processTimeout(e)
  /\ UNCHANGED <<sessionVars, doubled>>

(* stop(): the engine returns to Initial, without security if it had       *)
(* reached SecureState, and is deleted.  What arrives for it later is      *)
(* ignored, and what a timeout does that is still pending is left out.     *)
Stop(e) ==
  /\ state[e] \notin {"None", "Deleted"}
  /\ Become(e, "Deleted", NULL)
  /\ pending' = [pending EXCEPT ![e] = 0]
  /\ due' = [due EXCEPT ![e] = FALSE]
  /\ counter' = [counter EXCEPT ![e] = 0]
  /\ IF state[e] = "SecureState" THEN srtpSecretsOff(e) ELSE UNCHANGED keyVars
  /\ net' = {p \in net : p.from = e}
  /\ UNCHANGED <<zid, sessionVars, doubled>>

(* The next call has streams and engines of its own.  What is left of this *)
(* one are the records of the ZID files.                                   *)
NextCall ==
  /\ \A e \in Endpoint : state[e] = "Deleted"
  /\ session < MaxSession
  /\ session' = session + 1
  /\ lower' \in Endpoint
  /\ state' = [e \in Endpoint |-> "None"]
  /\ sentPacket' = [e \in Endpoint |-> NULL]
  /\ pending' = [e \in Endpoint |-> 0]
  /\ due' = [e \in Endpoint |-> FALSE]
  /\ counter' = [e \in Endpoint |-> 0]
  /\ s0' = [e \in Endpoint |-> NULL]
  /\ sender' = [e \in Endpoint |-> NULL]
  /\ receiver' = [e \in Endpoint |-> NULL]
  /\ net' = {}
  /\ doubled' = 0
  /\ UNCHANGED zid

(* Another implementation may send a HelloACK in Detect, as the protocol   *)
(* has it; this one does not before it has got one.                        *)
Acknowledge(e) ==
  /\ e \in Acknowledging
  /\ state[e] = "Detect"
  /\ sendPacket(Peer(e), "Hello") \in net
  /\ net' = net \cup {sendPacket(e, "HelloACK")}
  /\ UNCHANGED <<engineVars, timerVars, keyVars, zid, sessionVars, doubled>>

Next ==
  \/ \E e \in Endpoint :
       \/ Start(e)
       \/ \E p \in {q \in net : q.from = Peer(e)} : Receive(e, p) \/ ReceiveDoubled(e, p)
       \/ TakeTimeout(e)
       \/ Timeout(e)
       \/ Stop(e)
       \/ Acknowledge(e)
  \/ NextCall

Spec == Init /\ [][Next]_vars

----------------------------------------------------------------------------
InitiatorWaits == {"CommitSent", "WaitConfirm1", "WaitConfAck"}

(* The types of the variables.                                             *)
TypeOK ==
  /\ state \in [Endpoint -> {"None", "Initial", "Detect", "AckDetected", "WaitCommit",
                             "CommitSent", "WaitDHPart2", "WaitConfirm1", "WaitConfirm2",
                             "WaitConfAck", "SecureState", "Deleted"}]
  /\ sentPacket \in [Endpoint -> Kind \cup {NULL}]
  /\ pending \in [Endpoint -> Nat]
  /\ due \in [Endpoint -> BOOLEAN]
  /\ counter \in [Endpoint -> Nat]
  /\ s0 \in [Endpoint -> Secret \cup {NULL}]
  /\ sender \in [Endpoint -> Key \cup {NULL}]
  /\ receiver \in [Endpoint -> Key \cup {NULL}]
  /\ zid \in [Endpoint -> Record]
  /\ net \subseteq Packet
  /\ session \in 1 .. MaxSession
  /\ lower \in Endpoint
  /\ doubled \in 0 .. MaxDoubled[session]

(* The ZRTP packets that one end protects the other can read: the context  *)
(* its receiver has for them has had the same key since before.  For that  *)
(* both must have agreed on who initiates, although their Commits crossed, *)
(* were repeated or lost, and on the retained secrets of earlier calls,    *)
(* some of which one end alone may have saved.  Media is protected with    *)
(* the same key, and not read before the other end is in SecureState.      *)
ZrtpIsReadable ==
  \A e \in Endpoint : sender[e] # NULL => receiver[Peer(e)] = sender[e]

(* Once an end is in SecureState both have saved the new retained secret,  *)
(* whichever way packets were lost and doubled and timeouts ran: the next  *)
(* call finds it in the same place.                                        *)
SecureIsMutual ==
  \A e \in Endpoint :
    state[e] = "SecureState" => \A f \in Endpoint : zid[f][1] = s0[e]

(* An initiator that waits for an answer has a timeout on its way, so that *)
(* it repeats what may have been lost, whatever was cancelled too late.    *)
WaitIsTimed ==
  \A e \in Endpoint :
    state[e] \in InitiatorWaits => pending[e] > 0 \/ due[e]
=============================================================================
