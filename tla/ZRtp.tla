--------------------------------- MODULE ZRtp ---------------------------------
(***************************************************************************)
(* The data of a ZRTP engine (ZRtp.cxx) and what it asks of its host       *)
(* (ZrtpHostBridgeMinisip.cxx): the packets it prepares, the secret the    *)
(* two ends agree on, the retained secrets of earlier sessions (ZIDFile),  *)
(* the SRTP keys of the two directions, the timer, and the network.        *)
(***************************************************************************)
EXTENDS Naturals

CONSTANTS
  NULL,         \* no packet, no secret, no key
  MayRefuse,    \* packets whose preparation may fail, see Prepared
  MaxResend,    \* bound: maxResend of the two timers, scaled down
  MaxSession,   \* bound: calls between the two ends, one after the other
  MaxDoubled    \* bound: packets the network doubles in each of the calls

Endpoint == {"a", "b"}
Peer(e) == IF e = "a" THEN "b" ELSE "a"

(* Messages by their first letter, as the handlers tell them apart.        *)
HKind == {"Hello", "HelloACK"}
CKind == {"Commit", "Confirm1", "Confirm2", "Conf2ACK"}
DKind == {"DHPart1", "DHPart2"}
Kind == HKind \cup CKind \cup DKind

(* s0, with the keys and the new retained secret derived from it: the      *)
(* session, whose Diffie-Hellman values it is made of, and which retained  *)
(* secrets went into it.                                                   *)
Secret == [session : 1 .. MaxSession, initiator : Endpoint, retained : SUBSET {1, 2}]

(* The master keys: srtpKeyI and srtpKeyR.  Without a secret they are what *)
(* was in the memory.                                                      *)
Key == [secret : Secret \cup {NULL}, of : {"Initiator", "Responder"}]

ASSUME ZRtpAssumption ==
  /\ NULL \notin Kind \cup Secret \cup Key
  /\ MayRefuse \subseteq Kind
  /\ MaxResend \in Nat
  /\ MaxSession \in Nat \ {0}
  /\ MaxDoubled \in [1 .. MaxSession -> Nat]

(* The two retained secrets of a ZIDRecord, the newer first.               *)
Record == (Secret \cup {NULL}) \X (Secret \cup {NULL})

Packet == [kind : Kind, from : Endpoint, key : Key \cup {NULL}, ids : Record]

VARIABLES
  state,        \* of the state machine; "None": no engine yet, "Deleted"
  sentPacket,   \* what is resent, or NULL
  pending,      \* how many timeouts the TimeoutProvider has for the bridge
  due,          \* it has taken one off its list and not delivered it yet
  counter,      \* resends since startTimer
  s0,           \* the secret, or NULL
  sender,       \* the key the sender protects its packets with, or NULL
  receiver,     \* the key of the receiver's context for ZRTP packets, or NULL
  zid,          \* the record of the peer in the ZID file
  net,          \* packets on their way
  session,      \* which call it is
  lower,        \* the endpoint with the smaller hvi in this session
  doubled       \* packets the network has doubled in this call

engineVars == <<state, sentPacket>>
timerVars == <<pending, due, counter>>
keyVars == <<s0, sender, receiver>>
sessionVars == <<session, lower>>
vars == <<engineVars, timerVars, keyVars, zid, net, sessionVars, doubled>>

----------------------------------------------------------------------------
(* ZRTP packets.  Whichever way one is sent, sendZrtp protects it with the *)
(* crypto context that the sender has then.  The ids of the retained       *)
(* secrets go out with the DHPart packets.                                 *)
PacketWith(e, kind, key) ==
  [kind |-> kind, from |-> e, key |-> key,
   ids |-> IF kind \in DKind THEN zid[e] ELSE <<NULL, NULL>>]

sendPacket(e, kind) == PacketWith(e, kind, sender[e])

(* Mutant: what is not protected passes an end that has a key.             *)
unprotect_Clear(e, p) == receiver[e] \in {NULL, p.key} \/ p.key = NULL

(* handleRtpPacketExt.  The crypto context is the one of the packet's      *)
(* SSRC, and ZRTP packets have an SSRC of their own: srtpSecretsReady      *)
(* gives that one its key.  With a key, what was not protected with it is  *)
(* dropped.  Without one everything passes.  The packets of media, whose   *)
(* contexts the receiver makes once it is in SecureState, are not          *)
(* modelled.                                                               *)
unprotect(e, p) == receiver[e] \in {NULL, p.key}

(* A packet, or null if what it answers offers no supported algorithm, has *)
(* a weak public value or one that does not fit the hvi, or cannot be      *)
(* read or verified: it comes from another implementation, or has been     *)
(* altered on its way.                                                     *)
Prepared(kind) == {kind} \cup (IF kind \in MayRefuse THEN {NULL} ELSE {})

(* The DHPart2 has the public value that the hvi of the Commit was         *)
(* computed from; a DHPart1 has another one.                               *)
hviFits(p) == p.kind = "DHPart2"

(* compareHvi < 0                                                          *)
hviIsLower(e) == lower = e

----------------------------------------------------------------------------
(* Mutant: the responder goes by its own record.                           *)
Matching_Own(mine, theirs) == {i \in {1, 2} : mine[i] # NULL}

(* Secrets.  A retained secret is used if both have it in the same place.  *)
Matching(mine, theirs) == {i \in {1, 2} : mine[i] # NULL /\ mine[i] = theirs[i]}

generateS0(e, initiator, p) ==
  [session |-> session, initiator |-> initiator, retained |-> Matching(zid[e], p.ids)]

KeyOf(secret, role) == [secret |-> secret, of |-> role]

(* srtpSecretsOff(ForSender), srtpSecretsOff(ForReceiver).  The latter     *)
(* gives the empty context to the stream of the sender, too, which has no  *)
(* use for the SSRC of the peer: the receiver keeps its key.               *)
srtpSecretsOff(e) ==
  /\ sender' = [sender EXCEPT ![e] = NULL]
  /\ UNCHANGED <<s0, receiver>>

(* ZIDRecord::setNewRs1, and saveRecord.                                   *)
setNewRs1(e) == zid' = [zid EXCEPT ![e] = <<s0[e], @[1]>>]

----------------------------------------------------------------------------
(* Timers.  The bridge knows one name for them, so that cancelTimer        *)
(* cancels whatever is pending.  Of several, cancelRequest leaves some.    *)
Cancelled(n) == IF n <= 1 THEN {0} ELSE 0 .. n - 1

(* Mutant: cancels without a look at what is there.                        *)
cancelTimer_Unchecked(e) ==
  /\ pending' = [pending EXCEPT ![e] = @ - 1]
  /\ UNCHANGED <<due, counter>>

cancelTimer(e) ==
  /\ \E n \in Cancelled(pending[e]) : pending' = [pending EXCEPT ![e] = n]
  /\ UNCHANGED <<due, counter>>

startTimer(e) ==
  /\ pending' = [pending EXCEPT ![e] = @ + 1]
  /\ counter' = [counter EXCEPT ![e] = 0]
  /\ UNCHANGED due

(* Mutant: started first, then cancelled.                                  *)
restartTimer_CancelsLast(e) ==
  /\ \E n \in Cancelled(pending[e] + 1) : pending' = [pending EXCEPT ![e] = n]
  /\ counter' = [counter EXCEPT ![e] = 0]
  /\ UNCHANGED due

restartTimer(e) ==
  /\ \E n \in Cancelled(pending[e]) : pending' = [pending EXCEPT ![e] = n + 1]
  /\ counter' = [counter EXCEPT ![e] = 0]
  /\ UNCHANGED due
===============================================================================
