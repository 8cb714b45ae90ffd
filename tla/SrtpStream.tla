------------------------------ MODULE SrtpStream ------------------------------
(***************************************************************************)
(* A stream of SRTP packets: the sender protects them one by one, the      *)
(* network loses, duplicates and reorders them, and the receiver takes     *)
(* them or not.                                                            *)
(***************************************************************************)
EXTENDS CryptoContext

CONSTANTS
  Faults,       \* what the network does beyond losing, doubling, reordering
  MaxPackets    \* bound: packets that are sent

ASSUME FaultsAssumption ==
  /\ Faults \subseteq {"burst", "late_start"}
  /\ MaxPackets \in Nat

VARIABLES
  first,        \* seqNo of the first packet, which is random
  sender,       \* seqNo of the next packet, and roc of the sender's context
  sent,         \* the packets that have been sent, by roc and seqNo
  receiver,     \* the receiver's contexts of this ssrc: none, or one
  highest,      \* the latest packet that was taken, or none
  inOrder,      \* the packets that were the latest when they were taken
  late          \* packets that were taken after one of a later cycle

vars == <<first, sender, sent, receiver, highest, inOrder, late>>

Packet == [roc : 0 .. Rocs - 1, seq : SeqNo]
IndexOf(p) == Index(p.roc, p.seq)

----------------------------------------------------------------------------
(* ++seqNo, and the roll-over counter after the last packet of a cycle.    *)
protect(p) ==
  sender' = [roc |-> IF p.seq = SeqNos - 1 THEN (p.roc + 1) % Rocs ELSE p.roc,
             seq |-> (p.seq + 1) % SeqNos]

send ==
  /\ IndexOf(sender) < first + MaxPackets
  /\ sent' = sent \cup {sender}
  /\ protect(sender)
  /\ UNCHANGED <<first, receiver, highest, inOrder, late>>

(* The network may bring a packet at any time, any number of times, or     *)
(* never.  Without the faults the receiver never misses half a cycle at    *)
(* once, and hears of the stream in its first cycle.                       *)
Brings(p) ==
  /\ "burst" \in Faults \/ \A h \in highest : IndexOf(p) - IndexOf(h) < SeqHalf
  /\ highest = {} => "late_start" \in Faults \/ p.roc = 0

(* The first packet of an ssrc makes its context, with the roc of the key  *)
(* agreement, which is 0.                                                  *)
getCryptoContext(p) == IF receiver = {} THEN {newContext(0, p.seq)} ELSE receiver

(* The tag fits.                                                           *)
authentic(ctx, p) == guessed_roc(ctx, p.seq) = p.roc

Newer(p) == \A h \in highest : IndexOf(p) > IndexOf(h)

(* p has been overtaken by a packet of a later cycle.                      *)
Crosses(p) == \E h \in highest : p.roc < h.roc

(* What unprotect answers with 0 is played, ...                            *)
MayTake(ctx, p) == TRUE \in check_replay(ctx, p.seq) /\ authentic(ctx, p)
unprotect(p) ==
  \E ctx \in getCryptoContext(p) :
    /\ MayTake(ctx, p)
    /\ \E c \in update(ctx, p.seq) : receiver' = {c}
    /\ IF Newer(p) THEN highest' = {p} /\ inOrder' = inOrder \cup {p}
       ELSE UNCHANGED <<highest, inOrder>>
    /\ late' = IF Crosses(p) THEN late \cup {p} ELSE late
    /\ UNCHANGED <<first, sender, sent>>

(* ... what it does not is dropped.                                        *)
MayDrop(ctx, p) == FALSE \in check_replay(ctx, p.seq) \/ ~authentic(ctx, p)
dropped(p) ==
  \E ctx \in getCryptoContext(p) :
    /\ MayDrop(ctx, p)
    /\ receiver' = {ctx}
    /\ UNCHANGED <<first, sender, sent, highest, inOrder, late>>

handleRtpPacket(p) == Brings(p) /\ (unprotect(p) \/ dropped(p))

----------------------------------------------------------------------------
Init ==
  /\ first \in SeqNo
  /\ sender = [roc |-> 0, seq |-> first] /\ sent = {}
  /\ receiver = {} /\ highest = {} /\ inOrder = {} /\ late = {}

Next == send \/ \E p \in sent : handleRtpPacket(p)

Spec == Init /\ [][Next]_vars

----------------------------------------------------------------------------
TypeOK ==
  /\ first \in SeqNo /\ sender \in Packet /\ sent \subseteq Packet
  /\ receiver \subseteq Contexts /\ highest \subseteq sent
  /\ inOrder \subseteq sent /\ late \subseteq sent

(* "update the locally stored ROC and highest sequence number"             *)
(* (CryptoContext.cxx:397): what the context holds is the latest packet    *)
(* that was taken, but that a packet of the cycle before, taken when it    *)
(* had ended, leaves its sequence number in the place of the highest.      *)
HighestSequenceNumber ==
  \A ctx \in receiver, h \in highest :
    /\ ctx.roc = h.roc
    /\ ctx.s_l = h.seq \/ \E q \in late : q.roc + 1 = h.roc /\ q.seq = ctx.s_l

(* A packet of the cycle before was taken late, and its sequence number    *)
(* makes the receiver put p into the next cycle.                           *)
Misleads(p) == \E q \in late : q.roc + 1 = p.roc /\ q.seq - SeqHalf > p.seq

(* A packet that comes in order is taken, whatever was lost, doubled or    *)
(* reordered before it: the receiver finds the roll-over counter the       *)
(* sender has used.  It does not, for up to half a cycle, if a packet that *)
(* the wrap had overtaken was taken.                                       *)
InOrderIsTaken ==
  \A p \in sent :
    Brings(p) /\ Newer(p) /\ ~Misleads(p) => \A ctx \in getCryptoContext(p) : ~MayDrop(ctx, p)

(* A packet that was taken in order is not taken again, when the network   *)
(* has doubled it.  The masked roc limits this to the first cycle, the     *)
(* undefined shift to packets that are not as old as the window is wide.   *)
TakenOnce ==
  [][\A p \in inOrder, ctx \in receiver :
       unprotect(p) => ctx.roc > 0 \/ ctx.s_l - p.seq = WindowSize]_vars
=============================================================================
