------------------------- MODULE SipLayerTransaction -------------------------
(***************************************************************************)
(* The transaction layer at work: the dispatcher thread, the transactions  *)
(* of all classes in one table, the thread of the TimeoutProvider, and     *)
(* around them the transaction user (the dialogs) and the network.         *)
(***************************************************************************)
EXTENDS SipTransactionInviteClient, SipTransactionNonInviteClient,
        SipTransactionInviteServer, SipTransactionNonInviteServer

CONSTANTS
  LocalBranches,  \* branches this stack puts on its own requests
  LocalMethods,   \* the requests the dialogs make
  PeerPackets,    \* what the network may deliver
  HandleAck       \* setTransactionHandlesAck

ASSUME LocalAssumption == LocalBranches \subseteq Branches
ASSUME LocalMethodsAssumption == LocalMethods \subseteq {"INVITE", "OTHER"}
(* Nobody sends a request with a branch that this stack made up.           *)
ASSUME PeerAssumption ==
  /\ PeerPackets \subseteq Packet
  /\ \A p \in PeerPackets :
       p.kind \in RequestKinds =>
         p.key.branch \notin LocalBranches /\ p.key.method = p.kind
ASSUME HandleAckAssumption == HandleAck \in BOOLEAN

VARIABLES
  asked,      \* requests the TU was given and has not finally answered
  told        \* requests of its own the TU was told the conclusion of

layerVars == <<vars, asked, told>>

----------------------------------------------------------------------------
LocalKeys == {k \in Key : k.branch \in LocalBranches}

Unborn == {t \in Trans : state[t] = "unborn"}
Fresh == CHOOSE t \in Trans : state[t] = "unborn"

(* Bound: a request enters a queue only while there is an object left for  *)
(* each request waiting in the queues.                                     *)
Waiting(q) == {i \in 1 .. Len(q) : q[i].dst = "transaction" /\ IsRequest(q[i])}
Room == Cardinality(Unborn) > Cardinality(Waiting(hiq)) + Cardinality(Waiting(loq))

Accepts(t, c) ==
  /\ Receives(t, c)
  /\ \/ class[t] = "InviteClient" /\ \E r \in IC_Transitions : Matches(r, t, c)
     \/ class[t] = "NonInviteClient" /\ \E r \in NC_Transitions : Matches(r, t, c)
     \/ class[t] = "InviteServer" /\ \E r \in IS_Transitions : Matches(r, t, c)
     \/ class[t] = "InviteServerUA" /\ \E r \in ISUA_Transitions : Matches(r, t, c)
     \/ class[t] = "NonInviteServer" /\ \E r \in NS_Transitions : Matches(r, t, c)

Refused(c) == \A t \in Trans : ~Accepts(t, c)

----------------------------------------------------------------------------
(* The dispatcher: a command a transaction takes.                          *)
Handle ==
  \E t \in Trans : IC_Next(t) \/ NC_Next(t) \/ IS_Next(t) \/ NS_Next(t)

(* defaultCommandHandler: a request that no transaction takes creates one, *)
(* except an ACK where the transactions do not handle ACKs.                *)
Default ==
  /\ HasCommand
  /\ Refused(Current)
  /\ Unborn # {}
  /\ Current.kind = "ACK" => HandleAck
  /\ \/ IC_a0_start_calling_INVITE(Fresh)
     \/ NC_a0_start_trying_request(Fresh)
     \/ IS_a0_start_proceeding_INVITE(Fresh, HandleAck)
     \/ NS_a0_start_trying_request(Fresh)

(* Anything else that no transaction takes.  What came from the network is *)
(* handed to the dialogs at once, still as a command of the transport      *)
(* layer, which is no word of a transaction; a timeout or an answer of the *)
(* TU is lost.                                                             *)
NotHandled ==
  /\ HasCommand
  /\ Current.dst = "transaction"
  /\ Refused(Current)
  /\ IsRequest(Current) => Current.kind = "ACK" /\ ~HandleAck
  /\ Enqueue(<<>>)
  /\ SendNothing
  /\ UNCHANGED <<class, tid, state, last, table, requests, expired>>

(* signalIfNoTransactions: a dialog that waits for its last transaction to *)
(* go hears of it through the low priority queue.  Whether the dialog of   *)
(* the call waits is its own affair.                                       *)
SignalIfNoTransactions(k) ==
  /\ out' = {}
  /\ \/ loq' = LowRest
     \/ /\ \A j \in Key \ {k} :
             table[j] # NoTrans => CallOf[j.branch] # CallOf[k.branch]
        /\ Len(LowRest) < MaxLow
        /\ loq' = Append(LowRest, NoTransactions(k))

(* maintainenceHandleCommand for transaction_terminated.  The code         *)
(* dereferences what it finds under the id: without an entry it aborts,    *)
(* and here it goes no further.                                            *)
TransactionTerminated ==
  /\ HasCommand
  /\ Current.dst = "dispatcher"
  /\ table[Current.key] # NoTrans
  /\ state' = [state EXCEPT ![table[Current.key]] = "freed"]
  /\ table' = [table EXCEPT ![Current.key] = NoTrans]
  /\ Enqueue(<<>>)
  /\ SignalIfNoTransactions(Current.key)
  /\ UNCHANGED <<class, tid, last, requests, expired>>

(* A command for the dialog layer: the TU takes note of it.  What it does  *)
(* about it is a TUStep.                                                   *)
Concludes(c) == c.key \in LocalKeys /\ c.kind \in Finals \union {"transport_error"}
DialogReceives ==
  /\ HasCommand
  /\ Current.dst = "dialog"
  /\ asked' = CASE Current.kind \in {"INVITE", "OTHER"} -> asked \union {Current.key}
                [] Current.kind = "transport_error" -> asked \ {Current.key}
                [] OTHER -> asked
  /\ told' = IF Concludes(Current) THEN told \union {Current.key} ELSE told
  /\ Enqueue(<<>>)
  /\ SendNothing
  /\ UNCHANGED <<class, tid, state, last, table, requests, expired>>

Dispatch ==
  \/ (Handle \/ Default \/ NotHandled \/ TransactionTerminated) /\ UNCHANGED <<asked, told>>
  \/ DialogReceives

----------------------------------------------------------------------------
(* The timer thread, the TU and the network.                               *)
TimerThread ==
  /\ (\E r \in requests : Expire(r)) \/ DeliverTimeout
  /\ UNCHANGED <<asked, told>>

FromTU(c) ==
  /\ Len(hiq) < MaxHigh
  /\ hiq' = Append(hiq, c)
  /\ out' = {}
  /\ UNCHANGED <<class, tid, state, last, table, requests, expired, loq, told>>

(* Fault: a branch may be used again.                                      *)
TURequest_SameBranch(k) ==
  /\ Room
  /\ k.method \in LocalMethods
  /\ FromTU(Cmd("dialog", "transaction", k.method, k))
  /\ UNCHANGED asked

(* A new request has a new branch.  A CANCEL has the branch of an INVITE,  *)
(* and an id of its own all the same.                                      *)
TURequest(k) ==
  /\ Room
  /\ k.method \in LocalMethods
  /\ \A t \in Trans : class[t] # "none" => tid[t] # k
  /\ \A i \in 1 .. Len(hiq) : hiq[i].src = "dialog" => hiq[i].key # k
  /\ FromTU(Cmd("dialog", "transaction", k.method, k))
  /\ UNCHANGED asked

TUAnswer(k, kind) ==
  /\ k \in asked
  /\ asked' = IF kind \in Finals THEN asked \ {k} ELSE asked
  /\ FromTU(Cmd("dialog", "transaction", kind, k))

TUStep ==
  \/ \E k \in LocalKeys : TURequest(k)
  \/ \E k \in asked, kind \in Responses : TUAnswer(k, kind)

(* Responses come to requests that were made; requests may come any time.  *)
SocketRead(p) ==
  /\ Len(loq) < MaxLow
  /\ IF p.kind \in RequestKinds THEN Room
       ELSE \E t \in Trans : class[t] # "none" /\ tid[t] = p.key
  /\ loq' = Append(loq, Cmd("transport", "transaction", p.kind, p.key))
  /\ out' = {}
  /\ UNCHANGED <<class, tid, state, last, table, requests, expired, hiq, asked, told>>

Network == \E p \in PeerPackets : SocketRead(p)

----------------------------------------------------------------------------
Init ==
  /\ class = [t \in Trans |-> "none"]
  /\ tid = [t \in Trans |-> CHOOSE k \in Key : TRUE]
  /\ state = [t \in Trans |-> "unborn"]
  /\ last = [t \in Trans |-> "none"]
  /\ table = [k \in Key |-> NoTrans]
  /\ requests = {} /\ expired = {}
  /\ hiq = <<>> /\ loq = <<>> /\ out = {}
  /\ asked = {} /\ told = {}

Next == Dispatch \/ TimerThread \/ TUStep \/ Network

Spec == Init /\ [][Next]_layerVars

(* The dispatcher and the timer thread keep running.  The thread delivers  *)
(* whatever stays on its list; that is asked only of the timeouts that end *)
(* a wait, of which a transaction has one pending at a time.               *)
Lasting == {"timerB", "timerD", "timerF", "timerH", "timerI", "timerJ", "timerK"}
ExpireLasting(t) ==
  /\ \E r \in requests : r.obj = t /\ r.timer \in Lasting /\ Expire(r)
  /\ UNCHANGED <<asked, told>>
Fairness ==
  /\ WF_layerVars(Dispatch)
  /\ WF_layerVars(DeliverTimeout /\ UNCHANGED <<asked, told>>)
  /\ \A t \in Trans : SF_layerVars(ExpireLasting(t))
FairSpec == Spec /\ Fairness

----------------------------------------------------------------------------
TypeOK ==
  /\ TransactionTypeOK
  /\ asked \subseteq Key
  /\ told \subseteq Key

(* A terminated transaction stays in the table until the dispatcher has    *)
(* worked off its transaction_terminated.  That command has the high       *)
(* priority, so no packet and no transport error is ever looked up in a    *)
(* table with a terminated transaction in it.                              *)
TerminatedIsRemovedFirst ==
  HasCommand /\ Current.src = "transport"
    => \A k \in Key : table[k] # NoTrans => state[table[k]] # "terminated"

(* For the requests this stack makes: a transaction_terminated finds its   *)
(* transaction in the table, in state terminated, so the dispatcher        *)
(* neither dereferences null nor frees a transaction at work.              *)
Finds(c) == table[c.key] # NoTrans /\ state[table[c.key]] = "terminated"
TerminationFindsTransaction ==
  \A i \in 1 .. Len(hiq) :
    hiq[i].dst = "dispatcher" /\ hiq[i].key \in LocalKeys => Finds(hiq[i])

(* The conclusion of a request of this stack, its final response or its    *)
(* transport error, is the last that a transaction tells the dialogs of    *)
(* it: no second conclusion and no late 1xx, whatever is retransmitted,    *)
(* times out late or fails to be sent.                                     *)
ConclusionIsLast ==
  HasCommand /\ Current.dst = "dialog" /\ Current.src = "transaction"
    => Current.key \notin told

(* A transaction that waits is never stranded: the timeout that ends its   *)
(* wait is pending, taken off the list, or in the queue, whichever of the  *)
(* cancelled and re-requested timers raced with the dispatcher.            *)
LastResort ==
  [InviteClient    |-> [calling |-> "timerB", completed |-> "timerD"],
   NonInviteClient |-> [trying |-> "timerF", completed |-> "timerK"],
   InviteServer    |-> [completed |-> "timerH", confirmed |-> "timerI"],
   InviteServerUA  |-> [completed |-> "timerH", confirmed |-> "timerI"],
   NonInviteServer |-> [completed |-> "timerJ"]]
Waits(t) == class[t] # "none" /\ state[t] \in DOMAIN LastResort[class[t]]
OnItsWay(t, x) ==
  \/ \E r \in requests \union expired : r.obj = t /\ r.timer = x
  \/ \E i \in 1 .. Len(hiq) : hiq[i].obj = t /\ hiq[i].kind = x
NeverStranded ==
  \A t \in Trans : Waits(t) => OnItsWay(t, LastResort[class[t]][state[t]])

(* Whatever waits for its timeout is through with it some day: under the   *)
(* fairness above no transaction is left over in such a state.             *)
WaitingEnds == \A t \in Trans : Waits(t) ~> ~Waits(t)

----------------------------------------------------------------------------
(* The inductive invariant behind TerminatedIsRemovedFirst and             *)
(* TerminationFindsTransaction.                                            *)

In(q, S) == \E i \in 1 .. Len(q) : q[i] \in S
AtMostOnce(q, S) ==
  \A i, j \in 1 .. Len(q) : q[i] \in S /\ q[j] \in S => i = j
TermCmds(k) == {c \in Command : c.dst = "dispatcher" /\ c.key = k}
ReqCmds(k) == {c \in Command : /\ c.src = "dialog" /\ c.dst = "transaction"
                               /\ IsRequest(c) /\ c.key = k}

(* A non-INVITE server transaction that may resend has something to        *)
(* resend: massert(!lastResponse.isNull()) in a4 and a7.                   *)
LastOK ==
  \A t \in Trans :
    class[t] = "NonInviteServer" /\ state[t] \in {"proceeding", "completed"}
      => last[t] \in Responses
ObjectsOK == \A t \in Trans : class[t] = "none" <=> state[t] = "unborn"
TableOK ==
  \A k \in Key : table[k] # NoTrans =>
    tid[table[k]] = k /\ state[table[k]] \in StateNames
(* The end of a transaction in the table is announced.                     *)
AnnouncedOK ==
  \A k \in Key :
    table[k] # NoTrans /\ state[table[k]] = "terminated" => In(hiq, TermCmds(k))
(* The transport layer uses the low priority queue only, and never puts    *)
(* there a request with a branch of this stack.                            *)
HighCommands == {c \in Command : c.src # "transport"}
LowCommands ==
  {c \in Command :
     \/ c.src = "dialog" /\ c.dst = "dialog"
     \/ /\ c.src = "transport" /\ c.dst = "transaction"
        /\ IsRequest(c) => c.key.branch \notin LocalBranches}
QueuesOK == hiq \in Seq(HighCommands) /\ loq \in Seq(LowCommands)
(* A key of this stack's own is given to one transaction, which stays in   *)
(* the table until its end, announced once, has been worked off.           *)
LocalOK ==
  \A k \in LocalKeys :
    /\ In(hiq, ReqCmds(k)) => \A t \in Trans : class[t] # "none" => tid[t] # k
    /\ AtMostOnce(hiq, ReqCmds(k))
    /\ \A t \in Trans : state[t] \in StateNames /\ tid[t] = k => table[k] = t
    /\ In(hiq, TermCmds(k)) => table[k] # NoTrans /\ state[table[k]] = "terminated"
    /\ AtMostOnce(hiq, TermCmds(k))
IInv == /\ TypeOK /\ LastOK /\ ObjectsOK /\ TableOK /\ AnnouncedOK
        /\ QueuesOK /\ LocalOK

----------------------------------------------------------------------------
(* What the code, its assertions and its diagrams say and the system does  *)
(* not do.                                                                 *)

(* SipLayerTransaction.cxx:125 asserts that the transaction to remove is   *)
(* in the table, and MRef::operator-> that a reference is not null.        *)
NoNullDereference ==
  HasCommand /\ Current.dst = "dispatcher" => table[Current.key] # NoTrans
=============================================================================
