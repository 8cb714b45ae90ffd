--------------------------- MODULE SipTransaction ---------------------------
(***************************************************************************)
(* What every SIP transaction of libmsip stands on: the two command queues *)
(* of the SipCommandDispatcher, the transaction table of the               *)
(* SipLayerTransaction, the pending requests of the TimeoutProvider, and   *)
(* the members of the base class SipTransaction.                           *)
(*                                                                         *)
(* One dispatcher thread takes the commands off the queues, the high       *)
(* priority one first, and runs the handler of the transaction a command   *)
(* is for to its end.  The thread of the TimeoutProvider takes an expired  *)
(* request off its list under its lock and delivers it afterwards without  *)
(* the lock, and the socket threads enqueue what they read: these are the  *)
(* other actors, and their steps fall between any two dispatched commands. *)
(*                                                                         *)
(* The four transaction machines extend this module with one action per    *)
(* handler; SipLayerTransaction composes them.                             *)
(***************************************************************************)
EXTENDS Naturals, Sequences, FiniteSets

CONSTANTS
  Trans,          \* the SipTransaction objects, created or still to come
  NoTrans,        \* the null reference
  Branches,       \* values of the branch parameter of the top Via header
  Calls,          \* pairs of a Call-ID and a CSeq number
  CallOf,         \* CallOf[b]: the pair the messages with branch b carry
  Unreliable,     \* the transport is UDP
  MaxCopies,      \* bound: copies of one timeout that may be pending at once
  MaxLow,         \* bound: what the low priority queue may hold
  MaxHigh         \* bound: others than the dispatcher add to the high
                  \* priority queue while it holds fewer commands

ASSUME TransAssumption == NoTrans \notin Trans
ASSUME CallAssumption == Branches # {} /\ CallOf \in [Branches -> Calls]
ASSUME CopiesAssumption == MaxCopies \in Nat \ {0}
ASSUME BoundsAssumption == MaxLow \in Nat /\ MaxHigh \in Nat
ASSUME UnreliableAssumption == Unreliable \in BOOLEAN

VARIABLES
  class,      \* class[t]: which of the five transaction classes t is
  tid,        \* tid[t]: branch and CSeq method, the transaction's id
  state,      \* state[t]: name of the current state
  last,       \* last[t]: class of the response in lastResponse
  table,      \* the map `transactions` of the transaction layer
  requests,   \* pending requests of the TimeoutProvider
  expired,    \* request taken off that list and not delivered yet (0 or 1)
  hiq,        \* high_prio_command_q
  loq,        \* low_prio_command_q
  out         \* the messages the step handed over to the network

vars == <<class, tid, state, last, table, requests, expired, hiq, loq, out>>

----------------------------------------------------------------------------
Classes == {"InviteClient", "InviteServer", "InviteServerUA",
            "NonInviteClient", "NonInviteServer"}
StateNames == {"calling", "trying", "proceeding", "completed",
               "confirmed", "terminated"}
Timers == {"timerA", "timerB", "timerD", "timerE", "timerF", "timerG",
           "timerH", "timerI", "timerJ", "timerK"}
Finals == {"2xx", "resp36"}
Responses == {"1xx"} \union Finals
RequestKinds == {"INVITE", "ACK", "OTHER"}
Key == [branch : Branches, method : RequestKinds]

Request == [obj : Trans, timer : Timers, copy : 1 .. MaxCopies]

Kinds == RequestKinds \union Responses \union Timers
           \union {"transport_error", "transaction_terminated", "no_transactions"}
Command == [src  : {"dialog", "transaction", "transport"},
            dst  : {"dialog", "transaction", "dispatcher"},
            kind : Kinds, key : Key, obj : Trans \union {NoTrans}]
Packet == [kind : RequestKinds \union Responses, key : Key]

Cmd(s, d, k, key) ==
  [src |-> s, dst |-> d, kind |-> k, key |-> key, obj |-> NoTrans]
Timeout(t, x) == [src |-> "transaction", dst |-> "transaction",
                  kind |-> x, key |-> tid[t], obj |-> t]
ToTU(kind, t) == Cmd("transaction", "dialog", kind, tid[t])
Terminated(t) ==
  Cmd("transaction", "dispatcher", "transaction_terminated", tid[t])
NoTransactions(key) == Cmd("dialog", "dialog", "no_transactions", key)
TransportError(key) ==
  Cmd("transport", "transaction", "transport_error", key)

IsPacket(c) == c.kind \in RequestKinds \union Responses
IsRequest(c) == c.kind \in RequestKinds

----------------------------------------------------------------------------
(* The dispatcher: the command it takes next and what it leaves behind.    *)

HasCommand == hiq # <<>> \/ loq # <<>>
(* Fault: the low priority queue goes first.                               *)
TakesHigh_LowFirst == loq = <<>>
TakesHigh == hiq # <<>>
Current == IF TakesHigh THEN Head(hiq) ELSE Head(loq)
HighRest == IF TakesHigh THEN Tail(hiq) ELSE hiq
LowRest == IF TakesHigh THEN loq ELSE Tail(loq)

(* The step dispatches the current command and enqueues cmds.              *)
Enqueue(cmds) == hiq' = HighRest \o cmds

(* Handing a packet to the transport layer: it goes out, it is dropped     *)
(* because no destination is found, or the send throws and an error with   *)
(* the packet's own id is queued behind the other low priority commands.   *)
Send(p) == \/ out' \in {{p}, {}} /\ loq' = LowRest
           \/ /\ Len(LowRest) < MaxLow
              /\ out' = {}
              /\ loq' = Append(LowRest, TransportError(p.key))
SendNothing == out' = {} /\ loq' = LowRest
Msg(kind, t) == [kind |-> kind, key |-> tid[t]]

----------------------------------------------------------------------------
(* Timeouts.  cancelRequest removes a request that is pending once; of a   *)
(* request pending several times it removes some, and its scan may step    *)
(* over others.  A request taken off the list already is out of its reach. *)
Pending(t, x) == {r \in requests : r.obj = t /\ r.timer = x}
Removable(t, X) ==
  {rs \in SUBSET {r \in requests : r.obj = t /\ r.timer \in X} :
     \A x \in X : Pending(t, x) = {} \/ Pending(t, x) \intersect rs # {}}
NextCopies(left, t, X) ==
  {r \in Request \ left :
     /\ r.obj = t /\ r.timer \in X
     /\ \A n \in 1 .. (r.copy - 1) : [r EXCEPT !.copy = n] \in left}

Timeouts(t, cancel, arm) ==
  \E rs \in Removable(t, cancel) :
    requests' = (requests \ rs) \union NextCopies(requests \ rs, t, arm)

(* The thread of the TimeoutProvider: taking an expired request off the    *)
(* list, and then, the lock released, delivering it to the dispatcher.  It *)
(* is taken off by its value: another request for the same timeout that is *)
(* due in the same millisecond may go with it.                             *)
Expire(r) ==
  /\ expired = {}
  /\ Len(hiq) < MaxHigh
  /\ r \in requests
  /\ \E rs \in SUBSET Pending(r.obj, r.timer) :
       r \in rs /\ requests' = requests \ rs
  /\ expired' = {r}
  /\ out' = {}
  /\ UNCHANGED <<class, tid, state, last, table, hiq, loq>>

DeliverTimeout ==
  /\ \E r \in expired : hiq' = Append(hiq, Timeout(r.obj, r.timer))
  /\ expired' = {}
  /\ out' = {}
  /\ UNCHANGED <<class, tid, state, last, table, requests, loq>>

----------------------------------------------------------------------------
(* Which transactions the layer offers a command to.  A timeout names its  *)
(* receiver.  Any other command is looked up by its id; when no such       *)
(* transaction is in the table, every one of them is tried: all of them    *)
(* for a command string, and for an ACK those with an INVITE or ACK id.    *)
Offered(t, c) ==
  IF c.obj # NoTrans THEN t = c.obj
  ELSE IF table[c.key] # NoTrans THEN t = table[c.key]
  ELSE /\ state[t] \in StateNames
       /\ table[tid[t]] = t
       /\ IsPacket(c) => /\ c.kind = "ACK"
                         /\ tid[t].method \in {"ACK", "INVITE"}

(* SipTransaction::handleCommand: destination, CSeq number and Call-ID.    *)
Addressed(t, c) ==
  /\ c.dst = "transaction"
  /\ IsPacket(c) => CallOf[c.key.branch] = CallOf[tid[t].branch]

Receives(t, c) == state[t] \in StateNames /\ Offered(t, c) /\ Addressed(t, c)

(* A transition of a machine: in state from, on a command with this source *)
(* and one of these kinds, the handler called name runs and moves to to.   *)
Row(name, from, src, kinds, to) ==
  [name |-> name, from |-> from, src |-> src, kinds |-> kinds, to |-> to]
Matches(r, t, c) == r.from = state[t] /\ r.src = c.src /\ c.kind \in r.kinds

(* The dispatcher runs the handler called name of transaction t.           *)
Fires(rows, name, t) ==
  /\ HasCommand
  /\ Receives(t, Current)
  /\ \E r \in rows : /\ r.name = name
                     /\ Matches(r, t, Current)
                     /\ state' = [state EXCEPT ![t] = r.to]
  /\ UNCHANGED <<class, tid, table, expired>>

(* SipTransaction::create followed by addTransaction: a new object for the *)
(* current request.  Whatever the table held under its id is overwritten.  *)
Create(t, cls, to) ==
  /\ HasCommand
  /\ Current.dst = "transaction"
  /\ IsRequest(Current)
  /\ class' = [class EXCEPT ![t] = cls]
  /\ tid' = [tid EXCEPT ![t] = Current.key]
  /\ state' = [state EXCEPT ![t] = to]
  /\ table' = [table EXCEPT ![Current.key] = t]
  /\ UNCHANGED <<last, expired>>

TransactionTypeOK ==
  /\ class \in [Trans -> Classes \union {"none"}]
  /\ tid \in [Trans -> Key]
  /\ state \in [Trans -> StateNames \union {"unborn", "freed"}]
  /\ last \in [Trans -> Responses \union {"none"}]
  /\ table \in [Key -> Trans \union {NoTrans}]
  /\ requests \subseteq Request
  /\ expired \subseteq Request
  /\ hiq \in Seq(Command)
  /\ loq \in Seq(Command)
  /\ out \subseteq Packet
=============================================================================
