---------------------------- MODULE SipLayerDialog ----------------------------
(***************************************************************************)
(* The dialogs of a stack and what they share: the high priority queue of  *)
(* the dispatcher, through which all their commands pass, and their        *)
(* timeouts.                                                               *)
(*                                                                         *)
(* The dialogs of calls are seen from outside only, as CallOutline has     *)
(* them; SipCall has their inside.                                         *)
(***************************************************************************)
EXTENDS CallOutline, Sequences, FiniteSets, Integers

CONSTANTS
  Registers,    \* call-IDs of dialogs that register an identity
  Identities,
  Nobody        \* no identity, and no dialog in particular

ASSUME CallsAssumption ==
  IsFiniteSet(Calls) /\ IsFiniteSet(Registers) /\ IsFiniteSet(Identities)
ASSUME NobodyAssumption == Nobody \notin Calls \cup Registers \cup Identities

VARIABLES
  running,      \* keepRunning
  high,         \* the queue, first in first out
  armed         \* timeouts that are requested

layerVars == <<running, high, armed, call>>

----------------------------------------------------------------------------
Command(op, to) == [op |-> op, to |-> to]

(* proxy_register for one dialog, or with to = Nobody for the first one of *)
(* the identity; expires is its third parameter, or none.                  *)
ProxyRegister(to, i, e) ==
  [op |-> "proxy_register", to |-> to, identity |-> i, expires |-> e]

Dispatched(c) == running /\ high # <<>> /\ Head(high) = c
Enqueues(s) == high' = Tail(high) \o s
InQueue(c) == \E i \in DOMAIN high : high[i] = c

(* A timeout is requested or waits to be dispatched.                       *)
Pending(t) == t \in armed \/ InQueue(t)

(* The lists of the members of a set: the order in which the dialogs come  *)
(* is that of their call-IDs, which are random.                            *)
Listings(S) ==
  {s \in [1 .. Cardinality(S) -> S] : \A i, j \in DOMAIN s : s[i] = s[j] => i = j}

----------------------------------------------------------------------------
(* The thread of the TimeoutProvider takes a timeout off its list and      *)
(* enqueues it.  What is cancelled while it waits there comes all the same.*)
handleTimeout(t) ==
  /\ t \in armed
  /\ armed' = armed \ {t} /\ high' = Append(high, t)
  /\ UNCHANGED <<running, call>>

----------------------------------------------------------------------------
(* The calls, as the dialogs of VoIP calls make them.                      *)

Outside == UNCHANGED <<running, armed>>

CallGoesOn(c) ==
  (Starts(c) \/ Connects(c) \/ Ends(c)) /\ Outside /\ UNCHANGED high

a1003_byerequest_termwait(c) ==
  /\ ByeIsAnswered(c)
  /\ high' = Append(high, Command("call_terminated_early", Nobody))
  /\ Outside

(* no_transactions.                                                        *)
a1101_termwait_terminated_notransactions(c) ==
  /\ Terminates(c)
  /\ high' = Append(high, Command("call_terminated", c))
  /\ Outside

(* Fault: a BYE in any state.                                              *)
hang_up_AnyState(c) ==
  /\ Dispatched(Command("hang_up", c))
  /\ Becomes(c, "ending") /\ Enqueues(<<>>) /\ Outside

(* hang_up sends a BYE or a CANCEL; in termwait it is answered at once.    *)
(* It is ignored otherwise: before the dialog has handled its INVITE, and  *)
(* in a call while a transfer is being asked for.                          *)
hang_up(c) ==
  /\ Dispatched(Command("hang_up", c))
  /\ \/ SaysBye(c) /\ Enqueues(<<>>)
     \/ call[c] = "early" /\ Ends(c) /\ Enqueues(<<>>)
     \/ call[c] = "over" /\ UNCHANGED call
                         /\ Enqueues(<<Command("call_terminated_early", Nobody)>>)
     \/ call[c] # "over" /\ UNCHANGED call /\ Enqueues(<<>>)
  /\ Outside

(* call_terminated.                                                        *)
removeDialog(c) ==
  /\ Dispatched(Command("call_terminated", c))
  /\ Becomes(c, "gone") /\ Enqueues(<<>>) /\ Outside

(* Those that getDialogs finds.                                            *)
CallDialogs == {c \in Calls : call[c] \notin {"none", "gone"}}

LayerInit ==
  /\ running = TRUE /\ armed = {}
  /\ call = [c \in Calls |-> "none"]
=============================================================================
