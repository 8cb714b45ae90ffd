--------------------------- MODULE TimeoutService ---------------------------
(***************************************************************************)
(* What the TimeoutProvider promises those who request timeouts, time left *)
(* aside.  The requests for one timeout are counted.  Each is a wish to be *)
(* called at least once more: an expiry or a cancellation takes one away   *)
(* at least and leaves the requests for other timeouts alone.              *)
(***************************************************************************)
EXTENDS Naturals

CONSTANTS
  Timeouts        \* pairs of a receiver and a command

VARIABLES
  pending,    \* pending[w]: how often w has been requested
  handed      \* the timeout being delivered: at most one

serviceVars == <<pending, handed>>

Fewer(w) == pending[w] > 0 /\ \E n \in 0 .. (pending[w] - 1) :
                                pending' = [pending EXCEPT ![w] = n]

Request(w) ==
  /\ pending' = [pending EXCEPT ![w] = @ + 1]
  /\ UNCHANGED handed
Cancel(w) == Fewer(w) /\ UNCHANGED handed
Expire(w) == handed = {} /\ Fewer(w) /\ handed' = {w}
Deliver == handed # {} /\ handed' = {} /\ UNCHANGED pending
Close ==
  /\ handed = {} /\ UNCHANGED handed
  /\ pending' = [w \in Timeouts |-> 0]

Init == pending = [w \in Timeouts |-> 0] /\ handed = {}
Next ==
  \/ \E w \in Timeouts : Request(w) \/ Cancel(w) \/ Expire(w)
  \/ Deliver \/ Close
Spec == Init /\ [][Next]_serviceVars
=============================================================================
