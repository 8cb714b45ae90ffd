------------------------------ MODULE CallOutline ------------------------------
(***************************************************************************)
(* What the rest of the stack sees of the dialogs of calls, and may rely   *)
(* on.  A call is early until it is answered, up until somebody ends it,   *)
(* ending between its own BYE and the answer to it, over in termwait, and  *)
(* terminated until the dialog layer removes it.  It goes one way only.    *)
(* SipCall has the inside of two such dialogs and implements this.         *)
(***************************************************************************)
CONSTANT
  Calls         \* call-IDs of dialogs that are calls

VARIABLE
  call          \* call[c]: the state of the dialog of a call

CallState == {"none", "early", "up", "ending", "over", "terminated", "gone"}

Becomes(c, s) == call' = [call EXCEPT ![c] = s]

(* The user calls somebody, or an INVITE comes; one whose offer is refused *)
(* is over with it.                                                        *)
Starts(c) == call[c] = "none" /\ (Becomes(c, "early") \/ Becomes(c, "over"))

Connects(c) == call[c] = "early" /\ Becomes(c, "up")

(* A cancel, a refusal, an error or a BYE of the peer.                     *)
Ends(c) == call[c] \in {"early", "up"} /\ Becomes(c, "over")

SaysBye(c) == call[c] = "up" /\ Becomes(c, "ending")
ByeIsAnswered(c) == call[c] = "ending" /\ Becomes(c, "over")
Terminates(c) == call[c] = "over" /\ Becomes(c, "terminated")
IsRemoved(c) == call[c] = "terminated" /\ Becomes(c, "gone")

CallNext ==
  \E c \in Calls : \/ Starts(c) \/ Connects(c) \/ Ends(c)
                   \/ SaysBye(c) \/ ByeIsAnswered(c) \/ Terminates(c) \/ IsRemoved(c)

OutlineSpec == call = [c \in Calls |-> "none"] /\ [][CallNext]_call
=============================================================================
