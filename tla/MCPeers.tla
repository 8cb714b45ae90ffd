------------------------------- MODULE MCPeers -------------------------------
(* A request of this stack and one of a peer, of any method, with ids that *)
(* differ in the branch and the method.                                    *)
EXTENDS SipLayerTransaction

MC_Branches == {"own", "peer"}
MC_LocalBranches == {"own"}
MC_CallOf == [b \in MC_Branches |-> "c1"]
MC_AnyPackets ==
  [kind : Responses, key : [branch : {"own"}, method : {"INVITE", "OTHER"}]]
  \union {[kind |-> m, key |-> [branch |-> "peer", method |-> m]] :
            m \in {"INVITE", "ACK", "OTHER"}}
=============================================================================
