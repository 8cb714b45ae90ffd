------------------------------ MODULE MCServer ------------------------------
(* One call from a peer: its INVITE and ACK, which may be retransmitted at *)
(* any time, and the ACK of a 2xx, which has a branch of its own.          *)
EXTENDS SipLayerTransaction

MC_Branches == {"inv", "ack"}
MC_CallOf == [b \in MC_Branches |-> "c1"]
Pkt(b, m) == [kind |-> m, key |-> [branch |-> b, method |-> m]]
MC_PeerPackets == {Pkt("inv", "INVITE"), Pkt("inv", "ACK"), Pkt("ack", "ACK")}
MC_PeerInvite == {Pkt("inv", "INVITE"), Pkt("inv", "ACK")}
=============================================================================
