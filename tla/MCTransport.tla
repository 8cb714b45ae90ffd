------------------------------ MODULE MCTransport ------------------------------
EXTENDS SipLayerTransport

(* One server listens; a datagram's server would take part in stop() only. *)
MC_Server == Listener \cup {Manager}
MC_Socket == Listener \cup Connection
===============================================================================
