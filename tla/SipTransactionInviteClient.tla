--------------------- MODULE SipTransactionInviteClient ---------------------
(***************************************************************************)
(* The INVITE client transaction.  IC_Transitions is the machine that      *)
(* setUpStateMachine wires up; under each name is what the handler does.   *)
(* The row of a10 asks for a transport_error whose source is the           *)
(* transaction layer.  The transport layer is the only source of that      *)
(* command, so a10 has no action.  Nothing sends cancel_transaction, so    *)
(* neither has a1000 of the base class.                                    *)
(***************************************************************************)
EXTENDS SipTransaction

IC_Transitions ==
  { Row("a1",  "calling",    "transaction", {"timerA"},  "calling"),
    Row("a2",  "calling",    "transport",   {"1xx"},     "proceeding"),
    Row("a3",  "calling",    "transport",   {"resp36"},  "completed"),
    Row("a4",  "calling",    "transport",   {"transport_error"}, "terminated"),
    Row("a4",  "calling",    "transaction", {"timerB"},  "terminated"),
    Row("a5",  "calling",    "transport",   {"2xx"},     "terminated"),
    Row("a6",  "proceeding", "transport",   {"1xx"},     "proceeding"),
    Row("a7",  "proceeding", "transport",   {"2xx"},     "terminated"),
    Row("a8",  "proceeding", "transport",   {"resp36"},  "completed"),
    Row("a9",  "completed",  "transport",   {"resp36"},  "completed"),
    Row("a10", "completed",  "transaction", {"transport_error"}, "terminated"),
    Row("a11", "completed",  "transaction", {"timerD"},  "terminated") }

IC_Fires(name, t) ==
  /\ class[t] = "InviteClient"
  /\ Fires(IC_Transitions, name, t)
  /\ UNCHANGED last

(* The ACK for a final response other than 2xx carries the branch of the   *)
(* INVITE and a CSeq method of its own.                                    *)
IC_Ack(t) ==
  [kind |-> "ACK", key |-> [branch |-> tid[t].branch, method |-> "ACK"]]

(* isUnreliable() holds for a transaction without a socket, and the socket *)
(* is set by the first send: timer A is requested on every transport.      *)
IC_a0_start_calling_INVITE(t) ==
  /\ Current.src = "dialog" /\ Current.kind = "INVITE"
  /\ Create(t, "InviteClient", "calling")
  /\ Timeouts(t, {}, {"timerA", "timerB"})
  /\ Enqueue(<<>>)
  /\ Send([kind |-> "INVITE", key |-> Current.key])

IC_a1_calling_calling_timerA(t) ==
  /\ IC_Fires("a1", t)
  /\ Timeouts(t, {}, {"timerA"})
  /\ Enqueue(<<>>)
  /\ Send(Msg("INVITE", t))

IC_a2_calling_proceeding_1xx(t) ==
  /\ IC_Fires("a2", t)
  /\ Timeouts(t, {"timerA", "timerB"}, {})
  /\ Enqueue(<<ToTU(Current.kind, t)>>)
  /\ SendNothing

IC_a3_calling_completed_resp36(t) ==
  /\ IC_Fires("a3", t)
  /\ Timeouts(t, {"timerA", "timerB"}, {"timerD"})
  /\ Enqueue(<<ToTU(Current.kind, t)>>)
  /\ Send(IC_Ack(t))

IC_a4_calling_terminated_ErrOrTimerB(t) ==
  /\ IC_Fires("a4", t)
  /\ Timeouts(t, {"timerA", "timerB"}, {})
  /\ Enqueue(<<ToTU("transport_error", t), Terminated(t)>>)
  /\ SendNothing

IC_a5_calling_terminated_2xx(t) ==
  /\ IC_Fires("a5", t)
  /\ Timeouts(t, {"timerA", "timerB"}, {})
  /\ Enqueue(<<ToTU(Current.kind, t), Terminated(t)>>)
  /\ SendNothing

IC_a6_proceeding_proceeding_1xx(t) ==
  /\ IC_Fires("a6", t)
  /\ Timeouts(t, {}, {})
  /\ Enqueue(<<ToTU(Current.kind, t)>>)
  /\ SendNothing

IC_a7_proceeding_terminated_2xx(t) ==
  /\ IC_Fires("a7", t)
  /\ Timeouts(t, {"timerA", "timerB"}, {})
  /\ Enqueue(<<ToTU(Current.kind, t), Terminated(t)>>)
  /\ SendNothing

(* Fault: timer D is not requested.                                        *)
IC_a8_NoTimerD(t) ==
  /\ IC_Fires("a8", t)
  /\ Timeouts(t, {"timerA", "timerB"}, {})
  /\ Enqueue(<<ToTU(Current.kind, t)>>)
  /\ Send(IC_Ack(t))

IC_a8_proceeding_completed_resp36(t) ==
  /\ IC_Fires("a8", t)
  /\ Timeouts(t, {"timerA", "timerB"}, {"timerD"})
  /\ Enqueue(<<ToTU(Current.kind, t)>>)
  /\ Send(IC_Ack(t))

(* Fault: the TU is told of a retransmitted response too.                  *)
IC_a9_TellsTU(t) ==
  /\ IC_Fires("a9", t)
  /\ Timeouts(t, {}, {})
  /\ Enqueue(<<ToTU(Current.kind, t)>>)
  /\ Send(IC_Ack(t))

IC_a9_completed_completed_resp36(t) ==
  /\ IC_Fires("a9", t)
  /\ Timeouts(t, {}, {})
  /\ Enqueue(<<>>)
  /\ Send(IC_Ack(t))

IC_a11_completed_terminated_timerD(t) ==
  /\ IC_Fires("a11", t)
  /\ Timeouts(t, {}, {})
  /\ Enqueue(<<Terminated(t)>>)
  /\ SendNothing

IC_Next(t) ==
  \/ IC_a1_calling_calling_timerA(t)
  \/ IC_a2_calling_proceeding_1xx(t)
  \/ IC_a3_calling_completed_resp36(t)
  \/ IC_a4_calling_terminated_ErrOrTimerB(t)
  \/ IC_a5_calling_terminated_2xx(t)
  \/ IC_a6_proceeding_proceeding_1xx(t)
  \/ IC_a7_proceeding_terminated_2xx(t)
  \/ IC_a8_proceeding_completed_resp36(t)
  \/ IC_a9_completed_completed_resp36(t)
  \/ IC_a11_completed_terminated_timerD(t)
=============================================================================
