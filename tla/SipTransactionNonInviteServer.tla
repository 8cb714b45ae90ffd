------------------- MODULE SipTransactionNonInviteServer --------------------
(***************************************************************************)
(* The server transaction of every request but INVITE.  An ACK that no     *)
(* other transaction takes gets one too.                                   *)
(***************************************************************************)
EXTENDS SipTransaction

(* a4 and a7 take any request that reaches the transaction.                *)
NS_Transitions ==
  { Row("a1", "trying",     "dialog",      {"1xx"},      "proceeding"),
    Row("a2", "trying",     "dialog",      Finals,       "completed"),
    Row("a3", "proceeding", "dialog",      Finals,       "completed"),
    Row("a4", "proceeding", "transport",   RequestKinds, "proceeding"),
    Row("a5", "proceeding", "dialog",      {"1xx"},      "proceeding"),
    Row("a6", "proceeding", "transport",   {"transport_error"}, "terminated"),
    Row("a7", "completed",  "transport",   RequestKinds, "completed"),
    Row("a8", "completed",  "transport",   {"transport_error"}, "terminated"),
    Row("a9", "completed",  "transaction", {"timerJ"},   "terminated") }

NS_Fires(name, t) ==
  class[t] = "NonInviteServer" /\ Fires(NS_Transitions, name, t)

NS_a0_start_trying_request(t) ==
  /\ Current.src = "transport" /\ Current.kind \in {"OTHER", "ACK"}
  /\ Create(t, "NonInviteServer", "trying")
  /\ Timeouts(t, {}, {})
  /\ Enqueue(<<Cmd("transaction", "dialog", Current.kind, Current.key)>>)
  /\ SendNothing

(* The response the TU gives is remembered and sent.                       *)
NS_Answer(t) ==
  /\ last' = [last EXCEPT ![t] = Current.kind]
  /\ Enqueue(<<>>)
  /\ Send(Msg(Current.kind, t))

(* Fault: the provisional response is not remembered.                      *)
NS_a1_Forgets(t) ==
  /\ NS_Fires("a1", t)
  /\ Enqueue(<<>>)
  /\ Send(Msg(Current.kind, t))
  /\ UNCHANGED last
  /\ Timeouts(t, {}, {})

NS_a1_trying_proceeding_1xx(t) ==
  /\ NS_Fires("a1", t)
  /\ NS_Answer(t)
  /\ Timeouts(t, {}, {})

NS_a2_trying_completed_non1xxresp(t) ==
  /\ NS_Fires("a2", t)
  /\ NS_Answer(t)
  /\ Timeouts(t, {}, {"timerJ"})

NS_a3_proceeding_completed_non1xxresp(t) ==
  /\ NS_Fires("a3", t)
  /\ NS_Answer(t)
  /\ Timeouts(t, {}, {"timerJ"})

NS_a4_proceeding_proceeding_request(t) ==
  /\ NS_Fires("a4", t)
  /\ Timeouts(t, {}, {})
  /\ Enqueue(<<>>)
  /\ Send(Msg(last[t], t))
  /\ UNCHANGED last

NS_a5_proceeding_proceeding_1xx(t) ==
  /\ NS_Fires("a5", t)
  /\ NS_Answer(t)
  /\ Timeouts(t, {}, {})

NS_a6_proceeding_terminated_transperr(t) ==
  /\ NS_Fires("a6", t)
  /\ Timeouts(t, {}, {})
  /\ Enqueue(<<ToTU("transport_error", t), Terminated(t)>>)
  /\ SendNothing
  /\ UNCHANGED last

NS_a7_completed_completed_request(t) ==
  /\ NS_Fires("a7", t)
  /\ Timeouts(t, {}, {})
  /\ Enqueue(<<>>)
  /\ Send(Msg(last[t], t))
  /\ UNCHANGED last

NS_a8_completed_terminated_transperr(t) ==
  /\ NS_Fires("a8", t)
  /\ Timeouts(t, {"timerJ"}, {})
  /\ Enqueue(<<ToTU("transport_error", t), Terminated(t)>>)
  /\ SendNothing
  /\ UNCHANGED last

NS_a9_completed_terminated_timerJ(t) ==
  /\ NS_Fires("a9", t)
  /\ Timeouts(t, {}, {})
  /\ Enqueue(<<Terminated(t)>>)
  /\ SendNothing
  /\ UNCHANGED last

NS_Next(t) ==
  \/ NS_a1_trying_proceeding_1xx(t)
  \/ NS_a2_trying_completed_non1xxresp(t)
  \/ NS_a3_proceeding_completed_non1xxresp(t)
  \/ NS_a4_proceeding_proceeding_request(t)
  \/ NS_a5_proceeding_proceeding_1xx(t)
  \/ NS_a6_proceeding_terminated_transperr(t)
  \/ NS_a7_completed_completed_request(t)
  \/ NS_a8_completed_terminated_transperr(t)
  \/ NS_a9_completed_terminated_timerJ(t)
=============================================================================
