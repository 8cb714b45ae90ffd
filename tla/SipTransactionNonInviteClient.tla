------------------- MODULE SipTransactionNonInviteClient --------------------
(***************************************************************************)
(* The client transaction of every request but INVITE and ACK.             *)
(***************************************************************************)
EXTENDS SipTransaction

NC_Transitions ==
  { Row("a1",  "trying",     "transport",   {"1xx"},    "proceeding"),
    Row("a2",  "trying",     "transport",   {"transport_error"}, "terminated"),
    Row("a2",  "trying",     "transaction", {"timerF"}, "terminated"),
    Row("a3",  "proceeding", "transport",   Finals,     "completed"),
    Row("a4",  "proceeding", "transaction", {"timerE"}, "proceeding"),
    Row("a5",  "proceeding", "transport",   {"1xx"},    "proceeding"),
    Row("a6",  "proceeding", "transport",   {"transport_error"}, "terminated"),
    Row("a6",  "proceeding", "transaction", {"timerF"}, "terminated"),
    Row("a7",  "trying",     "transport",   Finals,     "completed"),
    Row("a8",  "trying",     "transaction", {"timerE"}, "trying"),
    Row("a9",  "completed",  "transaction", {"timerK"}, "terminated"),
    Row("a10", "completed",  "transport",   Responses,  "completed") }

NC_Fires(name, t) ==
  /\ class[t] = "NonInviteClient"
  /\ Fires(NC_Transitions, name, t)
  /\ UNCHANGED last

(* Timer E is requested on every transport: there is no socket yet.        *)
NC_a0_start_trying_request(t) ==
  /\ Current.src = "dialog" /\ Current.kind = "OTHER"
  /\ Create(t, "NonInviteClient", "trying")
  /\ Timeouts(t, {}, {"timerE", "timerF"})
  /\ Enqueue(<<>>)
  /\ Send([kind |-> "OTHER", key |-> Current.key])

NC_a1_trying_proceeding_1xx(t) ==
  /\ NC_Fires("a1", t)
  /\ Timeouts(t, {"timerE", "timerF"}, {})
  /\ Enqueue(<<ToTU(Current.kind, t)>>)
  /\ SendNothing

NC_a2_trying_terminated_TimerFOrErr(t) ==
  /\ NC_Fires("a2", t)
  /\ Timeouts(t, {"timerE", "timerF"}, {})
  /\ Enqueue(<<ToTU("transport_error", t), Terminated(t)>>)
  /\ SendNothing

NC_a3_proceeding_completed_non1xxresp(t) ==
  /\ NC_Fires("a3", t)
  /\ Timeouts(t, {"timerE"}, {"timerK"})
  /\ Enqueue(<<ToTU(Current.kind, t)>>)
  /\ SendNothing

(* The handler requests timer E twice: two copies become pending.          *)
NC_TwoTimersE(t) ==
  LET one == requests \union NextCopies(requests, t, {"timerE"})
  IN  requests' = one \union NextCopies(one, t, {"timerE"})

NC_a4_proceeding_proceeding_timerE(t) ==
  /\ NC_Fires("a4", t)
  /\ NC_TwoTimersE(t)
  /\ Enqueue(<<>>)
  /\ Send(Msg("OTHER", t))

NC_a5_proceeding_proceeding_1xx(t) ==
  /\ NC_Fires("a5", t)
  /\ Timeouts(t, {"timerE"}, {})
  /\ Enqueue(<<ToTU(Current.kind, t)>>)
  /\ SendNothing

NC_a6_proceeding_terminated_transperrOrTimerF(t) ==
  /\ NC_Fires("a6", t)
  /\ Timeouts(t, {"timerE", "timerF"}, {})
  /\ Enqueue(<<ToTU("transport_error", t), Terminated(t)>>)
  /\ SendNothing

NC_a7_trying_completed_non1xxresp(t) ==
  /\ NC_Fires("a7", t)
  /\ Timeouts(t, {"timerE", "timerF"}, {"timerK"})
  /\ Enqueue(<<ToTU(Current.kind, t)>>)
  /\ SendNothing

NC_a8_trying_trying_timerE(t) ==
  /\ NC_Fires("a8", t)
  /\ Timeouts(t, {}, {"timerE"})
  /\ Enqueue(<<>>)
  /\ Send(Msg("OTHER", t))

(* Fault: timer K starts over.                                             *)
NC_a9_StartsOver(t) ==
  /\ class[t] = "NonInviteClient" /\ state[t] = "completed"
  /\ HasCommand /\ Receives(t, Current)
  /\ Current.src = "transaction" /\ Current.kind = "timerK"
  /\ UNCHANGED <<class, tid, table, expired, state, last>>
  /\ Timeouts(t, {}, {"timerK"})
  /\ Enqueue(<<>>)
  /\ SendNothing

NC_a9_completed_terminated_timerK(t) ==
  /\ NC_Fires("a9", t)
  /\ Timeouts(t, {}, {})
  /\ Enqueue(<<Terminated(t)>>)
  /\ SendNothing

NC_a10_completed_completed_anyresp(t) ==
  /\ NC_Fires("a10", t)
  /\ Timeouts(t, {}, {})
  /\ Enqueue(<<>>)
  /\ SendNothing

NC_Next(t) ==
  \/ NC_a1_trying_proceeding_1xx(t)
  \/ NC_a2_trying_terminated_TimerFOrErr(t)
  \/ NC_a3_proceeding_completed_non1xxresp(t)
  \/ NC_a4_proceeding_proceeding_timerE(t)
  \/ NC_a5_proceeding_proceeding_1xx(t)
  \/ NC_a6_proceeding_terminated_transperrOrTimerF(t)
  \/ NC_a7_trying_completed_non1xxresp(t)
  \/ NC_a8_trying_trying_timerE(t)
  \/ NC_a9_completed_terminated_timerK(t)
  \/ NC_a10_completed_completed_anyresp(t)
=============================================================================
