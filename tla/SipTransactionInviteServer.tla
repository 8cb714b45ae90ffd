--------------------- MODULE SipTransactionInviteServer ---------------------
(***************************************************************************)
(* The INVITE server transaction and its UA variant, in which the          *)
(* transaction and not the dialog retransmits a 2xx and waits for the ACK: *)
(* a5 is removed and a1001 added.                                          *)
(*                                                                         *)
(* a11 (absorb an ACK in confirmed) is defined in the code, but            *)
(* setUpStateMachine does not register it.  a20 is registered, and nothing *)
(* requests its timer.  Neither has an action.                             *)
(***************************************************************************)
EXTENDS SipTransaction

IS_Common ==
  { Row("a1",  "proceeding", "transport",   {"INVITE"}, "proceeding"),
    Row("a2",  "proceeding", "dialog",      {"1xx"},    "proceeding"),
    Row("a3",  "proceeding", "dialog",      {"resp36"}, "completed"),
    Row("a4",  "proceeding", "transport",   {"transport_error"}, "terminated"),
    Row("a6",  "completed",  "transport",   {"INVITE"}, "completed"),
    Row("a7",  "completed",  "transport",   {"ACK"},    "confirmed"),
    Row("a8",  "completed",  "transaction", {"timerG"}, "completed"),
    Row("a9",  "completed",  "transaction", {"timerH"}, "terminated"),
    Row("a9",  "completed",  "transport",   {"transport_error"}, "terminated"),
    Row("a10", "confirmed",  "transaction", {"timerI"}, "terminated") }

IS_Transitions ==
  IS_Common \union {Row("a5", "proceeding", "dialog", {"2xx"}, "terminated")}
ISUA_Transitions ==
  IS_Common \union {Row("a1001", "proceeding", "dialog", {"2xx"}, "completed")}

IS_Fires(name, t) ==
  \/ class[t] = "InviteServer" /\ Fires(IS_Transitions, name, t)
  \/ class[t] = "InviteServerUA" /\ Fires(ISUA_Transitions, name, t)

(* The retransmission timer of a final response: not on a stream socket.   *)
(* Fault: neither timer is requested on a stream socket.                   *)
IS_FinalTimers_OnlyUnreliable ==
  IF Unreliable THEN {"timerG", "timerH"} ELSE {}
IS_FinalTimers == {"timerH"} \union (IF Unreliable THEN {"timerG"} ELSE {})

(* Fault: no check that there is a last response.                          *)
SendLast_Unchecked(t) == Send(Msg(last[t], t))
SendLast(t) ==
  IF last[t] = "none" THEN SendNothing ELSE Send(Msg(last[t], t))

(* ua: the layer was told that the transaction handles the ACK of a 2xx.   *)
IS_a0_start_proceeding_INVITE(t, ua) ==
  /\ Current.src = "transport" /\ Current.kind = "INVITE"
  /\ Create(t, IF ua THEN "InviteServerUA" ELSE "InviteServer", "proceeding")
  /\ Timeouts(t, {}, {})
  /\ Enqueue(<<Cmd("transaction", "dialog", "INVITE", Current.key)>>)
  /\ SendNothing

IS_a1_proceeding_proceeding_INVITE(t) ==
  /\ IS_Fires("a1", t)
  /\ Timeouts(t, {}, {})
  /\ Enqueue(<<>>)
  /\ SendLast(t)
  /\ UNCHANGED last

IS_a2_proceeding_proceeding_1xx(t) ==
  /\ IS_Fires("a2", t)
  /\ last' = [last EXCEPT ![t] = Current.kind]
  /\ Timeouts(t, {}, {})
  /\ Enqueue(<<>>)
  /\ Send(Msg(Current.kind, t))

IS_a3_proceeding_completed_resp36(t) ==
  /\ IS_Fires("a3", t)
  /\ last' = [last EXCEPT ![t] = Current.kind]
  /\ Timeouts(t, {}, IS_FinalTimers)
  /\ Enqueue(<<>>)
  /\ Send(Msg(Current.kind, t))

IS_a4_proceeding_terminated_err(t) ==
  /\ IS_Fires("a4", t)
  /\ Timeouts(t, {}, {})
  /\ Enqueue(<<ToTU("transport_error", t), Terminated(t)>>)
  /\ SendNothing
  /\ UNCHANGED last

IS_a5_proceeding_terminated_2xx(t) ==
  /\ IS_Fires("a5", t)
  /\ last' = [last EXCEPT ![t] = Current.kind]
  /\ Timeouts(t, {}, {})
  /\ Enqueue(<<Terminated(t)>>)
  /\ Send(Msg(Current.kind, t))

IS_a6_completed_completed_INVITE(t) ==
  /\ IS_Fires("a6", t)
  /\ Timeouts(t, {}, {})
  /\ Enqueue(<<>>)
  /\ SendLast(t)
  /\ UNCHANGED last

IS_a7_completed_confirmed_ACK(t) ==
  /\ IS_Fires("a7", t)
  /\ Timeouts(t, {"timerG", "timerH"}, {"timerI"})
  /\ Enqueue(<<>>)
  /\ SendNothing
  /\ UNCHANGED last

IS_a8_completed_completed_timerG(t) ==
  /\ IS_Fires("a8", t)
  /\ Timeouts(t, {}, {"timerG"})
  /\ Enqueue(<<>>)
  /\ SendLast(t)
  /\ UNCHANGED last

IS_a9_completed_terminated_errOrTimerH(t) ==
  /\ IS_Fires("a9", t)
  /\ Timeouts(t, {"timerG", "timerH"}, {})
  /\ Enqueue(<<ToTU("transport_error", t), Terminated(t)>>)
  /\ SendNothing
  /\ UNCHANGED last

IS_a10_confirmed_terminated_timerI(t) ==
  /\ IS_Fires("a10", t)
  /\ Timeouts(t, {}, {})
  /\ Enqueue(<<Terminated(t)>>)
  /\ SendNothing
  /\ UNCHANGED last

ISUA_a1001_proceeding_completed_2xx(t) ==
  /\ IS_Fires("a1001", t)
  /\ last' = [last EXCEPT ![t] = Current.kind]
  /\ Timeouts(t, {}, IS_FinalTimers)
  /\ Enqueue(<<>>)
  /\ Send(Msg(Current.kind, t))

IS_Next(t) ==
  \/ IS_a1_proceeding_proceeding_INVITE(t)
  \/ IS_a2_proceeding_proceeding_1xx(t)
  \/ IS_a3_proceeding_completed_resp36(t)
  \/ IS_a4_proceeding_terminated_err(t)
  \/ IS_a5_proceeding_terminated_2xx(t)
  \/ IS_a6_completed_completed_INVITE(t)
  \/ IS_a7_completed_confirmed_ACK(t)
  \/ IS_a8_completed_completed_timerG(t)
  \/ IS_a9_completed_terminated_errOrTimerH(t)
  \/ IS_a10_confirmed_terminated_timerI(t)
  \/ ISUA_a1001_proceeding_completed_2xx(t)
=============================================================================
