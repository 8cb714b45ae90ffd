---------------------- MODULE SipLayerTransactionProofs ----------------------
(***************************************************************************)
(* What holds of the transaction layer whatever the constants are: IInv is *)
(* an invariant, and with it type correctness, TerminatedIsRemovedFirst    *)
(* and TerminationFindsTransaction.                                        *)
(***************************************************************************)
EXTENDS SipLayerTransaction, TLAPS

----------------------------------------------------------------------------
(* The queues.                                                             *)

(* Appending a command to a queue.                                         *)
LEMMA InAppend ==
  ASSUME NEW q \in Seq(Command), NEW c \in Command, NEW S
  PROVE  /\ Append(q, c) \in Seq(Command)
         /\ In(Append(q, c), S) <=> In(q, S) \/ c \in S
         /\ AtMostOnce(Append(q, c), S)
              <=> AtMostOnce(q, S) /\ ~(In(q, S) /\ c \in S)
<1> DEFINE a == Append(q, c)
           n == Len(q)
<1>1. /\ a \in Seq(Command) /\ n \in Nat /\ Len(a) = n + 1 /\ a[n + 1] = c
      /\ \A i \in 1 .. n : a[i] = q[i]
  OBVIOUS
<1> HIDE DEF a
<1>2. In(a, S) <=> In(q, S) \/ c \in S
  <2>1. \A i \in 1 .. (n + 1) : i \in 1 .. n \/ i = n + 1
    BY <1>1
  <2> QED
    BY <1>1, <2>1 DEF In
<1>3. AtMostOnce(a, S) <=> AtMostOnce(q, S) /\ ~(In(q, S) /\ c \in S)
  <2>1. /\ \A i \in 1 .. (n + 1) : i \in 1 .. n \/ i = n + 1
        /\ \A i \in 1 .. n : i # n + 1 /\ i \in 1 .. (n + 1)
        /\ n + 1 \in 1 .. (n + 1)
    BY <1>1
  <2> QED
    BY <1>1, <2>1 DEF AtMostOnce, In
<1> QED
  BY <1>1, <1>2, <1>3 DEF a

(* Taking the first command off a queue.                                   *)
LEMMA InTail ==
  ASSUME NEW q \in Seq(Command), q # <<>>, NEW S
  PROVE  /\ Head(q) \in Command /\ Tail(q) \in Seq(Command)
         /\ In(q, S) <=> In(Tail(q), S) \/ Head(q) \in S
         /\ AtMostOnce(q, S)
              => AtMostOnce(Tail(q), S) /\ ~(In(Tail(q), S) /\ Head(q) \in S)
<1> DEFINE b == Tail(q)
           n == Len(q)
<1>1. /\ Head(q) \in Command /\ b \in Seq(Command) /\ n \in Nat \ {0}
      /\ Len(b) = n - 1 /\ Head(q) = q[1]
      /\ \A i \in 1 .. (n - 1) : b[i] = q[i + 1]
  OBVIOUS
<1> HIDE DEF b
<1>2. /\ \A i \in 1 .. n : i = 1 \/ \E j \in 1 .. (n - 1) : i = j + 1
      /\ \A j \in 1 .. (n - 1) : j + 1 \in 1 .. n /\ j + 1 # 1
      /\ \A i, j \in 1 .. (n - 1) : i + 1 = j + 1 => i = j
      /\ 1 \in 1 .. n
  <2>1. ASSUME NEW i \in 1 .. n, i # 1
        PROVE  \E j \in 1 .. (n - 1) : i = j + 1
    <3>1. i - 1 \in 1 .. (n - 1) /\ i = (i - 1) + 1
      BY <1>1, <2>1
    <3> QED
      BY <3>1
  <2> QED
    BY <1>1, <2>1
<1>3. In(q, S) <=> In(b, S) \/ Head(q) \in S
  BY <1>1, <1>2 DEF In
<1>4. AtMostOnce(q, S) => AtMostOnce(b, S) /\ ~(In(b, S) /\ Head(q) \in S)
  <2> SUFFICES ASSUME AtMostOnce(q, S)
               PROVE  AtMostOnce(b, S) /\ ~(In(b, S) /\ Head(q) \in S)
    OBVIOUS
  <2>1. ASSUME NEW i \in 1 .. Len(b), NEW j \in 1 .. Len(b),
               b[i] \in S, b[j] \in S
        PROVE  i = j
    <3>1. /\ i + 1 \in 1 .. Len(q) /\ j + 1 \in 1 .. Len(q)
          /\ q[i + 1] \in S /\ q[j + 1] \in S
      BY <1>1, <1>2, <2>1
    <3>2. i + 1 = j + 1
      BY <3>1 DEF AtMostOnce
    <3> QED
      BY <1>1, <1>2, <3>2
  <2>2. ~(In(b, S) /\ Head(q) \in S)
    BY <1>1, <1>2 DEF AtMostOnce, In
  <2> QED
    BY <2>1, <2>2 DEF AtMostOnce
<1> QED
  BY <1>1, <1>3, <1>4 DEF b

(* What the dispatcher takes and what it leaves.                           *)
LEMMA CurrentCommand ==
  ASSUME TypeOK, QueuesOK, HasCommand
  PROVE  /\ Current \in Command
         /\ HighRest \in Seq(Command) /\ LowRest \in Seq(Command)
         /\ HighRest \in Seq(HighCommands) /\ LowRest \in Seq(LowCommands)
         /\ IF TakesHigh THEN Current \in HighCommands
                         ELSE Current \in LowCommands
<1>1. hiq \in Seq(Command) /\ loq \in Seq(Command)
  BY DEF TypeOK, TransactionTypeOK
<1>2. hiq \in Seq(HighCommands) /\ loq \in Seq(LowCommands)
  BY DEF QueuesOK
<1>3. CASE TakesHigh
  <2>1. Head(hiq) \in HighCommands /\ Tail(hiq) \in Seq(HighCommands)
    BY <1>2, <1>3 DEF TakesHigh
  <2>2. Head(hiq) \in Command /\ Tail(hiq) \in Seq(Command)
    BY <1>1, <1>3 DEF TakesHigh
  <2> QED
    BY <1>1, <1>2, <1>3, <2>1, <2>2 DEF Current, HighRest, LowRest
<1>4. CASE ~TakesHigh
  <2>1. Head(loq) \in LowCommands /\ Tail(loq) \in Seq(LowCommands)
    BY <1>2, <1>4 DEF TakesHigh, HasCommand
  <2>2. Head(loq) \in Command /\ Tail(loq) \in Seq(Command)
    BY <1>1, <1>4 DEF TakesHigh, HasCommand
  <2> QED
    BY <1>1, <1>2, <1>4, <2>1, <2>2 DEF Current, HighRest, LowRest
<1> QED
  BY <1>3, <1>4

(* What the dispatcher leaves of the high priority queue is a part of it.  *)
LEMMA HighRestHolds ==
  ASSUME TypeOK, HasCommand, NEW S
  PROVE  /\ In(hiq, S) <=> In(HighRest, S) \/ (TakesHigh /\ Current \in S)
         /\ AtMostOnce(hiq, S)
              => /\ AtMostOnce(HighRest, S)
                 /\ ~(In(HighRest, S) /\ TakesHigh /\ Current \in S)
<1>1. hiq \in Seq(Command)
  BY DEF TypeOK, TransactionTypeOK
<1>2. CASE TakesHigh
  BY <1>1, <1>2, InTail DEF TakesHigh, Current, HighRest
<1>3. CASE ~TakesHigh
  BY <1>3 DEF HighRest
<1> QED
  BY <1>2, <1>3

(* What a step leaves in the high priority queue, in terms of Append.      *)
LEMMA Enqueued ==
  ASSUME HighRest \in Seq(Command), NEW a \in Command, NEW b \in Command
  PROVE  /\ Enqueue(<<>>) => hiq' = HighRest
         /\ Enqueue(<<a>>) => hiq' = Append(HighRest, a)
         /\ Enqueue(<<a, b>>) => hiq' = Append(Append(HighRest, a), b)
<1>1. HighRest \o <<>> = HighRest
  OBVIOUS
<1>2. HighRest \o <<a>> = Append(HighRest, a)
  OBVIOUS
<1>3. HighRest \o <<a, b>> = Append(Append(HighRest, a), b)
  OBVIOUS
<1> QED
  BY <1>1, <1>2, <1>3 DEF Enqueue

----------------------------------------------------------------------------
(* What every handler of every machine has in common.                      *)

(* A handler that moves transaction t to state s queues nothing but what   *)
(* is for the TU and, if and only if s is terminated, the announcement.    *)
Queued(t, s) ==
  \/ s # "terminated" /\ hiq' = HighRest
  \/ s # "terminated" /\ \E k \in Kinds : hiq' = Append(HighRest, ToTU(k, t))
  \/ s = "terminated" /\ hiq' = Append(HighRest, Terminated(t))
  \/ /\ s = "terminated"
     /\ \E k \in Kinds : hiq' = Append(Append(HighRest, ToTU(k, t)), Terminated(t))

SendsOK ==
  /\ out' \subseteq Packet
  /\ loq' = LowRest \/ \E k \in Key : loq' = Append(LowRest, TransportError(k))

Moves(t) ==
  /\ HasCommand /\ Current.dst = "transaction"
  /\ UNCHANGED <<class, tid, table, expired>>
  /\ state[t] \in StateNames \ {"terminated"}
  /\ \E s \in StateNames : state' = [state EXCEPT ![t] = s] /\ Queued(t, s)

(* The response a non-INVITE server transaction keeps, after the step.     *)
KeepsLast(t) ==
  /\ last' \in [Trans -> Responses \union {"none"}]
  /\ \A u \in Trans \ {t} : last'[u] = last[u]
  /\ class[t] = "NonInviteServer" /\ state'[t] \in {"proceeding", "completed"}
       => last'[t] \in Responses

HandlerStep(t) ==
  Moves(t) /\ SendsOK /\ KeepsLast(t) /\ requests' \subseteq Request

(* A row of a machine's table leads from a living state to a state, and to *)
(* terminated if and only if its handler is one of ends.                   *)
Table(rows, ends) ==
  \A r \in rows :
    /\ r.from \in StateNames \ {"terminated"}
    /\ r.to \in StateNames
    /\ r.to = "terminated" <=> r.name \in ends

(* There is a key, so Init's choice of one is a key.                       *)
LEMMA KeyExists == \E k \in Key : TRUE
<1>1. PICK b \in Branches : TRUE
  BY CallAssumption
<1>2. [branch |-> b, method |-> "INVITE"] \in Key
  BY DEF Key, RequestKinds
<1> QED
  BY <1>2

(* The two commands that a transaction makes are commands.                 *)
LEMMA CommandsOK ==
  ASSUME TypeOK, NEW t \in Trans, NEW k \in Kinds
  PROVE  /\ ToTU(k, t) \in Command /\ Terminated(t) \in Command
         /\ NoTrans \in Trans \union {NoTrans} /\ tid[t] \in Key
BY DEF TypeOK, TransactionTypeOK, ToTU, Terminated, Cmd, Command, Kinds

(* A transition that fires: what the table of its class says of the        *)
(* transaction that moves and of the queue.                                *)
LEMMA Firing ==
  ASSUME TypeOK, QueuesOK, NEW rows, NEW ends, NEW name, NEW t \in Trans,
         Table(rows, ends), Fires(rows, name, t),
         \/ name \notin ends /\ Enqueue(<<>>)
         \/ /\ name \notin ends
            /\ \E k \in Kinds : Enqueue(<<ToTU(k, t)>>)
         \/ name \in ends /\ Enqueue(<<Terminated(t)>>)
         \/ /\ name \in ends
            /\ \E k \in Kinds : Enqueue(<<ToTU(k, t), Terminated(t)>>)
  PROVE  Moves(t)
<1>1. PICK r \in rows : /\ r.name = name
                       /\ Matches(r, t, Current)
                       /\ state' = [state EXCEPT ![t] = r.to]
  BY DEF Fires
<1>2. /\ HasCommand /\ Current.dst = "transaction"
      /\ UNCHANGED <<class, tid, table, expired>>
  BY DEF Fires, Receives, Addressed
<1>3. /\ state[t] \in StateNames \ {"terminated"} /\ r.to \in StateNames
      /\ r.to = "terminated" <=> name \in ends
  BY <1>1 DEF Table, Matches
<1>4. HighRest \in Seq(Command)
  BY <1>2, CurrentCommand
<1>5. Queued(t, r.to)
  <2>1. CASE name \notin ends /\ Enqueue(<<>>)
    <3>1. Terminated(t) \in Command
      BY CommandsOK DEF Kinds
    <3> QED
      BY <1>3, <1>4, <2>1, <3>1, Enqueued DEF Queued
  <2>2. CASE name \notin ends /\ \E k \in Kinds : Enqueue(<<ToTU(k, t)>>)
    BY <1>3, <1>4, <2>2, CommandsOK, Enqueued DEF Queued
  <2>3. CASE name \in ends /\ Enqueue(<<Terminated(t)>>)
    <3>1. Terminated(t) \in Command
      BY CommandsOK DEF Kinds
    <3> QED
      BY <1>3, <1>4, <2>3, <3>1, Enqueued DEF Queued
  <2>4. CASE /\ name \in ends
             /\ \E k \in Kinds : Enqueue(<<ToTU(k, t), Terminated(t)>>)
    BY <1>3, <1>4, <2>4, CommandsOK, Enqueued DEF Queued
  <2> QED
    BY <2>1, <2>2, <2>3, <2>4
<1> QED
  BY <1>1, <1>2, <1>3, <1>5 DEF Moves

(* A send puts on the wire what it was given or drops it, and may queue    *)
(* one transport error.                                                    *)
LEMMA Sending ==
  ASSUME TypeOK, NEW p \in Packet, Send(p)
  PROVE  SendsOK
BY DEF Send, SendsOK, Packet

(* A handler that sends nothing.                                           *)
LEMMA NotSending ==
  ASSUME SendNothing
  PROVE  SendsOK
BY DEF SendNothing, SendsOK

(* Requesting and cancelling timeouts leaves requests.                     *)
LEMMA Timing ==
  ASSUME TypeOK, NEW t, NEW X, NEW Y, Timeouts(t, X, Y)
  PROVE  requests' \subseteq Request
BY DEF Timeouts, NextCopies, TypeOK, TransactionTypeOK
----------------------------------------------------------------------------
(* The handlers of the four machines, one step for each.                   *)

(* Every handler of the INVITE client transaction is a HandlerStep.        *)
LEMMA InviteClientStep ==
  ASSUME TypeOK, QueuesOK, NEW t \in Trans, IC_Next(t)
  PROVE  HandlerStep(t)
<1> DEFINE ends == {"a4", "a5", "a7", "a10", "a11"}
<1>1. Table(IC_Transitions, ends)
  BY DEF Table, IC_Transitions, Row, StateNames
<1>2. HasCommand /\ class[t] = "InviteClient" /\ UNCHANGED last
  BY DEF IC_Next, IC_Fires, Fires,
         IC_a1_calling_calling_timerA,
         IC_a2_calling_proceeding_1xx,
         IC_a3_calling_completed_resp36,
         IC_a4_calling_terminated_ErrOrTimerB,
         IC_a5_calling_terminated_2xx,
         IC_a6_proceeding_proceeding_1xx,
         IC_a7_proceeding_terminated_2xx,
         IC_a8_proceeding_completed_resp36,
         IC_a9_completed_completed_resp36,
         IC_a11_completed_terminated_timerD
<1>3. KeepsLast(t)
  BY <1>2 DEF KeepsLast, TypeOK, TransactionTypeOK
<1>4. Current.kind \in Kinds /\ "transport_error" \in Kinds
  BY <1>2, CurrentCommand DEF Command, Kinds
<1>5. Msg("INVITE", t) \in Packet /\ IC_Ack(t) \in Packet
  BY DEF Msg, IC_Ack, Packet, RequestKinds, Key, TypeOK, TransactionTypeOK
<1> HIDE DEF ends
<1>6. CASE IC_a1_calling_calling_timerA(t)
  <2>1. IC_Fires("a1", t) /\ "a1" \notin ends
    BY <1>6 DEF IC_a1_calling_calling_timerA, ends
  <2> QED
    BY <1>1, <1>3, <1>4, <1>5, <1>6, <2>1, Firing, Sending, NotSending, Timing
    DEF IC_a1_calling_calling_timerA, IC_Fires, HandlerStep
<1>7. CASE IC_a2_calling_proceeding_1xx(t)
  <2>1. IC_Fires("a2", t) /\ "a2" \notin ends
    BY <1>7 DEF IC_a2_calling_proceeding_1xx, ends
  <2> QED
    BY <1>1, <1>3, <1>4, <1>5, <1>7, <2>1, Firing, Sending, NotSending, Timing
    DEF IC_a2_calling_proceeding_1xx, IC_Fires, HandlerStep
<1>8. CASE IC_a3_calling_completed_resp36(t)
  <2>1. IC_Fires("a3", t) /\ "a3" \notin ends
    BY <1>8 DEF IC_a3_calling_completed_resp36, ends
  <2> QED
    BY <1>1, <1>3, <1>4, <1>5, <1>8, <2>1, Firing, Sending, NotSending, Timing
    DEF IC_a3_calling_completed_resp36, IC_Fires, HandlerStep
<1>9. CASE IC_a4_calling_terminated_ErrOrTimerB(t)
  <2>1. IC_Fires("a4", t) /\ "a4" \in ends
    BY <1>9 DEF IC_a4_calling_terminated_ErrOrTimerB, ends
  <2> QED
    BY <1>1, <1>3, <1>4, <1>5, <1>9, <2>1, Firing, Sending, NotSending, Timing
    DEF IC_a4_calling_terminated_ErrOrTimerB, IC_Fires, HandlerStep
<1>10. CASE IC_a5_calling_terminated_2xx(t)
  <2>1. IC_Fires("a5", t) /\ "a5" \in ends
    BY <1>10 DEF IC_a5_calling_terminated_2xx, ends
  <2> QED
    BY <1>1, <1>3, <1>4, <1>5, <1>10, <2>1, Firing, Sending, NotSending, Timing
    DEF IC_a5_calling_terminated_2xx, IC_Fires, HandlerStep
<1>11. CASE IC_a6_proceeding_proceeding_1xx(t)
  <2>1. IC_Fires("a6", t) /\ "a6" \notin ends
    BY <1>11 DEF IC_a6_proceeding_proceeding_1xx, ends
  <2> QED
    BY <1>1, <1>3, <1>4, <1>5, <1>11, <2>1, Firing, Sending, NotSending, Timing
    DEF IC_a6_proceeding_proceeding_1xx, IC_Fires, HandlerStep
<1>12. CASE IC_a7_proceeding_terminated_2xx(t)
  <2>1. IC_Fires("a7", t) /\ "a7" \in ends
    BY <1>12 DEF IC_a7_proceeding_terminated_2xx, ends
  <2> QED
    BY <1>1, <1>3, <1>4, <1>5, <1>12, <2>1, Firing, Sending, NotSending, Timing
    DEF IC_a7_proceeding_terminated_2xx, IC_Fires, HandlerStep
<1>13. CASE IC_a8_proceeding_completed_resp36(t)
  <2>1. IC_Fires("a8", t) /\ "a8" \notin ends
    BY <1>13 DEF IC_a8_proceeding_completed_resp36, ends
  <2> QED
    BY <1>1, <1>3, <1>4, <1>5, <1>13, <2>1, Firing, Sending, NotSending, Timing
    DEF IC_a8_proceeding_completed_resp36, IC_Fires, HandlerStep
<1>14. CASE IC_a9_completed_completed_resp36(t)
  <2>1. IC_Fires("a9", t) /\ "a9" \notin ends
    BY <1>14 DEF IC_a9_completed_completed_resp36, ends
  <2> QED
    BY <1>1, <1>3, <1>4, <1>5, <1>14, <2>1, Firing, Sending, NotSending, Timing
    DEF IC_a9_completed_completed_resp36, IC_Fires, HandlerStep
<1>15. CASE IC_a11_completed_terminated_timerD(t)
  <2>1. IC_Fires("a11", t) /\ "a11" \in ends
    BY <1>15 DEF IC_a11_completed_terminated_timerD, ends
  <2> QED
    BY <1>1, <1>3, <1>4, <1>5, <1>15, <2>1, Firing, Sending, NotSending, Timing
    DEF IC_a11_completed_terminated_timerD, IC_Fires, HandlerStep
<1> QED
  BY <1>6, <1>7, <1>8, <1>9, <1>10, <1>11, <1>12, <1>13, <1>14, <1>15 DEF IC_Next

(* Every handler of the non-INVITE client transaction is a HandlerStep.    *)
LEMMA NonInviteClientStep ==
  ASSUME TypeOK, QueuesOK, NEW t \in Trans, NC_Next(t)
  PROVE  HandlerStep(t)
<1> DEFINE ends == {"a2", "a6", "a9"}
<1>1. Table(NC_Transitions, ends)
  BY DEF Table, NC_Transitions, Row, StateNames
<1>2. HasCommand /\ class[t] = "NonInviteClient" /\ UNCHANGED last
  BY DEF NC_Next, NC_Fires, Fires,
         NC_a1_trying_proceeding_1xx,
         NC_a2_trying_terminated_TimerFOrErr,
         NC_a3_proceeding_completed_non1xxresp,
         NC_a4_proceeding_proceeding_timerE,
         NC_a5_proceeding_proceeding_1xx,
         NC_a6_proceeding_terminated_transperrOrTimerF,
         NC_a7_trying_completed_non1xxresp,
         NC_a8_trying_trying_timerE,
         NC_a9_completed_terminated_timerK,
         NC_a10_completed_completed_anyresp
<1>3. KeepsLast(t)
  BY <1>2 DEF KeepsLast, TypeOK, TransactionTypeOK
<1>4. Current.kind \in Kinds /\ "transport_error" \in Kinds
  BY <1>2, CurrentCommand DEF Command, Kinds
<1>5. Msg("OTHER", t) \in Packet
  BY DEF Msg, Packet, RequestKinds, TypeOK, TransactionTypeOK
<1> HIDE DEF ends
<1>6. CASE NC_a1_trying_proceeding_1xx(t)
  <2>1. NC_Fires("a1", t) /\ "a1" \notin ends
    BY <1>6 DEF NC_a1_trying_proceeding_1xx, ends
  <2> QED
    BY <1>1, <1>3, <1>4, <1>5, <1>6, <2>1, Firing, Sending, NotSending, Timing
    DEF NC_a1_trying_proceeding_1xx, NC_Fires, HandlerStep
<1>7. CASE NC_a2_trying_terminated_TimerFOrErr(t)
  <2>1. NC_Fires("a2", t) /\ "a2" \in ends
    BY <1>7 DEF NC_a2_trying_terminated_TimerFOrErr, ends
  <2> QED
    BY <1>1, <1>3, <1>4, <1>5, <1>7, <2>1, Firing, Sending, NotSending, Timing
    DEF NC_a2_trying_terminated_TimerFOrErr, NC_Fires, HandlerStep
<1>8. CASE NC_a3_proceeding_completed_non1xxresp(t)
  <2>1. NC_Fires("a3", t) /\ "a3" \notin ends
    BY <1>8 DEF NC_a3_proceeding_completed_non1xxresp, ends
  <2> QED
    BY <1>1, <1>3, <1>4, <1>5, <1>8, <2>1, Firing, Sending, NotSending, Timing
    DEF NC_a3_proceeding_completed_non1xxresp, NC_Fires, HandlerStep
<1>9. CASE NC_a4_proceeding_proceeding_timerE(t)
  <2>1. NC_Fires("a4", t) /\ "a4" \notin ends
    BY <1>9 DEF NC_a4_proceeding_proceeding_timerE, ends
  <2>2. requests' \subseteq Request
    BY <1>9 DEF NC_a4_proceeding_proceeding_timerE,
         NC_TwoTimersE, NextCopies, TypeOK, TransactionTypeOK
  <2> QED
    BY <1>1, <1>3, <1>5, <1>9, <2>1, <2>2, Firing, Sending
    DEF NC_a4_proceeding_proceeding_timerE, NC_Fires, HandlerStep
<1>10. CASE NC_a5_proceeding_proceeding_1xx(t)
  <2>1. NC_Fires("a5", t) /\ "a5" \notin ends
    BY <1>10 DEF NC_a5_proceeding_proceeding_1xx, ends
  <2> QED
    BY <1>1, <1>3, <1>4, <1>5, <1>10, <2>1, Firing, Sending, NotSending, Timing
    DEF NC_a5_proceeding_proceeding_1xx, NC_Fires, HandlerStep
<1>11. CASE NC_a6_proceeding_terminated_transperrOrTimerF(t)
  <2>1. NC_Fires("a6", t) /\ "a6" \in ends
    BY <1>11 DEF NC_a6_proceeding_terminated_transperrOrTimerF, ends
  <2> QED
    BY <1>1, <1>3, <1>4, <1>5, <1>11, <2>1, Firing, Sending, NotSending, Timing
    DEF NC_a6_proceeding_terminated_transperrOrTimerF, NC_Fires, HandlerStep
<1>12. CASE NC_a7_trying_completed_non1xxresp(t)
  <2>1. NC_Fires("a7", t) /\ "a7" \notin ends
    BY <1>12 DEF NC_a7_trying_completed_non1xxresp, ends
  <2> QED
    BY <1>1, <1>3, <1>4, <1>5, <1>12, <2>1, Firing, Sending, NotSending, Timing
    DEF NC_a7_trying_completed_non1xxresp, NC_Fires, HandlerStep
<1>13. CASE NC_a8_trying_trying_timerE(t)
  <2>1. NC_Fires("a8", t) /\ "a8" \notin ends
    BY <1>13 DEF NC_a8_trying_trying_timerE, ends
  <2> QED
    BY <1>1, <1>3, <1>4, <1>5, <1>13, <2>1, Firing, Sending, NotSending, Timing
    DEF NC_a8_trying_trying_timerE, NC_Fires, HandlerStep
<1>14. CASE NC_a9_completed_terminated_timerK(t)
  <2>1. NC_Fires("a9", t) /\ "a9" \in ends
    BY <1>14 DEF NC_a9_completed_terminated_timerK, ends
  <2> QED
    BY <1>1, <1>3, <1>4, <1>5, <1>14, <2>1, Firing, Sending, NotSending, Timing
    DEF NC_a9_completed_terminated_timerK, NC_Fires, HandlerStep
<1>15. CASE NC_a10_completed_completed_anyresp(t)
  <2>1. NC_Fires("a10", t) /\ "a10" \notin ends
    BY <1>15 DEF NC_a10_completed_completed_anyresp, ends
  <2> QED
    BY <1>1, <1>3, <1>4, <1>5, <1>15, <2>1, Firing, Sending, NotSending, Timing
    DEF NC_a10_completed_completed_anyresp, NC_Fires, HandlerStep
<1> QED
  BY <1>6, <1>7, <1>8, <1>9, <1>10, <1>11, <1>12, <1>13, <1>14, <1>15 DEF NC_Next

(* Every handler of the INVITE server transaction, UA variant included, is *)
(* a HandlerStep.                                                          *)
LEMMA InviteServerStep ==
  ASSUME TypeOK, QueuesOK, NEW t \in Trans, IS_Next(t)
  PROVE  HandlerStep(t)
<1> DEFINE ends == {"a4", "a5", "a9", "a10"}
<1>1. Table(IS_Transitions, ends) /\ Table(ISUA_Transitions, ends)
  BY DEF Table, IS_Transitions, ISUA_Transitions, IS_Common, Row, StateNames
<1>2. HasCommand /\ class[t] # "NonInviteServer"
  BY DEF IS_Next, IS_Fires, Fires,
         IS_a1_proceeding_proceeding_INVITE,
         IS_a2_proceeding_proceeding_1xx,
         IS_a3_proceeding_completed_resp36,
         IS_a4_proceeding_terminated_err,
         IS_a5_proceeding_terminated_2xx,
         IS_a6_completed_completed_INVITE,
         IS_a7_completed_confirmed_ACK,
         IS_a8_completed_completed_timerG,
         IS_a9_completed_terminated_errOrTimerH,
         IS_a10_confirmed_terminated_timerI,
         ISUA_a1001_proceeding_completed_2xx
<1>3. /\ UNCHANGED last => KeepsLast(t)
      /\ \A k \in Responses : last' = [last EXCEPT ![t] = k] => KeepsLast(t)
  BY <1>2 DEF KeepsLast, TypeOK, TransactionTypeOK
<1>4. Current.kind \in Kinds /\ "transport_error" \in Kinds
  BY <1>2, CurrentCommand DEF Command, Kinds
<1>5. \A k \in Responses : Msg(k, t) \in Packet
  BY DEF Msg, Packet, TypeOK, TransactionTypeOK
<1>6. SendLast(t) => SendsOK
  BY <1>5, Sending, NotSending DEF SendLast, TypeOK, TransactionTypeOK
<1>7. \A rows \in {IS_Transitions, ISUA_Transitions} :
        \A r \in rows :
          r.name \in {"a2", "a3", "a5", "a1001"} => r.kinds \subseteq Responses
  BY DEF IS_Transitions, ISUA_Transitions, IS_Common, Row, Responses, Finals
<1>8. \A name \in {"a2", "a3", "a5", "a1001"} :
        IS_Fires(name, t) => Current.kind \in Responses
  BY <1>7 DEF IS_Fires, Fires, Matches
<1> HIDE DEF ends
<1>9. CASE IS_a1_proceeding_proceeding_INVITE(t)
  <2>1. IS_Fires("a1", t) /\ "a1" \notin ends
    BY <1>9 DEF IS_a1_proceeding_proceeding_INVITE, ends
  <2> QED
    BY <1>1, <1>3, <1>4, <1>5, <1>6, <1>9, <2>1, Firing, Sending,
       NotSending, Timing
    DEF IS_a1_proceeding_proceeding_INVITE, IS_Fires, HandlerStep
<1>10. CASE IS_a2_proceeding_proceeding_1xx(t)
  <2>1. IS_Fires("a2", t) /\ "a2" \notin ends
    BY <1>10 DEF IS_a2_proceeding_proceeding_1xx, ends
  <2>2. Current.kind \in Responses
    BY <1>8, <2>1
  <2> QED
    BY <1>1, <1>3, <1>4, <1>5, <1>6, <1>10, <2>1, <2>2, Firing, Sending,
       NotSending, Timing
    DEF IS_a2_proceeding_proceeding_1xx, IS_Fires, HandlerStep
<1>11. CASE IS_a3_proceeding_completed_resp36(t)
  <2>1. IS_Fires("a3", t) /\ "a3" \notin ends
    BY <1>11 DEF IS_a3_proceeding_completed_resp36, ends
  <2>2. Current.kind \in Responses
    BY <1>8, <2>1
  <2> QED
    BY <1>1, <1>3, <1>4, <1>5, <1>6, <1>11, <2>1, <2>2, Firing, Sending,
       NotSending, Timing
    DEF IS_a3_proceeding_completed_resp36, IS_Fires, HandlerStep
<1>12. CASE IS_a4_proceeding_terminated_err(t)
  <2>1. IS_Fires("a4", t) /\ "a4" \in ends
    BY <1>12 DEF IS_a4_proceeding_terminated_err, ends
  <2> QED
    BY <1>1, <1>3, <1>4, <1>5, <1>6, <1>12, <2>1, Firing, Sending,
       NotSending, Timing
    DEF IS_a4_proceeding_terminated_err, IS_Fires, HandlerStep
<1>13. CASE IS_a5_proceeding_terminated_2xx(t)
  <2>1. IS_Fires("a5", t) /\ "a5" \in ends
    BY <1>13 DEF IS_a5_proceeding_terminated_2xx, ends
  <2>2. Current.kind \in Responses
    BY <1>8, <2>1
  <2> QED
    BY <1>1, <1>3, <1>4, <1>5, <1>6, <1>13, <2>1, <2>2, Firing, Sending,
       NotSending, Timing
    DEF IS_a5_proceeding_terminated_2xx, IS_Fires, HandlerStep
<1>14. CASE IS_a6_completed_completed_INVITE(t)
  <2>1. IS_Fires("a6", t) /\ "a6" \notin ends
    BY <1>14 DEF IS_a6_completed_completed_INVITE, ends
  <2> QED
    BY <1>1, <1>3, <1>4, <1>5, <1>6, <1>14, <2>1, Firing, Sending,
       NotSending, Timing
    DEF IS_a6_completed_completed_INVITE, IS_Fires, HandlerStep
<1>15. CASE IS_a7_completed_confirmed_ACK(t)
  <2>1. IS_Fires("a7", t) /\ "a7" \notin ends
    BY <1>15 DEF IS_a7_completed_confirmed_ACK, ends
  <2> QED
    BY <1>1, <1>3, <1>4, <1>5, <1>6, <1>15, <2>1, Firing, Sending,
       NotSending, Timing
    DEF IS_a7_completed_confirmed_ACK, IS_Fires, HandlerStep
<1>16. CASE IS_a8_completed_completed_timerG(t)
  <2>1. IS_Fires("a8", t) /\ "a8" \notin ends
    BY <1>16 DEF IS_a8_completed_completed_timerG, ends
  <2> QED
    BY <1>1, <1>3, <1>4, <1>5, <1>6, <1>16, <2>1, Firing, Sending,
       NotSending, Timing
    DEF IS_a8_completed_completed_timerG, IS_Fires, HandlerStep
<1>17. CASE IS_a9_completed_terminated_errOrTimerH(t)
  <2>1. IS_Fires("a9", t) /\ "a9" \in ends
    BY <1>17 DEF IS_a9_completed_terminated_errOrTimerH, ends
  <2> QED
    BY <1>1, <1>3, <1>4, <1>5, <1>6, <1>17, <2>1, Firing, Sending,
       NotSending, Timing
    DEF IS_a9_completed_terminated_errOrTimerH, IS_Fires, HandlerStep
<1>18. CASE IS_a10_confirmed_terminated_timerI(t)
  <2>1. IS_Fires("a10", t) /\ "a10" \in ends
    BY <1>18 DEF IS_a10_confirmed_terminated_timerI, ends
  <2> QED
    BY <1>1, <1>3, <1>4, <1>5, <1>6, <1>18, <2>1, Firing, Sending,
       NotSending, Timing
    DEF IS_a10_confirmed_terminated_timerI, IS_Fires, HandlerStep
<1>19. CASE ISUA_a1001_proceeding_completed_2xx(t)
  <2>1. IS_Fires("a1001", t) /\ "a1001" \notin ends
    BY <1>19 DEF ISUA_a1001_proceeding_completed_2xx, ends
  <2>2. Current.kind \in Responses
    BY <1>8, <2>1
  <2> QED
    BY <1>1, <1>3, <1>4, <1>5, <1>6, <1>19, <2>1, <2>2, Firing, Sending,
       NotSending, Timing
    DEF ISUA_a1001_proceeding_completed_2xx, IS_Fires, HandlerStep
<1> QED
  BY <1>9, <1>10, <1>11, <1>12, <1>13, <1>14,
     <1>15, <1>16, <1>17, <1>18, <1>19 DEF IS_Next

(* Every handler of the non-INVITE server transaction is a HandlerStep,    *)
(* and keeps the response it may have to send again.                       *)
LEMMA NonInviteServerStep ==
  ASSUME TypeOK, QueuesOK, LastOK, NEW t \in Trans, NS_Next(t)
  PROVE  HandlerStep(t)
<1> DEFINE ends == {"a6", "a8", "a9"}
<1>1. Table(NS_Transitions, ends)
  BY DEF Table, NS_Transitions, Row, StateNames
<1>2. HasCommand /\ class[t] = "NonInviteServer"
  BY DEF NS_Next, NS_Fires, Fires,
         NS_a1_trying_proceeding_1xx,
         NS_a2_trying_completed_non1xxresp,
         NS_a3_proceeding_completed_non1xxresp,
         NS_a4_proceeding_proceeding_request,
         NS_a5_proceeding_proceeding_1xx,
         NS_a6_proceeding_terminated_transperr,
         NS_a7_completed_completed_request,
         NS_a8_completed_terminated_transperr,
         NS_a9_completed_terminated_timerJ
<1>3. /\ \A k \in Responses : last' = [last EXCEPT ![t] = k] => KeepsLast(t)
      /\ UNCHANGED last /\ last[t] \in Responses => KeepsLast(t)
      /\ UNCHANGED last /\ state'[t] = "terminated" => KeepsLast(t)
  BY <1>2 DEF KeepsLast, TypeOK, TransactionTypeOK
<1>4. Current.kind \in Kinds /\ "transport_error" \in Kinds
  BY <1>2, CurrentCommand DEF Command, Kinds
<1>5. \A k \in Responses : Msg(k, t) \in Packet
  BY DEF Msg, Packet, TypeOK, TransactionTypeOK
<1>6. \A r \in NS_Transitions :
        /\ r.name \in {"a1", "a2", "a3", "a5"} => r.kinds \subseteq Responses
        /\ r.name \in {"a4", "a7"} => r.from \in {"proceeding", "completed"}
        /\ r.name \in ends => r.to = "terminated"
  BY DEF NS_Transitions, Row, Responses, Finals
<1>7. /\ \A name \in {"a1", "a2", "a3", "a5"} :
           NS_Fires(name, t) => Current.kind \in Responses
      /\ \A name \in {"a4", "a7"} : NS_Fires(name, t) => last[t] \in Responses
      /\ \A name \in ends : NS_Fires(name, t) => state'[t] = "terminated"
  BY <1>6 DEF NS_Fires, Fires, Matches, LastOK, TypeOK, TransactionTypeOK
<1> HIDE DEF ends
<1>8. CASE NS_a1_trying_proceeding_1xx(t)
  <2>1. NS_Fires("a1", t) /\ "a1" \notin ends
    BY <1>8 DEF NS_a1_trying_proceeding_1xx, ends
  <2>2. Current.kind \in Responses
    BY <1>7, <2>1
  <2> QED
    BY <1>1, <1>3, <1>4, <1>5, <1>8, <2>1, <2>2, Firing, Sending,
       NotSending, Timing
    DEF NS_a1_trying_proceeding_1xx, NS_Answer, NS_Fires,
        HandlerStep
<1>9. CASE NS_a2_trying_completed_non1xxresp(t)
  <2>1. NS_Fires("a2", t) /\ "a2" \notin ends
    BY <1>9 DEF NS_a2_trying_completed_non1xxresp, ends
  <2>2. Current.kind \in Responses
    BY <1>7, <2>1
  <2> QED
    BY <1>1, <1>3, <1>4, <1>5, <1>9, <2>1, <2>2, Firing, Sending,
       NotSending, Timing
    DEF NS_a2_trying_completed_non1xxresp, NS_Answer, NS_Fires,
        HandlerStep
<1>10. CASE NS_a3_proceeding_completed_non1xxresp(t)
  <2>1. NS_Fires("a3", t) /\ "a3" \notin ends
    BY <1>10 DEF NS_a3_proceeding_completed_non1xxresp, ends
  <2>2. Current.kind \in Responses
    BY <1>7, <2>1
  <2> QED
    BY <1>1, <1>3, <1>4, <1>5, <1>10, <2>1, <2>2, Firing, Sending,
       NotSending, Timing
    DEF NS_a3_proceeding_completed_non1xxresp, NS_Answer, NS_Fires,
        HandlerStep
<1>11. CASE NS_a4_proceeding_proceeding_request(t)
  <2>1. NS_Fires("a4", t) /\ "a4" \notin ends
    BY <1>11 DEF NS_a4_proceeding_proceeding_request, ends
  <2>2. last[t] \in Responses
    BY <1>7, <2>1
  <2> QED
    BY <1>1, <1>3, <1>4, <1>5, <1>11, <2>1, <2>2, Firing, Sending,
       NotSending, Timing
    DEF NS_a4_proceeding_proceeding_request, NS_Fires,
        HandlerStep
<1>12. CASE NS_a5_proceeding_proceeding_1xx(t)
  <2>1. NS_Fires("a5", t) /\ "a5" \notin ends
    BY <1>12 DEF NS_a5_proceeding_proceeding_1xx, ends
  <2>2. Current.kind \in Responses
    BY <1>7, <2>1
  <2> QED
    BY <1>1, <1>3, <1>4, <1>5, <1>12, <2>1, <2>2, Firing, Sending,
       NotSending, Timing
    DEF NS_a5_proceeding_proceeding_1xx, NS_Answer, NS_Fires,
        HandlerStep
<1>13. CASE NS_a6_proceeding_terminated_transperr(t)
  <2>1. NS_Fires("a6", t) /\ "a6" \in ends
    BY <1>13 DEF NS_a6_proceeding_terminated_transperr, ends
  <2>2. state'[t] = "terminated"
    BY <1>7, <2>1
  <2> QED
    BY <1>1, <1>3, <1>4, <1>5, <1>13, <2>1, <2>2, Firing, Sending,
       NotSending, Timing
    DEF NS_a6_proceeding_terminated_transperr, NS_Fires,
        HandlerStep
<1>14. CASE NS_a7_completed_completed_request(t)
  <2>1. NS_Fires("a7", t) /\ "a7" \notin ends
    BY <1>14 DEF NS_a7_completed_completed_request, ends
  <2>2. last[t] \in Responses
    BY <1>7, <2>1
  <2> QED
    BY <1>1, <1>3, <1>4, <1>5, <1>14, <2>1, <2>2, Firing, Sending,
       NotSending, Timing
    DEF NS_a7_completed_completed_request, NS_Fires,
        HandlerStep
<1>15. CASE NS_a8_completed_terminated_transperr(t)
  <2>1. NS_Fires("a8", t) /\ "a8" \in ends
    BY <1>15 DEF NS_a8_completed_terminated_transperr, ends
  <2>2. state'[t] = "terminated"
    BY <1>7, <2>1
  <2> QED
    BY <1>1, <1>3, <1>4, <1>5, <1>15, <2>1, <2>2, Firing, Sending,
       NotSending, Timing
    DEF NS_a8_completed_terminated_transperr, NS_Fires,
        HandlerStep
<1>16. CASE NS_a9_completed_terminated_timerJ(t)
  <2>1. NS_Fires("a9", t) /\ "a9" \in ends
    BY <1>16 DEF NS_a9_completed_terminated_timerJ, ends
  <2>2. state'[t] = "terminated"
    BY <1>7, <2>1
  <2> QED
    BY <1>1, <1>3, <1>4, <1>5, <1>16, <2>1, <2>2, Firing, Sending,
       NotSending, Timing
    DEF NS_a9_completed_terminated_timerJ, NS_Fires,
        HandlerStep
<1> QED
  BY <1>8, <1>9, <1>10, <1>11, <1>12, <1>13,
     <1>14, <1>15, <1>16 DEF NS_Next

----------------------------------------------------------------------------
(* Every step keeps the inductive invariant.                               *)

(* What a step that queues as a handler does leaves in the high priority   *)
(* queue: no request of the TU is added, and an announcement only of t.    *)
LEMMA QueuedHolds ==
  ASSUME IInv, HasCommand, Current.dst = "transaction",
         NEW t \in Trans, NEW s, Queued(t, s), NEW k \in Key
  PROVE  /\ hiq' \in Seq(Command) /\ hiq' \in Seq(HighCommands)
         /\ In(hiq', ReqCmds(k)) => In(HighRest, ReqCmds(k))
         /\ AtMostOnce(hiq, ReqCmds(k)) => AtMostOnce(hiq', ReqCmds(k))
         /\ In(hiq', TermCmds(k))
              <=> In(hiq, TermCmds(k)) \/ (s = "terminated" /\ tid[t] = k)
         /\ /\ AtMostOnce(hiq, TermCmds(k))
            /\ s = "terminated" /\ tid[t] = k => ~In(hiq, TermCmds(k))
            => AtMostOnce(hiq', TermCmds(k))
<1>1. TypeOK /\ QueuesOK
  BY DEF IInv
<1>2. /\ HighRest \in Seq(Command) /\ HighRest \in Seq(HighCommands)
      /\ Current \notin TermCmds(k)
  BY <1>1, CurrentCommand DEF TermCmds
<1>3. /\ In(hiq, TermCmds(k)) <=> In(HighRest, TermCmds(k))
      /\ AtMostOnce(hiq, TermCmds(k)) => AtMostOnce(HighRest, TermCmds(k))
      /\ AtMostOnce(hiq, ReqCmds(k)) => AtMostOnce(HighRest, ReqCmds(k))
  BY <1>1, <1>2, HighRestHolds
<1>4. \A x \in Kinds :
        /\ ToTU(x, t) \in Command /\ ToTU(x, t) \in HighCommands
        /\ ToTU(x, t) \notin ReqCmds(k) /\ ToTU(x, t) \notin TermCmds(k)
  BY <1>1, CommandsOK DEF ToTU, Cmd, HighCommands, ReqCmds, TermCmds
<1>5. /\ Terminated(t) \in Command /\ Terminated(t) \in HighCommands
      /\ Terminated(t) \notin ReqCmds(k)
      /\ Terminated(t) \in TermCmds(k) <=> tid[t] = k
  BY <1>1, CommandsOK DEF Terminated, Cmd, HighCommands, ReqCmds, TermCmds, Kinds
<1>6. \A q \in Seq(HighCommands), c \in HighCommands : Append(q, c) \in Seq(HighCommands)
  OBVIOUS
<1>7. CASE s # "terminated" /\ hiq' = HighRest
  BY <1>2, <1>3, <1>7
<1>8. CASE s # "terminated" /\ \E x \in Kinds : hiq' = Append(HighRest, ToTU(x, t))
  <2>1. PICK x \in Kinds : hiq' = Append(HighRest, ToTU(x, t))
    BY <1>8
  <2> QED
    BY <1>2, <1>3, <1>4, <1>6, <1>8, <2>1, InAppend
<1>9. CASE s = "terminated" /\ hiq' = Append(HighRest, Terminated(t))
  BY <1>2, <1>3, <1>5, <1>6, <1>9, InAppend
<1>10. CASE /\ s = "terminated"
            /\ \E x \in Kinds :
                 hiq' = Append(Append(HighRest, ToTU(x, t)), Terminated(t))
  <2>1. PICK x \in Kinds :
          hiq' = Append(Append(HighRest, ToTU(x, t)), Terminated(t))
    BY <1>10
  <2> DEFINE q == Append(HighRest, ToTU(x, t))
  <2>2. /\ q \in Seq(Command) /\ q \in Seq(HighCommands)
        /\ In(q, TermCmds(k)) <=> In(HighRest, TermCmds(k))
        /\ In(q, ReqCmds(k)) <=> In(HighRest, ReqCmds(k))
        /\ AtMostOnce(q, TermCmds(k)) <=> AtMostOnce(HighRest, TermCmds(k))
        /\ AtMostOnce(q, ReqCmds(k)) <=> AtMostOnce(HighRest, ReqCmds(k))
    BY <1>2, <1>4, <1>6, InAppend
  <2>3. hiq' = Append(q, Terminated(t))
    BY <2>1
  <2> HIDE DEF q
  <2> QED
    BY <1>2, <1>3, <1>5, <1>6, <1>10, <2>2, <2>3, InAppend
<1> QED
  BY <1>7, <1>8, <1>9, <1>10 DEF Queued

(* A step of a transaction's handler keeps the invariant.                  *)
LEMMA HandlerKeepsIInv ==
  ASSUME IInv, NEW t \in Trans, HandlerStep(t), UNCHANGED <<asked, told>>
  PROVE  IInv'
<1>1. /\ HasCommand /\ Current.dst = "transaction"
      /\ UNCHANGED <<class, tid, table, expired>>
      /\ state[t] \in StateNames \ {"terminated"}
  BY DEF HandlerStep, Moves
<1>2. PICK s \in StateNames : state' = [state EXCEPT ![t] = s] /\ Queued(t, s)
  BY DEF HandlerStep, Moves
<1>3. TypeOK /\ LastOK /\ ObjectsOK /\ TableOK /\ AnnouncedOK /\ QueuesOK /\ LocalOK
  BY DEF IInv
<1>4. /\ state \in [Trans -> StateNames \union {"unborn", "freed"}]
      /\ tid \in [Trans -> Key] /\ table \in [Key -> Trans \union {NoTrans}]
      /\ state'[t] = s
      /\ \A u \in Trans : u # t => state'[u] = state[u]
      /\ NoTrans \notin Trans
  BY <1>2, <1>3, TransAssumption DEF TypeOK, TransactionTypeOK
<1>5. PICK k0 \in Key : TRUE
  BY <1>4
<1>6. LowRest \in Seq(Command) /\ LowRest \in Seq(LowCommands)
  BY <1>1, <1>3, CurrentCommand
<1>7. TypeOK'
  <2>1. hiq' \in Seq(Command)
    BY <1>1, <1>2, <1>5, QueuedHolds
  <2>2. \A k \in Key : TransportError(k) \in Command
    BY DEF TransportError, Cmd, Command, Kinds
  <2>3. loq' \in Seq(Command)
    BY <1>6, <2>2 DEF HandlerStep, SendsOK
  <2> QED
    BY <1>1, <1>2, <1>3, <1>4, <2>1, <2>3
    DEF TypeOK, TransactionTypeOK, HandlerStep, SendsOK, KeepsLast
<1>8. LastOK'
  BY <1>1, <1>3, <1>4 DEF LastOK, HandlerStep, KeepsLast
<1>9. ObjectsOK'
  BY <1>1, <1>3, <1>4 DEF ObjectsOK, StateNames
<1>10. TableOK'
  BY <1>1, <1>3, <1>4 DEF TableOK
<1>11. AnnouncedOK'
  <2> SUFFICES ASSUME NEW k \in Key, table[k] # NoTrans,
                      state'[table[k]] = "terminated"
               PROVE  In(hiq', TermCmds(k))
    BY <1>1 DEF AnnouncedOK, TermCmds
  <2>1. In(hiq, TermCmds(k)) \/ (s = "terminated" /\ tid[t] = k)
    BY <1>3, <1>4 DEF AnnouncedOK, TableOK
  <2> QED
    BY <1>1, <1>2, <2>1, QueuedHolds
<1>12. QueuesOK'
  <2>1. hiq' \in Seq(HighCommands)
    BY <1>1, <1>2, <1>5, QueuedHolds
  <2>2. \A k \in Key : TransportError(k) \in LowCommands
    BY DEF TransportError, Cmd, Command, Kinds, LowCommands, IsRequest, RequestKinds
  <2>3. loq' \in Seq(LowCommands)
    BY <1>6, <2>2 DEF HandlerStep, SendsOK
  <2> QED
    BY <2>1, <2>3 DEF QueuesOK, HighCommands, LowCommands
<1>13. LocalOK'
  <2> SUFFICES ASSUME NEW k \in LocalKeys
               PROVE  /\ In(hiq', ReqCmds(k)) => \A u \in Trans : class[u] # "none" => tid[u] # k
                      /\ AtMostOnce(hiq', ReqCmds(k))
                      /\ \A u \in Trans : state'[u] \in StateNames /\ tid[u] = k => table[k] = u
                      /\ In(hiq', TermCmds(k)) => table[k] # NoTrans /\ state'[table[k]] = "terminated"
                      /\ AtMostOnce(hiq', TermCmds(k))
    BY <1>1 DEF LocalOK, TermCmds, ReqCmds, LocalKeys
  <2>0. k \in Key
    BY DEF LocalKeys
  <2>1. /\ In(hiq, ReqCmds(k)) => \A u \in Trans : class[u] # "none" => tid[u] # k
        /\ AtMostOnce(hiq, ReqCmds(k))
        /\ \A u \in Trans : state[u] \in StateNames /\ tid[u] = k => table[k] = u
        /\ In(hiq, TermCmds(k)) => table[k] # NoTrans /\ state[table[k]] = "terminated"
        /\ AtMostOnce(hiq, TermCmds(k))
    BY <1>3 DEF LocalOK
  <2>2. In(HighRest, ReqCmds(k)) => In(hiq, ReqCmds(k))
    BY <1>1, <1>3, HighRestHolds
  <2>3. tid[t] = k => ~In(hiq, TermCmds(k))
    BY <1>1, <1>4, <2>1
  <2>4. In(hiq', TermCmds(k)) => table[k] # NoTrans /\ state'[table[k]] = "terminated"
    <3>1. CASE In(hiq, TermCmds(k))
      BY <1>1, <1>4, <2>0, <2>1, <3>1
    <3>2. CASE s = "terminated" /\ tid[t] = k
      BY <1>1, <1>4, <2>0, <2>1, <3>2
    <3> QED
      BY <1>1, <1>2, <2>0, <3>1, <3>2, QueuedHolds
  <2>5. AtMostOnce(hiq', TermCmds(k))
    BY <1>1, <1>2, <2>0, <2>1, <2>3, QueuedHolds
  <2> QED
    BY <1>1, <1>2, <1>4, <2>0, <2>1, <2>2, <2>4, <2>5, QueuedHolds
<1> QED
  BY <1>7, <1>8, <1>9, <1>10, <1>11, <1>12, <1>13 DEF IInv

(* A new transaction for the current request: for a request of the TU it   *)
(* is the first and only one under its key, and the network has no request *)
(* with a key of this stack.                                               *)
CreateStep(t, cls, to) ==
  /\ Create(t, cls, to) /\ state[t] = "unborn"
  /\ cls \in Classes /\ to \in StateNames \ {"terminated"}
  /\ cls = "NonInviteServer" => to = "trying"
  /\ Current.src \in {"dialog", "transport"}
  /\ \/ hiq' = HighRest
     \/ hiq' = Append(HighRest, Cmd("transaction", "dialog", Current.kind, Current.key))
  /\ SendsOK /\ requests' \subseteq Request

(* The creation of a transaction for a request keeps the invariant.        *)
LEMMA CreateKeepsIInv ==
  ASSUME IInv, NEW t \in Trans, NEW cls, NEW to, CreateStep(t, cls, to),
         UNCHANGED <<asked, told>>
  PROVE  IInv'
<1> DEFINE k0 == Current.key
           note == Cmd("transaction", "dialog", Current.kind, Current.key)
<1>1. TypeOK /\ LastOK /\ ObjectsOK /\ TableOK /\ AnnouncedOK /\ QueuesOK /\ LocalOK
  BY DEF IInv
<1>2. /\ HasCommand /\ Current.dst = "transaction" /\ IsRequest(Current)
      /\ class' = [class EXCEPT ![t] = cls] /\ tid' = [tid EXCEPT ![t] = k0]
      /\ state' = [state EXCEPT ![t] = to] /\ table' = [table EXCEPT ![k0] = t]
      /\ UNCHANGED <<last, expired>>
      /\ state[t] = "unborn" /\ cls \in Classes /\ to \in StateNames \ {"terminated"}
      /\ Current.src \in {"dialog", "transport"}
  BY DEF CreateStep, Create
<1>3. /\ Current \in Command /\ k0 \in Key
      /\ HighRest \in Seq(Command) /\ HighRest \in Seq(HighCommands)
      /\ LowRest \in Seq(Command) /\ LowRest \in Seq(LowCommands)
      /\ note \in Command /\ note \in HighCommands
  BY <1>1, <1>2, CurrentCommand DEF Command, HighCommands, Cmd
<1>4. /\ state \in [Trans -> StateNames \union {"unborn", "freed"}]
      /\ class \in [Trans -> Classes \union {"none"}]
      /\ tid \in [Trans -> Key] /\ table \in [Key -> Trans \union {NoTrans}]
      /\ NoTrans \notin Trans
  BY <1>1, TransAssumption DEF TypeOK, TransactionTypeOK
<1>5. /\ state'[t] = to /\ class'[t] = cls /\ tid'[t] = k0 /\ table'[k0] = t
      /\ \A u \in Trans : u # t =>
           state'[u] = state[u] /\ class'[u] = class[u] /\ tid'[u] = tid[u]
      /\ \A k \in Key : k # k0 => table'[k] = table[k]
      /\ \A k \in Key : table[k] # t
      /\ class[t] = "none"
  <2>1. \A k \in Key : table[k] # t
    BY <1>1, <1>2, <1>4 DEF TableOK, StateNames
  <2>2. class[t] = "none"
    BY <1>1, <1>2 DEF ObjectsOK
  <2> QED
    BY <1>2, <1>3, <1>4, <2>1, <2>2
<1>6. hiq' = HighRest \/ hiq' = Append(HighRest, note)
  BY DEF CreateStep
<1> HIDE DEF k0, note
<1>7. /\ hiq' \in Seq(Command) /\ hiq' \in Seq(HighCommands)
      /\ loq' \in Seq(Command) /\ loq' \in Seq(LowCommands)
  <2>1. \A k \in Key : TransportError(k) \in Command /\ TransportError(k) \in LowCommands
    BY DEF TransportError, Cmd, Command, Kinds, LowCommands, IsRequest, RequestKinds
  <2>2. \A c \in Command : c \in HighCommands => Append(HighRest, c) \in Seq(HighCommands)
    BY <1>3
  <2>3. \A c \in Command : Append(HighRest, c) \in Seq(Command)
    BY <1>3
  <2>4. loq' = LowRest \/ \E k \in Key : loq' = Append(LowRest, TransportError(k))
    BY DEF CreateStep, SendsOK
  <2>5. loq' \in Seq(Command) /\ loq' \in Seq(LowCommands)
    BY <1>3, <2>1, <2>4
  <2> QED
    BY <1>3, <1>6, <2>2, <2>3, <2>5
<1>8. ASSUME NEW k \in Key
      PROVE  /\ In(hiq', TermCmds(k)) <=> In(hiq, TermCmds(k))
             /\ In(hiq', ReqCmds(k)) <=> In(HighRest, ReqCmds(k))
             /\ AtMostOnce(hiq, TermCmds(k)) => AtMostOnce(hiq', TermCmds(k))
             /\ AtMostOnce(hiq, ReqCmds(k)) => AtMostOnce(hiq', ReqCmds(k))
  <2>1. /\ note \notin TermCmds(k) /\ note \notin ReqCmds(k)
        /\ Current \notin TermCmds(k)
    BY <1>2 DEF note, Cmd, TermCmds, ReqCmds
  <2>2. /\ In(hiq', TermCmds(k)) <=> In(HighRest, TermCmds(k))
        /\ In(hiq', ReqCmds(k)) <=> In(HighRest, ReqCmds(k))
        /\ AtMostOnce(hiq', TermCmds(k)) <=> AtMostOnce(HighRest, TermCmds(k))
        /\ AtMostOnce(hiq', ReqCmds(k)) <=> AtMostOnce(HighRest, ReqCmds(k))
    <3>1. CASE hiq' = HighRest
      BY <3>1
    <3>2. CASE hiq' = Append(HighRest, note)
      BY <1>3, <2>1, <3>2, InAppend
    <3> QED
      BY <1>6, <3>1, <3>2
  <2>3. /\ In(HighRest, TermCmds(k)) <=> In(hiq, TermCmds(k))
        /\ AtMostOnce(hiq, TermCmds(k)) => AtMostOnce(HighRest, TermCmds(k))
        /\ AtMostOnce(hiq, ReqCmds(k)) => AtMostOnce(HighRest, ReqCmds(k))
    BY <1>1, <1>2, <2>1, HighRestHolds
  <2> QED
    BY <2>2, <2>3
<1>9. TypeOK'
  BY <1>1, <1>2, <1>3, <1>7 DEF TypeOK, TransactionTypeOK, CreateStep, SendsOK
<1>10. LastOK'
  BY <1>1, <1>2, <1>5 DEF LastOK, CreateStep
<1>11. ObjectsOK'
  BY <1>1, <1>2, <1>5 DEF ObjectsOK, Classes, StateNames
<1>12. TableOK'
  BY <1>1, <1>2, <1>4, <1>5 DEF TableOK
<1>13. AnnouncedOK'
  <2> SUFFICES ASSUME NEW k \in Key, table'[k] # NoTrans,
                      state'[table'[k]] = "terminated"
               PROVE  In(hiq', TermCmds(k))
    BY DEF AnnouncedOK, TermCmds
  <2> QED
    BY <1>1, <1>2, <1>4, <1>5, <1>8 DEF AnnouncedOK
<1>14. QueuesOK'
  BY <1>7 DEF QueuesOK, HighCommands, LowCommands
<1>15. LocalOK'
  <2> SUFFICES ASSUME NEW k \in LocalKeys
               PROVE  /\ In(hiq', ReqCmds(k)) => \A u \in Trans : class'[u] # "none" => tid'[u] # k
                      /\ AtMostOnce(hiq', ReqCmds(k))
                      /\ \A u \in Trans : state'[u] \in StateNames /\ tid'[u] = k => table'[k] = u
                      /\ In(hiq', TermCmds(k)) => table'[k] # NoTrans /\ state'[table'[k]] = "terminated"
                      /\ AtMostOnce(hiq', TermCmds(k))
    BY DEF LocalOK, TermCmds, ReqCmds, LocalKeys
  <2>0. k \in Key
    BY DEF LocalKeys
  <2>1. /\ In(hiq, ReqCmds(k)) => \A u \in Trans : class[u] # "none" => tid[u] # k
        /\ AtMostOnce(hiq, ReqCmds(k))
        /\ \A u \in Trans : state[u] \in StateNames /\ tid[u] = k => table[k] = u
        /\ In(hiq, TermCmds(k)) => table[k] # NoTrans /\ state[table[k]] = "terminated"
        /\ AtMostOnce(hiq, TermCmds(k))
    BY <1>1 DEF LocalOK
  <2>2. In(HighRest, ReqCmds(k)) => In(hiq, ReqCmds(k))
    BY <1>1, <1>2, HighRestHolds
  <2>3. AtMostOnce(hiq', ReqCmds(k)) /\ AtMostOnce(hiq', TermCmds(k))
    BY <1>8, <2>0, <2>1
  <2>4. CASE k # k0
    BY <1>2, <1>4, <1>5, <1>8, <2>0, <2>1, <2>2, <2>3, <2>4
  <2>5. CASE k = k0
    <3>1. TakesHigh /\ Current \in ReqCmds(k)
      BY <1>1, <1>2, <1>3, <2>5, CurrentCommand
      DEF HighCommands, LowCommands, ReqCmds, LocalKeys, k0
    <3>2. In(hiq, ReqCmds(k)) /\ ~In(HighRest, ReqCmds(k))
      BY <1>1, <1>2, <2>1, <3>1, HighRestHolds
    <3>3. \A u \in Trans : class[u] # "none" => tid[u] # k
      BY <2>1, <3>2
    <3>4. table[k] = NoTrans
      BY <1>1, <1>4, <2>0, <3>3 DEF TableOK, ObjectsOK, StateNames
    <3>5. \A u \in Trans : state'[u] \in StateNames /\ tid'[u] = k => table'[k] = u
      BY <1>1, <1>5, <2>5, <3>3 DEF ObjectsOK, StateNames
    <3> QED
      BY <1>8, <2>0, <2>1, <2>3, <3>2, <3>4, <3>5
  <2> QED
    BY <2>4, <2>5
<1> QED
  BY <1>9, <1>10, <1>11, <1>12, <1>13, <1>14, <1>15 DEF IInv

(* defaultCommandHandler, which creates a transaction of one of the four   *)
(* classes, keeps the invariant.                                           *)
LEMMA DefaultKeepsIInv ==
  ASSUME IInv, Default, UNCHANGED <<asked, told>>
  PROVE  IInv'
<1>1. TypeOK /\ QueuesOK
  BY DEF IInv
<1>2. Fresh \in Trans /\ state[Fresh] = "unborn"
  BY DEF Default, Fresh, Unborn
<1>3. /\ HasCommand /\ HighRest \in Seq(Command)
      /\ Current \in Command
      /\ Cmd("transaction", "dialog", Current.kind, Current.key) \in Command
  BY <1>1, CurrentCommand DEF Default, Cmd, Command
<1>4. /\ Enqueue(<<>>) => hiq' = HighRest
      /\ LET note == Cmd("transaction", "dialog", Current.kind, Current.key)
         IN  Enqueue(<<note>>) => hiq' = Append(HighRest, note)
  BY <1>3, Enqueued
<1>5. \A m \in RequestKinds : [kind |-> m, key |-> Current.key] \in Packet
  BY <1>3 DEF Packet, Command
<1>6. CASE IC_a0_start_calling_INVITE(Fresh)
  <2>1. CreateStep(Fresh, "InviteClient", "calling")
    BY <1>1, <1>2, <1>4, <1>5, <1>6, Sending, Timing
    DEF IC_a0_start_calling_INVITE, CreateStep, Classes, StateNames, RequestKinds
  <2> QED
    BY <1>2, <2>1, CreateKeepsIInv
<1>7. CASE NC_a0_start_trying_request(Fresh)
  <2>1. CreateStep(Fresh, "NonInviteClient", "trying")
    BY <1>1, <1>2, <1>4, <1>5, <1>7, Sending, Timing
    DEF NC_a0_start_trying_request, CreateStep, Classes, StateNames, RequestKinds
  <2> QED
    BY <1>2, <2>1, CreateKeepsIInv
<1>8. CASE IS_a0_start_proceeding_INVITE(Fresh, HandleAck)
  <2> DEFINE cls == IF HandleAck THEN "InviteServerUA" ELSE "InviteServer"
  <2>1. /\ cls \in Classes /\ cls # "NonInviteServer"
        /\ Current.kind = "INVITE" /\ Current.src = "transport"
        /\ Create(Fresh, cls, "proceeding")
        /\ Timeouts(Fresh, {}, {}) /\ SendNothing
        /\ Enqueue(<<Cmd("transaction", "dialog", Current.kind, Current.key)>>)
    BY <1>8 DEF IS_a0_start_proceeding_INVITE, Classes
  <2> HIDE DEF cls
  <2>2. CreateStep(Fresh, cls, "proceeding")
    BY <1>1, <1>2, <1>4, <2>1, NotSending, Timing DEF CreateStep, StateNames
  <2> QED
    BY <1>2, <2>2, CreateKeepsIInv
<1>9. CASE NS_a0_start_trying_request(Fresh)
  <2>1. CreateStep(Fresh, "NonInviteServer", "trying")
    BY <1>1, <1>2, <1>4, <1>9, NotSending, Timing
    DEF NS_a0_start_trying_request, CreateStep, Classes, StateNames
  <2> QED
    BY <1>2, <2>1, CreateKeepsIInv
<1> QED
  BY <1>6, <1>7, <1>8, <1>9 DEF Default

(* The rest of the dispatcher's steps add nothing to the high queue.       *)
LEMMA ShorterQueue ==
  ASSUME IInv, HasCommand, Enqueue(<<>>), NEW k \in Key
  PROVE  /\ hiq' = HighRest
         /\ hiq' \in Seq(Command) /\ hiq' \in Seq(HighCommands)
         /\ In(hiq', TermCmds(k)) => In(hiq, TermCmds(k))
         /\ In(hiq', ReqCmds(k)) => In(hiq, ReqCmds(k))
         /\ Current \notin TermCmds(k) /\ In(hiq, TermCmds(k)) => In(hiq', TermCmds(k))
         /\ AtMostOnce(hiq, TermCmds(k)) => AtMostOnce(hiq', TermCmds(k))
         /\ AtMostOnce(hiq, ReqCmds(k)) => AtMostOnce(hiq', ReqCmds(k))
<1>1. TypeOK /\ QueuesOK
  BY DEF IInv
<1>2. HighRest \in Seq(Command) /\ HighRest \in Seq(HighCommands)
  BY <1>1, CurrentCommand
<1>3. hiq' = HighRest
  BY <1>2 DEF Enqueue
<1> QED
  BY <1>1, <1>2, <1>3, HighRestHolds

(* What the commands for the TU and the lost ones leave as it was.         *)
LEMMA QuietKeepsIInv ==
  ASSUME IInv, HasCommand, Current.dst # "dispatcher",
         Enqueue(<<>>), SendNothing,
         UNCHANGED <<class, tid, state, last, table, requests, expired>>,
         asked' \subseteq Key, told' \subseteq Key
  PROVE  IInv'
<1>1. TypeOK /\ LastOK /\ ObjectsOK /\ TableOK /\ AnnouncedOK /\ QueuesOK /\ LocalOK
  BY DEF IInv
<1>2. PICK k0 \in Key : TRUE
  BY KeyExists
<1>3. /\ loq' \in Seq(Command) /\ loq' \in Seq(LowCommands)
      /\ out' \subseteq Packet
  BY <1>1, CurrentCommand DEF SendNothing
<1>4. TypeOK'
  BY <1>1, <1>2, <1>3, ShorterQueue DEF TypeOK, TransactionTypeOK
<1>5. LastOK' /\ ObjectsOK' /\ TableOK'
  BY <1>1 DEF LastOK, ObjectsOK, TableOK
<1>6. QueuesOK'
  BY <1>2, <1>3, ShorterQueue DEF QueuesOK, HighCommands, LowCommands
<1>7. AnnouncedOK'
  <2> SUFFICES ASSUME NEW k \in Key, table[k] # NoTrans,
                      state[table[k]] = "terminated"
               PROVE  In(hiq', TermCmds(k))
    BY DEF AnnouncedOK, TermCmds
  <2>1. Current \notin TermCmds(k)
    BY DEF TermCmds
  <2> QED
    BY <1>1, <2>1, ShorterQueue DEF AnnouncedOK
<1>8. LocalOK'
  <2> SUFFICES ASSUME NEW k \in LocalKeys
               PROVE  /\ In(hiq', ReqCmds(k)) => \A u \in Trans : class[u] # "none" => tid[u] # k
                      /\ AtMostOnce(hiq', ReqCmds(k))
                      /\ \A u \in Trans : state[u] \in StateNames /\ tid[u] = k => table[k] = u
                      /\ In(hiq', TermCmds(k)) => table[k] # NoTrans /\ state[table[k]] = "terminated"
                      /\ AtMostOnce(hiq', TermCmds(k))
    BY DEF LocalOK, TermCmds, ReqCmds, LocalKeys
  <2>1. k \in Key
    BY DEF LocalKeys
  <2> QED
    BY <1>1, <2>1, ShorterQueue DEF LocalOK
<1> QED
  BY <1>1, <1>4, <1>5, <1>6, <1>7, <1>8 DEF IInv

(* A terminated transaction leaves the table, and nothing about it is left *)
(* in the queue.                                                           *)
LEMMA TerminatedKeepsIInv ==
  ASSUME IInv, TransactionTerminated, UNCHANGED <<asked, told>>
  PROVE  IInv'
<1> DEFINE k0 == Current.key
           u0 == table[k0]
<1>1. TypeOK /\ LastOK /\ ObjectsOK /\ TableOK /\ AnnouncedOK /\ QueuesOK /\ LocalOK
  BY DEF IInv
<1>2. /\ HasCommand /\ Current.dst = "dispatcher" /\ u0 # NoTrans
      /\ state' = [state EXCEPT ![u0] = "freed"]
      /\ table' = [table EXCEPT ![k0] = NoTrans]
      /\ Enqueue(<<>>) /\ SignalIfNoTransactions(k0)
      /\ UNCHANGED <<class, tid, last, requests, expired>>
  BY DEF TransactionTerminated
<1>3. Current \in Command /\ k0 \in Key /\ TakesHigh /\ Current \in TermCmds(k0)
  BY <1>1, <1>2, CurrentCommand DEF Command, LowCommands, TermCmds
<1>4. /\ state \in [Trans -> StateNames \union {"unborn", "freed"}]
      /\ tid \in [Trans -> Key] /\ table \in [Key -> Trans \union {NoTrans}]
      /\ NoTrans \notin Trans
  BY <1>1, TransAssumption DEF TypeOK, TransactionTypeOK
<1>5. /\ u0 \in Trans /\ tid[u0] = k0 /\ state[u0] \in StateNames
      /\ state'[u0] = "freed" /\ table'[k0] = NoTrans
      /\ \A u \in Trans : u # u0 => state'[u] = state[u]
      /\ \A k \in Key : k # k0 => table'[k] = table[k] /\ table[k] # u0
  <2>1. u0 \in Trans /\ tid[u0] = k0 /\ state[u0] \in StateNames
    BY <1>1, <1>2, <1>3, <1>4 DEF TableOK
  <2>2. \A k \in Key : k # k0 => table[k] # u0
    BY <1>1, <1>2, <1>3, <2>1 DEF TableOK
  <2> QED
    BY <1>2, <1>3, <1>4, <2>1, <2>2
<1> HIDE DEF k0, u0
<1>6. /\ loq' \in Seq(Command) /\ loq' \in Seq(LowCommands)
      /\ out' \subseteq Packet
  <2>1. /\ LowRest \in Seq(Command) /\ LowRest \in Seq(LowCommands)
        /\ loq' = LowRest \/ loq' = Append(LowRest, NoTransactions(k0))
        /\ out' = {}
    BY <1>1, <1>2, CurrentCommand DEF SignalIfNoTransactions
  <2>2. NoTransactions(k0) \in Command /\ NoTransactions(k0) \in LowCommands
    BY <1>3 DEF NoTransactions, Cmd, Command, Kinds, LowCommands
  <2> QED
    BY <2>1, <2>2
<1>7. TypeOK'
  <2>1. state' \in [Trans -> StateNames \union {"unborn", "freed"}]
    BY <1>2, <1>4
  <2>2. table' \in [Key -> Trans \union {NoTrans}]
    BY <1>2, <1>4
  <2>3. hiq' \in Seq(Command)
    BY <1>2, <1>3, ShorterQueue
  <2> QED
    BY <1>1, <1>2, <1>6, <2>1, <2>2, <2>3 DEF TypeOK, TransactionTypeOK
<1>8. LastOK'
  BY <1>1, <1>2, <1>5 DEF LastOK
<1>9. ObjectsOK'
  BY <1>1, <1>2, <1>5 DEF ObjectsOK, StateNames
<1>10. TableOK'
  BY <1>1, <1>2, <1>4, <1>5 DEF TableOK
<1>11. QueuesOK'
  BY <1>2, <1>3, <1>6, ShorterQueue DEF QueuesOK, HighCommands, LowCommands
<1>12. AnnouncedOK'
  <2> SUFFICES ASSUME NEW k \in Key, table'[k] # NoTrans,
                      state'[table'[k]] = "terminated"
               PROVE  In(hiq', TermCmds(k))
    BY DEF AnnouncedOK, TermCmds
  <2>1. k # k0
    BY <1>5
  <2>2. Current \notin TermCmds(k)
    BY <2>1 DEF TermCmds, k0
  <2>3. In(hiq, TermCmds(k))
    BY <1>1, <1>4, <1>5, <2>1 DEF AnnouncedOK
  <2> QED
    BY <1>2, <2>2, <2>3, ShorterQueue
<1>13. LocalOK'
  <2> SUFFICES ASSUME NEW k \in LocalKeys
               PROVE  /\ In(hiq', ReqCmds(k)) => \A u \in Trans : class[u] # "none" => tid[u] # k
                      /\ AtMostOnce(hiq', ReqCmds(k))
                      /\ \A u \in Trans : state'[u] \in StateNames /\ tid[u] = k => table'[k] = u
                      /\ In(hiq', TermCmds(k)) => table'[k] # NoTrans /\ state'[table'[k]] = "terminated"
                      /\ AtMostOnce(hiq', TermCmds(k))
    BY <1>2 DEF LocalOK, TermCmds, ReqCmds, LocalKeys
  <2>0. k \in Key
    BY DEF LocalKeys
  <2>1. /\ In(hiq, ReqCmds(k)) => \A u \in Trans : class[u] # "none" => tid[u] # k
        /\ AtMostOnce(hiq, ReqCmds(k))
        /\ \A u \in Trans : state[u] \in StateNames /\ tid[u] = k => table[k] = u
        /\ In(hiq, TermCmds(k)) => table[k] # NoTrans /\ state[table[k]] = "terminated"
        /\ AtMostOnce(hiq, TermCmds(k))
    BY <1>1 DEF LocalOK
  <2>2. /\ In(hiq', ReqCmds(k)) => In(hiq, ReqCmds(k))
        /\ AtMostOnce(hiq', ReqCmds(k)) /\ AtMostOnce(hiq', TermCmds(k))
        /\ In(hiq', TermCmds(k)) => In(hiq, TermCmds(k))
    BY <1>2, <2>0, <2>1, ShorterQueue
  <2>3. CASE k = k0
    <3>1. ~In(hiq', TermCmds(k))
      <4>1. hiq' = HighRest
        BY <1>2, <2>0, ShorterQueue
      <4> QED
        BY <1>1, <1>2, <1>3, <2>1, <2>3, <4>1, HighRestHolds
    <3>2. \A u \in Trans : state'[u] \in StateNames /\ tid[u] = k => table'[k] = u
      <4>1. "freed" \notin StateNames
        BY DEF StateNames
      <4> QED
        BY <1>5, <2>1, <2>3, <4>1 DEF u0
    <3> QED
      BY <2>1, <2>2, <3>1, <3>2
  <2>4. CASE k # k0
    <3>1. "freed" \notin StateNames
      BY DEF StateNames
    <3> QED
      BY <1>4, <1>5, <2>0, <2>1, <2>2, <2>4, <3>1
  <2> QED
    BY <2>3, <2>4
<1> QED
  BY <1>7, <1>8, <1>9, <1>10, <1>11, <1>12, <1>13 DEF IInv

(* The other threads add to one queue or to none.                          *)
LEMMA TimerThreadKeepsIInv ==
  ASSUME IInv, TimerThread
  PROVE  IInv'
<1>1. TypeOK /\ LastOK /\ ObjectsOK /\ TableOK /\ AnnouncedOK /\ QueuesOK /\ LocalOK
  BY DEF IInv
<1>2. UNCHANGED <<class, tid, state, last, table, loq, asked, told>> /\ out' = {}
  BY DEF TimerThread, Expire, DeliverTimeout
<1>3. requests' \subseteq Request /\ expired' \subseteq Request
  BY <1>1 DEF TimerThread, Expire, DeliverTimeout, TypeOK, TransactionTypeOK
<1>4. hiq \in Seq(Command) /\ hiq \in Seq(HighCommands)
  BY <1>1 DEF TypeOK, TransactionTypeOK, QueuesOK
<1>5. /\ hiq' \in Seq(Command) /\ hiq' \in Seq(HighCommands)
      /\ \A k \in Key :
             /\ In(hiq', TermCmds(k)) <=> In(hiq, TermCmds(k))
             /\ In(hiq', ReqCmds(k)) <=> In(hiq, ReqCmds(k))
             /\ AtMostOnce(hiq', TermCmds(k)) <=> AtMostOnce(hiq, TermCmds(k))
             /\ AtMostOnce(hiq', ReqCmds(k)) <=> AtMostOnce(hiq, ReqCmds(k))
  <2>1. CASE hiq' = hiq
    BY <1>4, <2>1
  <2>2. CASE \E r \in expired : hiq' = Append(hiq, Timeout(r.obj, r.timer))
    <3>1. PICK r \in expired : hiq' = Append(hiq, Timeout(r.obj, r.timer))
      BY <2>2
    <3> DEFINE c == Timeout(r.obj, r.timer)
    <3>2. r.obj \in Trans /\ r.timer \in Timers
      BY <1>1 DEF TypeOK, TransactionTypeOK, Request
    <3>3. c \in Command /\ c \in HighCommands
      BY <1>1, <3>2 DEF Timeout, Command, Kinds, HighCommands, TypeOK, TransactionTypeOK
    <3>4. \A k \in Key : c \notin TermCmds(k) /\ c \notin ReqCmds(k)
      BY DEF Timeout, TermCmds, ReqCmds
    <3>5. hiq' = Append(hiq, c)
      BY <3>1
    <3> HIDE DEF c
    <3>6. hiq' \in Seq(HighCommands)
      BY <1>4, <3>3, <3>5
    <3> QED
      BY <1>4, <3>3, <3>4, <3>5, <3>6, InAppend
  <2> QED
    BY <2>1, <2>2 DEF TimerThread, Expire, DeliverTimeout
<1>6. TypeOK'
  BY <1>1, <1>2, <1>3, <1>5 DEF TypeOK, TransactionTypeOK
<1>7. LastOK' /\ ObjectsOK' /\ TableOK'
  BY <1>1, <1>2 DEF LastOK, ObjectsOK, TableOK
<1>8. QueuesOK'
  BY <1>1, <1>2, <1>5 DEF QueuesOK, HighCommands, LowCommands
<1>9. AnnouncedOK'
  BY <1>1, <1>2, <1>5 DEF AnnouncedOK, TermCmds
<1>10. LocalOK'
  BY <1>1, <1>2, <1>5 DEF LocalOK, TermCmds, ReqCmds, LocalKeys
<1> QED
  BY <1>6, <1>7, <1>8, <1>9, <1>10 DEF IInv

(* The dialogs may make a request of a new key, and may answer.            *)
LEMMA TUKeepsIInv ==
  ASSUME IInv, TUStep
  PROVE  IInv'
<1>1. TypeOK /\ LastOK /\ ObjectsOK /\ TableOK /\ AnnouncedOK /\ QueuesOK /\ LocalOK
  BY DEF IInv
<1>2. /\ UNCHANGED <<class, tid, state, last, table, requests, expired, loq, told>>
      /\ out' = {}
  BY DEF TUStep, TURequest, TUAnswer, FromTU
<1>3. hiq \in Seq(Command) /\ hiq \in Seq(HighCommands)
  BY <1>1 DEF TypeOK, TransactionTypeOK, QueuesOK
<1>4. asked' \subseteq Key
  BY <1>1 DEF TUStep, TURequest, TUAnswer, TypeOK
<1>5. PICK c \in Command :
        /\ hiq' = Append(hiq, c) /\ c \in HighCommands
        /\ \A k \in Key : c \notin TermCmds(k)
        /\ \A k \in Key : c \in ReqCmds(k) =>
             /\ \A t \in Trans : class[t] # "none" => tid[t] # k
             /\ ~In(hiq, ReqCmds(k))
  <2>1. ASSUME NEW k0 \in LocalKeys, TURequest(k0)
        PROVE  \E c \in Command :
                 /\ hiq' = Append(hiq, c) /\ c \in HighCommands
                 /\ \A k \in Key : c \notin TermCmds(k)
                 /\ \A k \in Key : c \in ReqCmds(k) =>
                      /\ \A t \in Trans : class[t] # "none" => tid[t] # k
                      /\ ~In(hiq, ReqCmds(k))
    <3> DEFINE c == Cmd("dialog", "transaction", k0.method, k0)
    <3>1. c \in Command /\ c \in HighCommands
      BY DEF LocalKeys, Key, Cmd, Command, Kinds, HighCommands
    <3>2. hiq' = Append(hiq, c)
      BY <2>1 DEF TURequest, FromTU
    <3>3. \A k \in Key : c \notin TermCmds(k) /\ (c \in ReqCmds(k) => k = k0)
      BY DEF Cmd, TermCmds, ReqCmds
    <3>4. /\ \A t \in Trans : class[t] # "none" => tid[t] # k0
          /\ ~In(hiq, ReqCmds(k0))
      BY <2>1 DEF TURequest, In, ReqCmds
    <3> QED
      BY <3>1, <3>2, <3>3, <3>4
  <2>2. ASSUME NEW k0 \in asked, NEW kind \in Responses, TUAnswer(k0, kind)
        PROVE  \E c \in Command :
                 /\ hiq' = Append(hiq, c) /\ c \in HighCommands
                 /\ \A k \in Key : c \notin TermCmds(k)
                 /\ \A k \in Key : c \notin ReqCmds(k)
    <3> DEFINE c == Cmd("dialog", "transaction", kind, k0)
    <3>1. c \in Command /\ c \in HighCommands
      BY <1>1 DEF TypeOK, Cmd, Command, Kinds, HighCommands
    <3>2. hiq' = Append(hiq, c)
      BY <2>2 DEF TUAnswer, FromTU
    <3>3. \A k \in Key : c \notin TermCmds(k) /\ c \notin ReqCmds(k)
      BY DEF Cmd, TermCmds, ReqCmds, IsRequest, RequestKinds, Responses, Finals
    <3> QED
      BY <3>1, <3>2, <3>3
  <2> QED
    BY <2>1, <2>2 DEF TUStep
<1>6. hiq' \in Seq(Command) /\ hiq' \in Seq(HighCommands)
  BY <1>3, <1>5
<1>7. \A k \in Key :
          /\ In(hiq', TermCmds(k)) <=> In(hiq, TermCmds(k))
          /\ AtMostOnce(hiq', TermCmds(k)) <=> AtMostOnce(hiq, TermCmds(k))
          /\ In(hiq', ReqCmds(k)) <=> In(hiq, ReqCmds(k)) \/ c \in ReqCmds(k)
          /\ AtMostOnce(hiq, ReqCmds(k)) => AtMostOnce(hiq', ReqCmds(k))
  BY <1>3, <1>5, InAppend
<1>8. TypeOK'
  BY <1>1, <1>2, <1>4, <1>6 DEF TypeOK, TransactionTypeOK
<1>9. LastOK' /\ ObjectsOK' /\ TableOK'
  BY <1>1, <1>2 DEF LastOK, ObjectsOK, TableOK
<1>10. QueuesOK'
  BY <1>1, <1>2, <1>6 DEF QueuesOK, HighCommands, LowCommands
<1>11. AnnouncedOK'
  BY <1>1, <1>2, <1>7 DEF AnnouncedOK, TermCmds
<1>12. LocalOK'
  BY <1>1, <1>2, <1>5, <1>7 DEF LocalOK, TermCmds, ReqCmds, LocalKeys
<1> QED
  BY <1>8, <1>9, <1>10, <1>11, <1>12 DEF IInv

(* A packet is read into the low priority queue.                           *)
LEMMA NetworkKeepsIInv ==
  ASSUME IInv, Network
  PROVE  IInv'
<1>1. TypeOK /\ LastOK /\ ObjectsOK /\ TableOK /\ AnnouncedOK /\ QueuesOK /\ LocalOK
  BY DEF IInv
<1>2. PICK p \in PeerPackets : SocketRead(p)
  BY DEF Network
<1> DEFINE c == Cmd("transport", "transaction", p.kind, p.key)
<1>3. /\ UNCHANGED <<class, tid, state, last, table, requests, expired, hiq, asked, told>>
      /\ loq' = Append(loq, c) /\ out' = {}
  BY <1>2 DEF SocketRead
<1>4. c \in Command /\ c \in LowCommands
  BY PeerAssumption DEF Packet, Cmd, Command, Kinds, LowCommands, IsRequest
<1> HIDE DEF c
<1>5. loq \in Seq(Command) /\ loq \in Seq(LowCommands)
  BY <1>1 DEF TypeOK, TransactionTypeOK, QueuesOK
<1>6. loq' \in Seq(Command) /\ loq' \in Seq(LowCommands)
  BY <1>3, <1>4, <1>5
<1>7. TypeOK'
  BY <1>1, <1>3, <1>6 DEF TypeOK, TransactionTypeOK
<1>8. LastOK' /\ ObjectsOK' /\ TableOK' /\ AnnouncedOK'
  BY <1>1, <1>3 DEF LastOK, ObjectsOK, TableOK, AnnouncedOK, TermCmds
<1>9. QueuesOK'
  BY <1>1, <1>3, <1>6 DEF QueuesOK, HighCommands, LowCommands
<1>10. LocalOK'
  BY <1>1, <1>3 DEF LocalOK, TermCmds, ReqCmds, LocalKeys
<1> QED
  BY <1>7, <1>8, <1>9, <1>10 DEF IInv

(* A step of the dispatcher, of whatever kind, keeps the invariant.        *)
LEMMA DispatchKeepsIInv ==
  ASSUME IInv, Dispatch
  PROVE  IInv'
<1>1. TypeOK /\ LastOK /\ QueuesOK
  BY DEF IInv
<1>2. ASSUME Handle, UNCHANGED <<asked, told>>
      PROVE  IInv'
  <2>1. PICK t \in Trans : IC_Next(t) \/ NC_Next(t) \/ IS_Next(t) \/ NS_Next(t)
    BY <1>2 DEF Handle
  <2>2. HandlerStep(t)
    BY <1>1, <2>1, InviteClientStep, NonInviteClientStep, InviteServerStep,
       NonInviteServerStep
  <2> QED
    BY <1>2, <2>2, HandlerKeepsIInv
<1>3. ASSUME Default, UNCHANGED <<asked, told>>
      PROVE  IInv'
  BY <1>3, DefaultKeepsIInv
<1>4. ASSUME NotHandled, UNCHANGED <<asked, told>>
      PROVE  IInv'
  <2>1. asked' \subseteq Key /\ told' \subseteq Key
    BY <1>1, <1>4 DEF TypeOK
  <2>2. /\ HasCommand /\ Current.dst # "dispatcher" /\ Enqueue(<<>>) /\ SendNothing
        /\ UNCHANGED <<class, tid, state, last, table, requests, expired>>
    BY <1>4 DEF NotHandled
  <2> QED
    BY <2>1, <2>2, QuietKeepsIInv
<1>5. ASSUME TransactionTerminated, UNCHANGED <<asked, told>>
      PROVE  IInv'
  BY <1>5, TerminatedKeepsIInv
<1>6. ASSUME DialogReceives
      PROVE  IInv'
  <2>1. /\ HasCommand /\ Current.dst # "dispatcher" /\ Enqueue(<<>>) /\ SendNothing
        /\ UNCHANGED <<class, tid, state, last, table, requests, expired>>
    BY <1>6 DEF DialogReceives
  <2>2. Current.key \in Key
    BY <1>1, <2>1, CurrentCommand DEF Command
  <2>3. asked' \subseteq Key
    BY <1>1, <1>6, <2>2 DEF DialogReceives, TypeOK
  <2>4. told' \subseteq Key
    BY <1>1, <1>6, <2>2 DEF DialogReceives, TypeOK
  <2> QED
    BY <2>1, <2>3, <2>4, QuietKeepsIInv
<1> QED
  BY <1>2, <1>3, <1>4, <1>5, <1>6 DEF Dispatch

(* The invariant holds when the stack starts: there is nothing yet.        *)
LEMMA InitIInv == Init => IInv
<1> SUFFICES ASSUME Init
             PROVE  IInv
  OBVIOUS
<1>1. (CHOOSE k \in Key : TRUE) \in Key
  BY KeyExists
<1>2. TypeOK
  BY <1>1 DEF Init, TypeOK, TransactionTypeOK
<1>3. QueuesOK
  BY DEF Init, QueuesOK
<1>4. LastOK /\ ObjectsOK /\ TableOK /\ AnnouncedOK
  BY DEF Init, LastOK, ObjectsOK, TableOK, AnnouncedOK
<1>5. LocalOK
  BY DEF Init, LocalOK, LocalKeys, In, AtMostOnce, StateNames
<1> QED
  BY <1>2, <1>3, <1>4, <1>5 DEF IInv

(* The invariant from which the following theorems are read off.           *)
THEOREM Invariance == Spec => []IInv
<1>1. IInv /\ [Next]_layerVars => IInv'
  <2> SUFFICES ASSUME IInv, [Next]_layerVars
               PROVE  IInv'
    OBVIOUS
  <2>1. CASE UNCHANGED layerVars
    BY <2>1 DEF layerVars, vars, IInv, TypeOK, TransactionTypeOK, LastOK, ObjectsOK,
                TableOK, AnnouncedOK, QueuesOK, LocalOK, TermCmds, ReqCmds,
                HighCommands, LowCommands, LocalKeys
  <2> QED
    BY <2>1, DispatchKeepsIInv, TimerThreadKeepsIInv, TUKeepsIInv, NetworkKeepsIInv
    DEF Next
<1> QED
  BY <1>1, InitIInv, PTL DEF Spec

(* Every variable keeps its type, for any number of objects and branches   *)
(* and any bounds.                                                         *)
THEOREM TypeCorrect == Spec => []TypeOK
<1>1. IInv => TypeOK
  BY DEF IInv
<1> QED
  BY <1>1, Invariance, PTL

(* The high priority of transaction_terminated keeps every packet and      *)
(* every transport error from a terminated transaction.                    *)
THEOREM TerminatedRemoved == Spec => []TerminatedIsRemovedFirst
<1>1. IInv => TerminatedIsRemovedFirst
  <2> SUFFICES ASSUME IInv, HasCommand, Current.src = "transport",
                      NEW k \in Key, table[k] # NoTrans
               PROVE  state[table[k]] # "terminated"
    BY DEF TerminatedIsRemovedFirst
  <2>1. hiq \in Seq(HighCommands)
    BY DEF IInv, QueuesOK
  <2>2. hiq # <<>> => hiq[1] \in HighCommands /\ Head(hiq) = hiq[1]
    BY <2>1
  <2>3. hiq = <<>>
    BY <2>2 DEF Current, TakesHigh, HighCommands
  <2> QED
    BY <2>3 DEF IInv, AnnouncedOK, In
<1> QED
  BY <1>1, Invariance, PTL

(* The dispatcher finds every transaction of this stack's own whose end it *)
(* is told of: for them the assertion of removeTransaction cannot fail.    *)
THEOREM TerminationFinds == Spec => []TerminationFindsTransaction
<1>1. IInv => TerminationFindsTransaction
  <2> SUFFICES ASSUME IInv, NEW i \in 1 .. Len(hiq),
                      hiq[i].dst = "dispatcher", hiq[i].key \in LocalKeys
               PROVE  Finds(hiq[i])
    BY DEF TerminationFindsTransaction
  <2>1. hiq[i] \in Command
    BY DEF IInv, TypeOK, TransactionTypeOK
  <2>2. In(hiq, TermCmds(hiq[i].key))
    BY <2>1 DEF In, TermCmds
  <2> QED
    BY <2>2 DEF IInv, LocalOK, Finds
<1> QED
  BY <1>1, Invariance, PTL
=============================================================================
