-------------------------- MODULE SipTransactionProofs --------------------------
(***************************************************************************)
(* What a transaction owes to its dialog, for any transactions, peers and  *)
(* bounds: it does not wait for ever (NeverStranded), and its conclusion   *)
(* is its last word (ConclusionIsLast).  Each is inductive together with   *)
(* the invariant of the layer and an invariant of its own.                 *)
(***************************************************************************)
EXTENDS SipLayerTransactionProofs

(***************************************************************************)
(* NeverStranded: a transaction that waits has the timeout that ends its   *)
(* wait pending, taken off the list, or in the queue.                      *)
(*                                                                         *)
(* It is inductive together with what it takes for a timeout on its way    *)
(* not to be lost: the timer thread has one in hand at most, and a command *)
(* for an object is a timeout, which no step but a handler of that object  *)
(* takes as long as the object waits for it.                               *)
(***************************************************************************)
(* LastResort as a relation: in state s of class c the wait ends with x.   *)
ResortOf(c, s, x) ==
  \/ c = "InviteClient" /\ s = "calling" /\ x = "timerB"
  \/ c = "InviteClient" /\ s = "completed" /\ x = "timerD"
  \/ c = "NonInviteClient" /\ s = "trying" /\ x = "timerF"
  \/ c = "NonInviteClient" /\ s = "completed" /\ x = "timerK"
  \/ c \in {"InviteServer", "InviteServerUA"} /\ s = "completed" /\ x = "timerH"
  \/ c \in {"InviteServer", "InviteServerUA"} /\ s = "confirmed" /\ x = "timerI"
  \/ c = "NonInviteServer" /\ s = "completed" /\ x = "timerJ"

(* The timeouts x of t in a queue, and commands for an object that are no  *)
(* timeouts.                                                               *)
TimeoutCmds(t, x) == {c \in Command : c.obj = t /\ c.kind = x}
StrayCmds ==
  {c \in Command : c.obj # NoTrans /\ ~(c.src = "transaction" /\ c.dst = "transaction")}

WaitsOK ==
  \A t \in Trans, x \in Timers :
    ResortOf(class[t], state[t], x) => OnItsWay(t, x)
OneExpired == \A r, s \in expired : r = s
SInv == WaitsOK /\ OneExpired /\ ~In(hiq, StrayCmds)

----------------------------------------------------------------------------
(* NeverStranded in terms of ResortOf and In.                              *)
LEMMA Way ==
  ASSUME TypeOK, NEW t \in Trans, NEW x \in Timers
  PROVE  OnItsWay(t, x)
           <=> \/ \E r \in requests \union expired : r.obj = t /\ r.timer = x
               \/ In(hiq, TimeoutCmds(t, x))
<1>1. \A i \in 1 .. Len(hiq) : hiq[i] \in Command
  BY DEF TypeOK, TransactionTypeOK
<1> QED
  BY <1>1 DEF OnItsWay, In, TimeoutCmds

LEMMA Resort ==
  ASSUME TypeOK, NEW t \in Trans
  PROVE  /\ \A x : ResortOf(class[t], state[t], x) =>
                     /\ x \in Timers
                     /\ Waits(t) /\ x = LastResort[class[t]][state[t]]
         /\ Waits(t) => ResortOf(class[t], state[t], LastResort[class[t]][state[t]])
<1>1. class[t] \in Classes \union {"none"}
  BY DEF TypeOK, TransactionTypeOK
<1>2. CASE class[t] = "InviteClient"
  <2>1. LastResort[class[t]] = [calling |-> "timerB", completed |-> "timerD"]
    BY <1>2 DEF LastResort
  <2> QED
    BY <1>2, <2>1 DEF ResortOf, Waits, Timers
<1>3. CASE class[t] = "NonInviteClient"
  <2>1. LastResort[class[t]] = [trying |-> "timerF", completed |-> "timerK"]
    BY <1>3 DEF LastResort
  <2> QED
    BY <1>3, <2>1 DEF ResortOf, Waits, Timers
<1>4. CASE class[t] \in {"InviteServer", "InviteServerUA"}
  <2>1. LastResort[class[t]] = [completed |-> "timerH", confirmed |-> "timerI"]
    BY <1>4 DEF LastResort
  <2> QED
    BY <1>4, <2>1 DEF ResortOf, Waits, Timers
<1>5. CASE class[t] = "NonInviteServer"
  <2>1. LastResort[class[t]] = [completed |-> "timerJ"]
    BY <1>5 DEF LastResort
  <2> QED
    BY <1>5, <2>1 DEF ResortOf, Waits, Timers
<1>6. CASE class[t] = "none"
  BY <1>6 DEF ResortOf, Waits
<1> QED
  BY <1>1, <1>2, <1>3, <1>4, <1>5, <1>6 DEF Classes

LEMMA Stranding ==
  ASSUME TypeOK
  PROVE  NeverStranded <=> WaitsOK
<1> SUFFICES ASSUME NEW t \in Trans
             PROVE  (Waits(t) => OnItsWay(t, LastResort[class[t]][state[t]]))
                      <=> \A x \in Timers :
                            ResortOf(class[t], state[t], x) => OnItsWay(t, x)
  BY DEF NeverStranded, WaitsOK
<1>1. /\ \A x : ResortOf(class[t], state[t], x) =>
                  /\ x \in Timers
                  /\ Waits(t) /\ x = LastResort[class[t]][state[t]]
      /\ Waits(t) => ResortOf(class[t], state[t], LastResort[class[t]][state[t]])
  BY Resort
<1> HIDE DEF Waits, ResortOf, OnItsWay, LastResort
<1> QED
  BY <1>1

----------------------------------------------------------------------------
(* What a handler does to the timeouts.                                    *)
LEMMA TimeoutsDo ==
  ASSUME TypeOK, NEW t \in Trans, NEW X, NEW Y, Timeouts(t, X, Y)
  PROVE  /\ \A r \in requests : r.obj # t => r \in requests'
         /\ \A x \in Timers : x \notin X => Pending(t, x) \subseteq requests'
         /\ \A x \in Timers : x \in Y => \E r \in requests' : r.obj = t /\ r.timer = x
<1>1. PICK rs \in Removable(t, X) :
        requests' = (requests \ rs) \union NextCopies(requests \ rs, t, Y)
  BY DEF Timeouts
<1>2. \A r \in rs : r.obj = t /\ r.timer \in X
  BY DEF Removable
<1>3. ASSUME NEW x \in Timers, x \in Y
      PROVE  \E r \in requests' : r.obj = t /\ r.timer = x
  <2> DEFINE r == [obj |-> t, timer |-> x, copy |-> 1]
  <2>1. r \in Request
    BY CopiesAssumption DEF Request
  <2>2. r.obj = t /\ r.timer = x /\ 1 .. (r.copy - 1) = {}
    OBVIOUS
  <2> HIDE DEF r
  <2>3. r \in requests \ rs \/ r \in NextCopies(requests \ rs, t, Y)
    BY <1>3, <2>1, <2>2 DEF NextCopies
  <2> QED
    BY <1>1, <2>2, <2>3
<1> QED
  BY <1>1, <1>2, <1>3 DEF Pending

(* A handler of t leaves the timeouts of other objects alone.  If t waits  *)
(* behind the step, then the timeout that ends the wait is requested, or t *)
(* has waited before, the step is not that timeout's and cancels none.     *)
TimersKept(t) ==
  /\ \A r \in requests : r.obj # t => r \in requests'
  /\ \A x \in Timers : ResortOf(class[t], state'[t], x) =>
       \/ \E r \in requests' : r.obj = t /\ r.timer = x
       \/ /\ state'[t] = state[t] /\ Current.kind # x
          /\ Pending(t, x) \subseteq requests'

(* The handlers of the four machines, one step for each.                   *)
LEMMA InviteClientTimers ==
  ASSUME TypeOK, NEW t \in Trans, IC_Next(t)
  PROVE  TimersKept(t)
<1>0. state \in [Trans -> StateNames \union {"unborn", "freed"}]
  BY DEF TypeOK, TransactionTypeOK
<1>1. CASE IC_a1_calling_calling_timerA(t)
  <2>1. /\ class[t] = "InviteClient"
        /\ state[t] = "calling" /\ state'[t] = "calling" /\ Current.kind # "timerB"
    BY <1>0, <1>1 DEF IC_a1_calling_calling_timerA, IC_Fires, Fires, Matches, Row,
       IC_Transitions, RequestKinds, Responses, Finals
  <2>2. Timeouts(t, {}, {"timerA"})
    BY <1>1 DEF IC_a1_calling_calling_timerA
  <2> QED
    BY <2>1, <2>2, TimeoutsDo DEF TimersKept, ResortOf, Timers
<1>2. CASE IC_a2_calling_proceeding_1xx(t)
  <2>1. /\ class[t] = "InviteClient"
        /\ state[t] = "calling" /\ state'[t] = "proceeding"
    BY <1>0, <1>2 DEF IC_a2_calling_proceeding_1xx, IC_Fires, Fires, Matches, Row,
       IC_Transitions, RequestKinds, Responses, Finals
  <2>2. Timeouts(t, {"timerA", "timerB"}, {})
    BY <1>2 DEF IC_a2_calling_proceeding_1xx
  <2> QED
    BY <2>1, <2>2, TimeoutsDo DEF TimersKept, ResortOf
<1>3. CASE IC_a3_calling_completed_resp36(t)
  <2>1. /\ class[t] = "InviteClient"
        /\ state[t] = "calling" /\ state'[t] = "completed"
    BY <1>0, <1>3 DEF IC_a3_calling_completed_resp36, IC_Fires, Fires, Matches, Row,
       IC_Transitions, RequestKinds, Responses, Finals
  <2>2. Timeouts(t, {"timerA", "timerB"}, {"timerD"})
    BY <1>3 DEF IC_a3_calling_completed_resp36
  <2> QED
    BY <2>1, <2>2, TimeoutsDo DEF TimersKept, ResortOf, Timers
<1>4. CASE IC_a4_calling_terminated_ErrOrTimerB(t)
  <2>1. /\ class[t] = "InviteClient"
        /\ state[t] = "calling" /\ state'[t] = "terminated"
    BY <1>0, <1>4 DEF IC_a4_calling_terminated_ErrOrTimerB, IC_Fires, Fires, Matches, Row,
       IC_Transitions, RequestKinds, Responses, Finals
  <2>2. Timeouts(t, {"timerA", "timerB"}, {})
    BY <1>4 DEF IC_a4_calling_terminated_ErrOrTimerB
  <2> QED
    BY <2>1, <2>2, TimeoutsDo DEF TimersKept, ResortOf
<1>5. CASE IC_a5_calling_terminated_2xx(t)
  <2>1. /\ class[t] = "InviteClient"
        /\ state[t] = "calling" /\ state'[t] = "terminated"
    BY <1>0, <1>5 DEF IC_a5_calling_terminated_2xx, IC_Fires, Fires, Matches, Row,
       IC_Transitions, RequestKinds, Responses, Finals
  <2>2. Timeouts(t, {"timerA", "timerB"}, {})
    BY <1>5 DEF IC_a5_calling_terminated_2xx
  <2> QED
    BY <2>1, <2>2, TimeoutsDo DEF TimersKept, ResortOf
<1>6. CASE IC_a6_proceeding_proceeding_1xx(t)
  <2>1. /\ class[t] = "InviteClient"
        /\ state[t] = "proceeding" /\ state'[t] = "proceeding"
    BY <1>0, <1>6 DEF IC_a6_proceeding_proceeding_1xx, IC_Fires, Fires, Matches, Row,
       IC_Transitions, RequestKinds, Responses, Finals
  <2>2. Timeouts(t, {}, {})
    BY <1>6 DEF IC_a6_proceeding_proceeding_1xx
  <2> QED
    BY <2>1, <2>2, TimeoutsDo DEF TimersKept, ResortOf
<1>7. CASE IC_a7_proceeding_terminated_2xx(t)
  <2>1. /\ class[t] = "InviteClient"
        /\ state[t] = "proceeding" /\ state'[t] = "terminated"
    BY <1>0, <1>7 DEF IC_a7_proceeding_terminated_2xx, IC_Fires, Fires, Matches, Row,
       IC_Transitions, RequestKinds, Responses, Finals
  <2>2. Timeouts(t, {"timerA", "timerB"}, {})
    BY <1>7 DEF IC_a7_proceeding_terminated_2xx
  <2> QED
    BY <2>1, <2>2, TimeoutsDo DEF TimersKept, ResortOf
<1>8. CASE IC_a8_proceeding_completed_resp36(t)
  <2>1. /\ class[t] = "InviteClient"
        /\ state[t] = "proceeding" /\ state'[t] = "completed"
    BY <1>0, <1>8 DEF IC_a8_proceeding_completed_resp36, IC_Fires, Fires, Matches, Row,
       IC_Transitions, RequestKinds, Responses, Finals
  <2>2. Timeouts(t, {"timerA", "timerB"}, {"timerD"})
    BY <1>8 DEF IC_a8_proceeding_completed_resp36
  <2> QED
    BY <2>1, <2>2, TimeoutsDo DEF TimersKept, ResortOf, Timers
<1>9. CASE IC_a9_completed_completed_resp36(t)
  <2>1. /\ class[t] = "InviteClient"
        /\ state[t] = "completed" /\ state'[t] = "completed" /\ Current.kind # "timerD"
    BY <1>0, <1>9 DEF IC_a9_completed_completed_resp36, IC_Fires, Fires, Matches, Row,
       IC_Transitions, RequestKinds, Responses, Finals
  <2>2. Timeouts(t, {}, {})
    BY <1>9 DEF IC_a9_completed_completed_resp36
  <2> QED
    BY <2>1, <2>2, TimeoutsDo DEF TimersKept, ResortOf, Timers
<1>10. CASE IC_a11_completed_terminated_timerD(t)
  <2>1. /\ class[t] = "InviteClient"
        /\ state[t] = "completed" /\ state'[t] = "terminated"
    BY <1>0, <1>10 DEF IC_a11_completed_terminated_timerD, IC_Fires, Fires, Matches, Row,
       IC_Transitions, RequestKinds, Responses, Finals
  <2>2. Timeouts(t, {}, {})
    BY <1>10 DEF IC_a11_completed_terminated_timerD
  <2> QED
    BY <2>1, <2>2, TimeoutsDo DEF TimersKept, ResortOf
<1> QED
  BY <1>1, <1>2, <1>3, <1>4, <1>5, <1>6, <1>7, <1>8, <1>9, <1>10
  DEF IC_Next

LEMMA NonInviteClientTimers ==
  ASSUME TypeOK, NEW t \in Trans, NC_Next(t)
  PROVE  TimersKept(t)
<1>0. state \in [Trans -> StateNames \union {"unborn", "freed"}]
  BY DEF TypeOK, TransactionTypeOK
<1>1. CASE NC_a1_trying_proceeding_1xx(t)
  <2>1. /\ class[t] = "NonInviteClient"
        /\ state[t] = "trying" /\ state'[t] = "proceeding"
    BY <1>0, <1>1 DEF NC_a1_trying_proceeding_1xx, NC_Fires, Fires, Matches, Row,
       NC_Transitions, RequestKinds, Responses, Finals
  <2>2. Timeouts(t, {"timerE", "timerF"}, {})
    BY <1>1 DEF NC_a1_trying_proceeding_1xx
  <2> QED
    BY <2>1, <2>2, TimeoutsDo DEF TimersKept, ResortOf
<1>2. CASE NC_a2_trying_terminated_TimerFOrErr(t)
  <2>1. /\ class[t] = "NonInviteClient"
        /\ state[t] = "trying" /\ state'[t] = "terminated"
    BY <1>0, <1>2 DEF NC_a2_trying_terminated_TimerFOrErr, NC_Fires, Fires, Matches, Row,
       NC_Transitions, RequestKinds, Responses, Finals
  <2>2. Timeouts(t, {"timerE", "timerF"}, {})
    BY <1>2 DEF NC_a2_trying_terminated_TimerFOrErr
  <2> QED
    BY <2>1, <2>2, TimeoutsDo DEF TimersKept, ResortOf
<1>3. CASE NC_a3_proceeding_completed_non1xxresp(t)
  <2>1. /\ class[t] = "NonInviteClient"
        /\ state[t] = "proceeding" /\ state'[t] = "completed"
    BY <1>0, <1>3 DEF NC_a3_proceeding_completed_non1xxresp, NC_Fires, Fires, Matches, Row,
       NC_Transitions, RequestKinds, Responses, Finals
  <2>2. Timeouts(t, {"timerE"}, {"timerK"})
    BY <1>3 DEF NC_a3_proceeding_completed_non1xxresp
  <2> QED
    BY <2>1, <2>2, TimeoutsDo DEF TimersKept, ResortOf, Timers
<1>4. CASE NC_a4_proceeding_proceeding_timerE(t)
  <2>1. /\ class[t] = "NonInviteClient"
        /\ state[t] = "proceeding" /\ state'[t] = "proceeding"
    BY <1>0, <1>4 DEF NC_a4_proceeding_proceeding_timerE, NC_Fires, Fires, Matches, Row,
       NC_Transitions, RequestKinds, Responses, Finals
  <2>2. requests \subseteq requests'
    BY <1>4 DEF NC_a4_proceeding_proceeding_timerE, NC_TwoTimersE
  <2> QED
    BY <2>1, <2>2 DEF TimersKept, ResortOf
<1>5. CASE NC_a5_proceeding_proceeding_1xx(t)
  <2>1. /\ class[t] = "NonInviteClient"
        /\ state[t] = "proceeding" /\ state'[t] = "proceeding"
    BY <1>0, <1>5 DEF NC_a5_proceeding_proceeding_1xx, NC_Fires, Fires, Matches, Row,
       NC_Transitions, RequestKinds, Responses, Finals
  <2>2. Timeouts(t, {"timerE"}, {})
    BY <1>5 DEF NC_a5_proceeding_proceeding_1xx
  <2> QED
    BY <2>1, <2>2, TimeoutsDo DEF TimersKept, ResortOf
<1>6. CASE NC_a6_proceeding_terminated_transperrOrTimerF(t)
  <2>1. /\ class[t] = "NonInviteClient"
        /\ state[t] = "proceeding" /\ state'[t] = "terminated"
    BY <1>0, <1>6 DEF NC_a6_proceeding_terminated_transperrOrTimerF, NC_Fires, Fires, Matches, Row,
       NC_Transitions, RequestKinds, Responses, Finals
  <2>2. Timeouts(t, {"timerE", "timerF"}, {})
    BY <1>6 DEF NC_a6_proceeding_terminated_transperrOrTimerF
  <2> QED
    BY <2>1, <2>2, TimeoutsDo DEF TimersKept, ResortOf
<1>7. CASE NC_a7_trying_completed_non1xxresp(t)
  <2>1. /\ class[t] = "NonInviteClient"
        /\ state[t] = "trying" /\ state'[t] = "completed"
    BY <1>0, <1>7 DEF NC_a7_trying_completed_non1xxresp, NC_Fires, Fires, Matches, Row,
       NC_Transitions, RequestKinds, Responses, Finals
  <2>2. Timeouts(t, {"timerE", "timerF"}, {"timerK"})
    BY <1>7 DEF NC_a7_trying_completed_non1xxresp
  <2> QED
    BY <2>1, <2>2, TimeoutsDo DEF TimersKept, ResortOf, Timers
<1>8. CASE NC_a8_trying_trying_timerE(t)
  <2>1. /\ class[t] = "NonInviteClient"
        /\ state[t] = "trying" /\ state'[t] = "trying" /\ Current.kind # "timerF"
    BY <1>0, <1>8 DEF NC_a8_trying_trying_timerE, NC_Fires, Fires, Matches, Row,
       NC_Transitions, RequestKinds, Responses, Finals
  <2>2. Timeouts(t, {}, {"timerE"})
    BY <1>8 DEF NC_a8_trying_trying_timerE
  <2> QED
    BY <2>1, <2>2, TimeoutsDo DEF TimersKept, ResortOf, Timers
<1>9. CASE NC_a9_completed_terminated_timerK(t)
  <2>1. /\ class[t] = "NonInviteClient"
        /\ state[t] = "completed" /\ state'[t] = "terminated"
    BY <1>0, <1>9 DEF NC_a9_completed_terminated_timerK, NC_Fires, Fires, Matches, Row,
       NC_Transitions, RequestKinds, Responses, Finals
  <2>2. Timeouts(t, {}, {})
    BY <1>9 DEF NC_a9_completed_terminated_timerK
  <2> QED
    BY <2>1, <2>2, TimeoutsDo DEF TimersKept, ResortOf
<1>10. CASE NC_a10_completed_completed_anyresp(t)
  <2>1. /\ class[t] = "NonInviteClient"
        /\ state[t] = "completed" /\ state'[t] = "completed" /\ Current.kind # "timerK"
    BY <1>0, <1>10 DEF NC_a10_completed_completed_anyresp, NC_Fires, Fires, Matches, Row,
       NC_Transitions, RequestKinds, Responses, Finals
  <2>2. Timeouts(t, {}, {})
    BY <1>10 DEF NC_a10_completed_completed_anyresp
  <2> QED
    BY <2>1, <2>2, TimeoutsDo DEF TimersKept, ResortOf, Timers
<1> QED
  BY <1>1, <1>2, <1>3, <1>4, <1>5, <1>6, <1>7, <1>8, <1>9, <1>10
  DEF NC_Next

LEMMA InviteServerTimers ==
  ASSUME TypeOK, NEW t \in Trans, IS_Next(t)
  PROVE  TimersKept(t)
<1>0. state \in [Trans -> StateNames \union {"unborn", "freed"}]
  BY DEF TypeOK, TransactionTypeOK
<1>1. CASE IS_a1_proceeding_proceeding_INVITE(t)
  <2>1. /\ class[t] \in {"InviteServer", "InviteServerUA"}
        /\ state[t] = "proceeding" /\ state'[t] = "proceeding"
    BY <1>0, <1>1 DEF IS_a1_proceeding_proceeding_INVITE, IS_Fires, Fires, Matches, Row,
       IS_Transitions, ISUA_Transitions, IS_Common, RequestKinds, Responses, Finals
  <2>2. Timeouts(t, {}, {})
    BY <1>1 DEF IS_a1_proceeding_proceeding_INVITE
  <2> QED
    BY <2>1, <2>2, TimeoutsDo DEF TimersKept, ResortOf
<1>2. CASE IS_a2_proceeding_proceeding_1xx(t)
  <2>1. /\ class[t] \in {"InviteServer", "InviteServerUA"}
        /\ state[t] = "proceeding" /\ state'[t] = "proceeding"
    BY <1>0, <1>2 DEF IS_a2_proceeding_proceeding_1xx, IS_Fires, Fires, Matches, Row,
       IS_Transitions, ISUA_Transitions, IS_Common, RequestKinds, Responses, Finals
  <2>2. Timeouts(t, {}, {})
    BY <1>2 DEF IS_a2_proceeding_proceeding_1xx
  <2> QED
    BY <2>1, <2>2, TimeoutsDo DEF TimersKept, ResortOf
<1>3. CASE IS_a3_proceeding_completed_resp36(t)
  <2>1. /\ class[t] \in {"InviteServer", "InviteServerUA"}
        /\ state[t] = "proceeding" /\ state'[t] = "completed"
    BY <1>0, <1>3 DEF IS_a3_proceeding_completed_resp36, IS_Fires, Fires, Matches, Row,
       IS_Transitions, ISUA_Transitions, IS_Common, RequestKinds, Responses, Finals
  <2>2. Timeouts(t, {}, IS_FinalTimers)
    BY <1>3 DEF IS_a3_proceeding_completed_resp36
  <2> QED
    BY <2>1, <2>2, TimeoutsDo DEF TimersKept, ResortOf, IS_FinalTimers, Timers
<1>4. CASE IS_a4_proceeding_terminated_err(t)
  <2>1. /\ class[t] \in {"InviteServer", "InviteServerUA"}
        /\ state[t] = "proceeding" /\ state'[t] = "terminated"
    BY <1>0, <1>4 DEF IS_a4_proceeding_terminated_err, IS_Fires, Fires, Matches, Row,
       IS_Transitions, ISUA_Transitions, IS_Common, RequestKinds, Responses, Finals
  <2>2. Timeouts(t, {}, {})
    BY <1>4 DEF IS_a4_proceeding_terminated_err
  <2> QED
    BY <2>1, <2>2, TimeoutsDo DEF TimersKept, ResortOf
<1>5. CASE IS_a5_proceeding_terminated_2xx(t)
  <2>1. /\ class[t] \in {"InviteServer", "InviteServerUA"}
        /\ state[t] = "proceeding" /\ state'[t] = "terminated"
    BY <1>0, <1>5 DEF IS_a5_proceeding_terminated_2xx, IS_Fires, Fires, Matches, Row,
       IS_Transitions, ISUA_Transitions, IS_Common, RequestKinds, Responses, Finals
  <2>2. Timeouts(t, {}, {})
    BY <1>5 DEF IS_a5_proceeding_terminated_2xx
  <2> QED
    BY <2>1, <2>2, TimeoutsDo DEF TimersKept, ResortOf
<1>6. CASE IS_a6_completed_completed_INVITE(t)
  <2>1. /\ class[t] \in {"InviteServer", "InviteServerUA"}
        /\ state[t] = "completed" /\ state'[t] = "completed" /\ Current.kind # "timerH"
    BY <1>0, <1>6 DEF IS_a6_completed_completed_INVITE, IS_Fires, Fires, Matches, Row,
       IS_Transitions, ISUA_Transitions, IS_Common, RequestKinds, Responses, Finals
  <2>2. Timeouts(t, {}, {})
    BY <1>6 DEF IS_a6_completed_completed_INVITE
  <2> QED
    BY <2>1, <2>2, TimeoutsDo DEF TimersKept, ResortOf, Timers
<1>7. CASE IS_a7_completed_confirmed_ACK(t)
  <2>1. /\ class[t] \in {"InviteServer", "InviteServerUA"}
        /\ state[t] = "completed" /\ state'[t] = "confirmed"
    BY <1>0, <1>7 DEF IS_a7_completed_confirmed_ACK, IS_Fires, Fires, Matches, Row,
       IS_Transitions, ISUA_Transitions, IS_Common, RequestKinds, Responses, Finals
  <2>2. Timeouts(t, {"timerG", "timerH"}, {"timerI"})
    BY <1>7 DEF IS_a7_completed_confirmed_ACK
  <2> QED
    BY <2>1, <2>2, TimeoutsDo DEF TimersKept, ResortOf, Timers
<1>8. CASE IS_a8_completed_completed_timerG(t)
  <2>1. /\ class[t] \in {"InviteServer", "InviteServerUA"}
        /\ state[t] = "completed" /\ state'[t] = "completed" /\ Current.kind # "timerH"
    BY <1>0, <1>8 DEF IS_a8_completed_completed_timerG, IS_Fires, Fires, Matches, Row,
       IS_Transitions, ISUA_Transitions, IS_Common, RequestKinds, Responses, Finals
  <2>2. Timeouts(t, {}, {"timerG"})
    BY <1>8 DEF IS_a8_completed_completed_timerG
  <2> QED
    BY <2>1, <2>2, TimeoutsDo DEF TimersKept, ResortOf, Timers
<1>9. CASE IS_a9_completed_terminated_errOrTimerH(t)
  <2>1. /\ class[t] \in {"InviteServer", "InviteServerUA"}
        /\ state[t] = "completed" /\ state'[t] = "terminated"
    BY <1>0, <1>9 DEF IS_a9_completed_terminated_errOrTimerH, IS_Fires, Fires, Matches, Row,
       IS_Transitions, ISUA_Transitions, IS_Common, RequestKinds, Responses, Finals
  <2>2. Timeouts(t, {"timerG", "timerH"}, {})
    BY <1>9 DEF IS_a9_completed_terminated_errOrTimerH
  <2> QED
    BY <2>1, <2>2, TimeoutsDo DEF TimersKept, ResortOf
<1>10. CASE IS_a10_confirmed_terminated_timerI(t)
  <2>1. /\ class[t] \in {"InviteServer", "InviteServerUA"}
        /\ state[t] = "confirmed" /\ state'[t] = "terminated"
    BY <1>0, <1>10 DEF IS_a10_confirmed_terminated_timerI, IS_Fires, Fires, Matches, Row,
       IS_Transitions, ISUA_Transitions, IS_Common, RequestKinds, Responses, Finals
  <2>2. Timeouts(t, {}, {})
    BY <1>10 DEF IS_a10_confirmed_terminated_timerI
  <2> QED
    BY <2>1, <2>2, TimeoutsDo DEF TimersKept, ResortOf
<1>11. CASE ISUA_a1001_proceeding_completed_2xx(t)
  <2>1. /\ class[t] \in {"InviteServer", "InviteServerUA"}
        /\ state[t] = "proceeding" /\ state'[t] = "completed"
    BY <1>0, <1>11 DEF ISUA_a1001_proceeding_completed_2xx, IS_Fires, Fires, Matches, Row,
       IS_Transitions, ISUA_Transitions, IS_Common, RequestKinds, Responses, Finals
  <2>2. Timeouts(t, {}, IS_FinalTimers)
    BY <1>11 DEF ISUA_a1001_proceeding_completed_2xx
  <2> QED
    BY <2>1, <2>2, TimeoutsDo DEF TimersKept, ResortOf, IS_FinalTimers, Timers
<1> QED
  BY <1>1, <1>2, <1>3, <1>4, <1>5, <1>6, <1>7, <1>8, <1>9, <1>10, <1>11
  DEF IS_Next

LEMMA NonInviteServerTimers ==
  ASSUME TypeOK, NEW t \in Trans, NS_Next(t)
  PROVE  TimersKept(t)
<1>0. state \in [Trans -> StateNames \union {"unborn", "freed"}]
  BY DEF TypeOK, TransactionTypeOK
<1>1. CASE NS_a1_trying_proceeding_1xx(t)
  <2>1. /\ class[t] = "NonInviteServer"
        /\ state[t] = "trying" /\ state'[t] = "proceeding"
    BY <1>0, <1>1 DEF NS_a1_trying_proceeding_1xx, NS_Fires, Fires, Matches, Row,
       NS_Transitions, RequestKinds, Responses, Finals
  <2>2. Timeouts(t, {}, {})
    BY <1>1 DEF NS_a1_trying_proceeding_1xx
  <2> QED
    BY <2>1, <2>2, TimeoutsDo DEF TimersKept, ResortOf
<1>2. CASE NS_a2_trying_completed_non1xxresp(t)
  <2>1. /\ class[t] = "NonInviteServer"
        /\ state[t] = "trying" /\ state'[t] = "completed"
    BY <1>0, <1>2 DEF NS_a2_trying_completed_non1xxresp, NS_Fires, Fires, Matches, Row,
       NS_Transitions, RequestKinds, Responses, Finals
  <2>2. Timeouts(t, {}, {"timerJ"})
    BY <1>2 DEF NS_a2_trying_completed_non1xxresp
  <2> QED
    BY <2>1, <2>2, TimeoutsDo DEF TimersKept, ResortOf, Timers
<1>3. CASE NS_a3_proceeding_completed_non1xxresp(t)
  <2>1. /\ class[t] = "NonInviteServer"
        /\ state[t] = "proceeding" /\ state'[t] = "completed"
    BY <1>0, <1>3 DEF NS_a3_proceeding_completed_non1xxresp, NS_Fires, Fires, Matches, Row,
       NS_Transitions, RequestKinds, Responses, Finals
  <2>2. Timeouts(t, {}, {"timerJ"})
    BY <1>3 DEF NS_a3_proceeding_completed_non1xxresp
  <2> QED
    BY <2>1, <2>2, TimeoutsDo DEF TimersKept, ResortOf, Timers
<1>4. CASE NS_a4_proceeding_proceeding_request(t)
  <2>1. /\ class[t] = "NonInviteServer"
        /\ state[t] = "proceeding" /\ state'[t] = "proceeding"
    BY <1>0, <1>4 DEF NS_a4_proceeding_proceeding_request, NS_Fires, Fires, Matches, Row,
       NS_Transitions, RequestKinds, Responses, Finals
  <2>2. Timeouts(t, {}, {})
    BY <1>4 DEF NS_a4_proceeding_proceeding_request
  <2> QED
    BY <2>1, <2>2, TimeoutsDo DEF TimersKept, ResortOf
<1>5. CASE NS_a5_proceeding_proceeding_1xx(t)
  <2>1. /\ class[t] = "NonInviteServer"
        /\ state[t] = "proceeding" /\ state'[t] = "proceeding"
    BY <1>0, <1>5 DEF NS_a5_proceeding_proceeding_1xx, NS_Fires, Fires, Matches, Row,
       NS_Transitions, RequestKinds, Responses, Finals
  <2>2. Timeouts(t, {}, {})
    BY <1>5 DEF NS_a5_proceeding_proceeding_1xx
  <2> QED
    BY <2>1, <2>2, TimeoutsDo DEF TimersKept, ResortOf
<1>6. CASE NS_a6_proceeding_terminated_transperr(t)
  <2>1. /\ class[t] = "NonInviteServer"
        /\ state[t] = "proceeding" /\ state'[t] = "terminated"
    BY <1>0, <1>6 DEF NS_a6_proceeding_terminated_transperr, NS_Fires, Fires, Matches, Row,
       NS_Transitions, RequestKinds, Responses, Finals
  <2>2. Timeouts(t, {}, {})
    BY <1>6 DEF NS_a6_proceeding_terminated_transperr
  <2> QED
    BY <2>1, <2>2, TimeoutsDo DEF TimersKept, ResortOf
<1>7. CASE NS_a7_completed_completed_request(t)
  <2>1. /\ class[t] = "NonInviteServer"
        /\ state[t] = "completed" /\ state'[t] = "completed" /\ Current.kind # "timerJ"
    BY <1>0, <1>7 DEF NS_a7_completed_completed_request, NS_Fires, Fires, Matches, Row,
       NS_Transitions, RequestKinds, Responses, Finals
  <2>2. Timeouts(t, {}, {})
    BY <1>7 DEF NS_a7_completed_completed_request
  <2> QED
    BY <2>1, <2>2, TimeoutsDo DEF TimersKept, ResortOf, Timers
<1>8. CASE NS_a8_completed_terminated_transperr(t)
  <2>1. /\ class[t] = "NonInviteServer"
        /\ state[t] = "completed" /\ state'[t] = "terminated"
    BY <1>0, <1>8 DEF NS_a8_completed_terminated_transperr, NS_Fires, Fires, Matches, Row,
       NS_Transitions, RequestKinds, Responses, Finals
  <2>2. Timeouts(t, {"timerJ"}, {})
    BY <1>8 DEF NS_a8_completed_terminated_transperr
  <2> QED
    BY <2>1, <2>2, TimeoutsDo DEF TimersKept, ResortOf
<1>9. CASE NS_a9_completed_terminated_timerJ(t)
  <2>1. /\ class[t] = "NonInviteServer"
        /\ state[t] = "completed" /\ state'[t] = "terminated"
    BY <1>0, <1>9 DEF NS_a9_completed_terminated_timerJ, NS_Fires, Fires, Matches, Row,
       NS_Transitions, RequestKinds, Responses, Finals
  <2>2. Timeouts(t, {}, {})
    BY <1>9 DEF NS_a9_completed_terminated_timerJ
  <2> QED
    BY <2>1, <2>2, TimeoutsDo DEF TimersKept, ResortOf
<1> QED
  BY <1>1, <1>2, <1>3, <1>4, <1>5, <1>6, <1>7, <1>8, <1>9
  DEF NS_Next

----------------------------------------------------------------------------
(* What is queued.                                                         *)

(* A handler queues no timeout, and nothing else for an object.            *)
LEMMA HandlerQueues ==
  ASSUME IInv, HasCommand, NEW t \in Trans, HandlerStep(t), NEW S,
         \A c \in S : c.obj # NoTrans
  PROVE  In(hiq', S) <=> In(HighRest, S)
<1>1. TypeOK /\ QueuesOK
  BY DEF IInv
<1>2. HighRest \in Seq(Command)
  BY <1>1, CurrentCommand
<1>3. \A k \in Kinds : /\ ToTU(k, t) \in Command /\ ToTU(k, t) \notin S
                       /\ Terminated(t) \in Command /\ Terminated(t) \notin S
  BY <1>1, CommandsOK DEF ToTU, Terminated, Cmd
<1>4. \E k \in Kinds : TRUE
  BY DEF Kinds
<1>5. PICK s \in StateNames : Queued(t, s)
  BY DEF HandlerStep, Moves
<1>6. CASE hiq' = HighRest
  BY <1>6
<1>7. CASE \E k \in Kinds : hiq' = Append(HighRest, ToTU(k, t))
  BY <1>2, <1>3, <1>7, InAppend
<1>8. CASE hiq' = Append(HighRest, Terminated(t))
  BY <1>2, <1>3, <1>4, <1>8, InAppend
<1>9. CASE \E k \in Kinds : hiq' = Append(Append(HighRest, ToTU(k, t)), Terminated(t))
  <2>1. PICK k \in Kinds : hiq' = Append(Append(HighRest, ToTU(k, t)), Terminated(t))
    BY <1>9
  <2>2. /\ Append(HighRest, ToTU(k, t)) \in Seq(Command)
        /\ In(Append(HighRest, ToTU(k, t)), S) <=> In(HighRest, S)
    BY <1>2, <1>3, InAppend
  <2> QED
    BY <1>3, <2>1, <2>2, InAppend
<1> QED
  BY <1>5, <1>6, <1>7, <1>8, <1>9 DEF Queued

(* A timeout that is on its way stays on its way over a step of the        *)
(* dispatcher that neither takes it nor cancels it.                        *)
LEMMA StaysOnItsWay ==
  ASSUME IInv, IInv', HasCommand, NEW t \in Trans, NEW x \in Timers,
         OnItsWay(t, x), expired' = expired, Pending(t, x) \subseteq requests',
         In(HighRest, TimeoutCmds(t, x)) => In(hiq', TimeoutCmds(t, x)),
         ~(TakesHigh /\ Current \in TimeoutCmds(t, x))
  PROVE  OnItsWay(t, x)'
<1>1. TypeOK /\ TypeOK'
  BY DEF IInv
<1>2. In(hiq, TimeoutCmds(t, x)) => In(hiq', TimeoutCmds(t, x))
  BY <1>1, HighRestHolds
<1>3. CASE In(hiq', TimeoutCmds(t, x))
  <2>1. \E i \in 1 .. Len(hiq') : hiq'[i].obj = t /\ hiq'[i].kind = x
    BY <1>3 DEF In, TimeoutCmds
  <2> QED
    BY <2>1 DEF OnItsWay
<1>4. CASE \E r \in requests \union expired : r.obj = t /\ r.timer = x
  BY <1>4 DEF Pending, OnItsWay
<1> QED
  BY <1>1, <1>2, <1>3, <1>4, Way

----------------------------------------------------------------------------
(* The steps.                                                              *)

(* A handler.                                                              *)
LEMMA HandleKeepsSInv ==
  ASSUME IInv, IInv', SInv, Handle
  PROVE  SInv'
<1>1. TypeOK /\ QueuesOK /\ LastOK /\ TypeOK'
  BY DEF IInv
<1>2. PICK t \in Trans : IC_Next(t) \/ NC_Next(t) \/ IS_Next(t) \/ NS_Next(t)
  BY DEF Handle
<1>3. HandlerStep(t)
  BY <1>1, <1>2, InviteClientStep, NonInviteClientStep, InviteServerStep,
     NonInviteServerStep
<1>4. TimersKept(t)
  BY <1>1, <1>2, InviteClientTimers, NonInviteClientTimers, InviteServerTimers,
     NonInviteServerTimers
<1>5. /\ HasCommand /\ UNCHANGED <<class, expired>>
      /\ \A u \in Trans \ {t} : state'[u] = state[u]
  BY <1>1, <1>3 DEF HandlerStep, Moves, TypeOK, TransactionTypeOK
<1>6. Current.obj \in {t, NoTrans}
  BY <1>2 DEF IC_Next, NC_Next, IS_Next, NS_Next, IC_Fires, NC_Fires, IS_Fires,
     NS_Fires, Fires, Receives, Offered,
     IC_a1_calling_calling_timerA, IC_a2_calling_proceeding_1xx,
     IC_a3_calling_completed_resp36, IC_a4_calling_terminated_ErrOrTimerB,
     IC_a5_calling_terminated_2xx, IC_a6_proceeding_proceeding_1xx,
     IC_a7_proceeding_terminated_2xx, IC_a8_proceeding_completed_resp36,
     IC_a9_completed_completed_resp36, IC_a11_completed_terminated_timerD,
     NC_a1_trying_proceeding_1xx, NC_a2_trying_terminated_TimerFOrErr,
     NC_a3_proceeding_completed_non1xxresp, NC_a4_proceeding_proceeding_timerE,
     NC_a5_proceeding_proceeding_1xx, NC_a6_proceeding_terminated_transperrOrTimerF,
     NC_a7_trying_completed_non1xxresp, NC_a8_trying_trying_timerE,
     NC_a9_completed_terminated_timerK, NC_a10_completed_completed_anyresp,
     IS_a1_proceeding_proceeding_INVITE, IS_a2_proceeding_proceeding_1xx,
     IS_a3_proceeding_completed_resp36, IS_a4_proceeding_terminated_err,
     IS_a5_proceeding_terminated_2xx, IS_a6_completed_completed_INVITE,
     IS_a7_completed_confirmed_ACK, IS_a8_completed_completed_timerG,
     IS_a9_completed_terminated_errOrTimerH, IS_a10_confirmed_terminated_timerI,
     ISUA_a1001_proceeding_completed_2xx,
     NS_a1_trying_proceeding_1xx, NS_a2_trying_completed_non1xxresp,
     NS_a3_proceeding_completed_non1xxresp, NS_a4_proceeding_proceeding_request,
     NS_a5_proceeding_proceeding_1xx, NS_a6_proceeding_terminated_transperr,
     NS_a7_completed_completed_request, NS_a8_completed_terminated_transperr,
     NS_a9_completed_terminated_timerJ
<1>7. \A u \in Trans, x \in Timers : In(hiq', TimeoutCmds(u, x)) <=> In(HighRest, TimeoutCmds(u, x))
  BY <1>3, <1>5, HandlerQueues, TransAssumption DEF TimeoutCmds
<1>8. ~In(hiq', StrayCmds)
  <2>1. In(hiq', StrayCmds) <=> In(HighRest, StrayCmds)
    BY <1>3, <1>5, HandlerQueues DEF StrayCmds
  <2> QED
    BY <1>1, <1>5, <2>1, HighRestHolds DEF SInv
<1>9. ASSUME NEW u \in Trans, NEW x \in Timers, ResortOf(class'[u], state'[u], x)
      PROVE  OnItsWay(u, x)'
  <2>1. CASE \E r \in requests' : r.obj = u /\ r.timer = x
    BY <2>1 DEF OnItsWay
  <2>2. ASSUME state'[u] = state[u], Pending(u, x) \subseteq requests',
               ~(TakesHigh /\ Current \in TimeoutCmds(u, x))
        PROVE  OnItsWay(u, x)'
    <3>1. OnItsWay(u, x)
      BY <1>5, <1>9, <2>2 DEF SInv, WaitsOK
    <3> QED
      BY <1>5, <1>7, <2>2, <3>1, StaysOnItsWay
  <2>3. CASE u = t
    BY <1>4, <1>5, <1>9, <2>1, <2>2, <2>3 DEF TimersKept, TimeoutCmds
  <2>4. CASE u # t
    BY <1>4, <1>5, <1>6, <2>2, <2>4, TransAssumption DEF TimersKept, TimeoutCmds, Pending
  <2> QED
    BY <2>3, <2>4
<1>10. WaitsOK'
  BY <1>9 DEF WaitsOK
<1>11. OneExpired'
  BY <1>5 DEF SInv, OneExpired
<1> QED
  BY <1>8, <1>10, <1>11 DEF SInv, StrayCmds

(* A new transaction.  The current command is a request, and no timeout.   *)
LEMMA CreateKeepsSInv ==
  ASSUME IInv, IInv', SInv, NEW t \in Trans, state[t] = "unborn",
         NEW cls, NEW s, Create(t, cls, s),
         NEW Y, Timeouts(t, {}, Y), \A x : ResortOf(cls, s, x) => x \in Y,
         \/ Enqueue(<<>>)
         \/ Enqueue(<<Cmd("transaction", "dialog", Current.kind, Current.key)>>)
  PROVE  SInv'
<1> DEFINE note == Cmd("transaction", "dialog", Current.kind, Current.key)
<1>1. TypeOK /\ QueuesOK /\ ObjectsOK
  BY DEF IInv
<1>2. /\ HasCommand /\ expired' = expired /\ Current.kind \in RequestKinds
      /\ class' = [class EXCEPT ![t] = cls] /\ state' = [state EXCEPT ![t] = s]
  BY DEF Create, IsRequest
<1>3. /\ HighRest \in Seq(Command) /\ Current \in Command
      /\ note \in Command /\ note.obj = NoTrans
  BY <1>1, <1>2, CurrentCommand DEF Cmd, Command
<1>4. hiq' = HighRest \/ hiq' = Append(HighRest, note)
  BY <1>3, Enqueued
<1> HIDE DEF note
<1>5. /\ class'[t] = cls /\ state'[t] = s
      /\ \A u \in Trans \ {t} : class'[u] = class[u] /\ state'[u] = state[u]
  BY <1>1, <1>2 DEF TypeOK, TransactionTypeOK
<1>6. \A S : (\A c \in S : c.obj # NoTrans) => (In(hiq', S) <=> In(HighRest, S))
  <2> TAKE S
  <2> HAVE \A c \in S : c.obj # NoTrans
  <2>1. note \notin S
    BY <1>3
  <2>2. In(Append(HighRest, note), S) <=> In(HighRest, S)
    BY <1>3, <2>1, InAppend
  <2>3. CASE hiq' = HighRest
    BY <2>3
  <2>4. CASE hiq' = Append(HighRest, note)
    BY <2>2, <2>4
  <2> QED
    BY <1>4, <2>3, <2>4
<1>7. \A u \in Trans, x \in Timers :
        /\ In(hiq', TimeoutCmds(u, x)) <=> In(HighRest, TimeoutCmds(u, x))
        /\ Current \notin TimeoutCmds(u, x)
  <2>1. \A u \in Trans, x \in Timers : \A c \in TimeoutCmds(u, x) : c.obj # NoTrans
    BY TransAssumption DEF TimeoutCmds
  <2> QED
    BY <1>2, <1>6, <2>1 DEF TimeoutCmds, Timers, RequestKinds
<1>8. ~In(hiq', StrayCmds)
  <2>1. \A c \in StrayCmds : c.obj # NoTrans
    BY DEF StrayCmds
  <2> QED
    BY <1>1, <1>2, <1>6, <2>1, HighRestHolds DEF SInv
<1>9. ASSUME NEW u \in Trans, NEW x \in Timers, ResortOf(class'[u], state'[u], x)
      PROVE  OnItsWay(u, x)'
  <2>1. CASE u = t
    <3>1. \E r \in requests' : r.obj = t /\ r.timer = x
      BY <1>1, <1>5, <1>9, <2>1, TimeoutsDo
    <3> QED
      BY <2>1, <3>1 DEF OnItsWay
  <2>2. CASE u # t
    <3>1. OnItsWay(u, x)
      BY <1>5, <1>9, <2>2 DEF SInv, WaitsOK
    <3>2. Pending(u, x) \subseteq requests'
      BY <1>1, <2>2, TimeoutsDo DEF Pending
    <3> QED
      BY <1>2, <1>7, <3>1, <3>2, StaysOnItsWay
  <2> QED
    BY <2>1, <2>2
<1>10. WaitsOK'
  BY <1>9 DEF WaitsOK
<1>11. OneExpired'
  BY <1>2 DEF SInv, OneExpired
<1> QED
  BY <1>8, <1>10, <1>11 DEF SInv, StrayCmds

LEMMA DefaultKeepsSInv ==
  ASSUME IInv, IInv', SInv, Default
  PROVE  SInv'
<1>1. Fresh \in Trans /\ state[Fresh] = "unborn"
  BY DEF Default, Fresh, Unborn
<1>2. CASE IC_a0_start_calling_INVITE(Fresh)
  <2>1. \A x : ResortOf("InviteClient", "calling", x) => x \in {"timerA", "timerB"}
    BY DEF ResortOf
  <2> QED
    BY <1>1, <1>2, <2>1, CreateKeepsSInv DEF IC_a0_start_calling_INVITE
<1>3. CASE NC_a0_start_trying_request(Fresh)
  <2>1. \A x : ResortOf("NonInviteClient", "trying", x) => x \in {"timerE", "timerF"}
    BY DEF ResortOf
  <2> QED
    BY <1>1, <1>3, <2>1, CreateKeepsSInv DEF NC_a0_start_trying_request
<1>4. CASE IS_a0_start_proceeding_INVITE(Fresh, HandleAck)
  <2> DEFINE cls == IF HandleAck THEN "InviteServerUA" ELSE "InviteServer"
  <2>1. \A x : ~ResortOf(cls, "proceeding", x)
    BY DEF ResortOf
  <2>2. /\ Create(Fresh, cls, "proceeding") /\ Timeouts(Fresh, {}, {})
        /\ Enqueue(<<Cmd("transaction", "dialog", Current.kind, Current.key)>>)
    BY <1>4 DEF IS_a0_start_proceeding_INVITE
  <2> HIDE DEF cls
  <2> QED
    BY <1>1, <2>1, <2>2, CreateKeepsSInv
<1>5. CASE NS_a0_start_trying_request(Fresh)
  <2>1. \A x : ~ResortOf("NonInviteServer", "trying", x)
    BY DEF ResortOf
  <2> QED
    BY <1>1, <1>5, <2>1, CreateKeepsSInv DEF NS_a0_start_trying_request
<1> QED
  BY <1>2, <1>3, <1>4, <1>5 DEF Default

(* A step of the dispatcher that takes a command without touching the      *)
(* timeouts: the command is not one that somebody waits for.               *)
LEMMA TakingKeepsSInv ==
  ASSUME IInv, IInv', SInv, HasCommand, Enqueue(<<>>),
         UNCHANGED <<class, requests, expired>>,
         \A u \in Trans, x \in Timers :
           ResortOf(class[u], state'[u], x) =>
             /\ state'[u] = state[u]
             /\ ~(TakesHigh /\ Current \in TimeoutCmds(u, x))
  PROVE  SInv'
<1>1. TypeOK /\ QueuesOK
  BY DEF IInv
<1>2. hiq' = HighRest
  BY <1>1, CurrentCommand DEF Enqueue
<1>3. ~In(hiq', StrayCmds)
  BY <1>1, <1>2, HighRestHolds DEF SInv
<1>4. ASSUME NEW u \in Trans, NEW x \in Timers, ResortOf(class'[u], state'[u], x)
      PROVE  OnItsWay(u, x)'
  <2>1. OnItsWay(u, x) /\ ~(TakesHigh /\ Current \in TimeoutCmds(u, x))
    BY <1>4 DEF SInv, WaitsOK
  <2>2. Pending(u, x) \subseteq requests' /\ expired' = expired
    BY DEF Pending
  <2> QED
    BY <1>2, <2>1, <2>2, StaysOnItsWay
<1>5. WaitsOK'
  BY <1>4 DEF WaitsOK
<1>6. OneExpired'
  BY DEF SInv, OneExpired
<1> QED
  BY <1>3, <1>5, <1>6 DEF SInv, StrayCmds

(* What no transaction takes is no timeout that somebody waits for.        *)
LEMMA NotHandledKeepsSInv ==
  ASSUME IInv, IInv', SInv, NotHandled
  PROVE  SInv'
<1>1. TypeOK
  BY DEF IInv
<1>2. /\ HasCommand /\ Refused(Current) /\ Enqueue(<<>>)
      /\ UNCHANGED <<class, state, requests, expired>>
  BY DEF NotHandled
<1>3. ASSUME NEW u \in Trans, NEW x \in Timers, ResortOf(class[u], state[u], x),
             TakesHigh, Current \in TimeoutCmds(u, x)
      PROVE  FALSE
  <2>1. Current.src = "transaction" /\ Current.dst = "transaction"
    <3>1. Current \notin StrayCmds
      BY <1>1, <1>2, <1>3, HighRestHolds DEF SInv
    <3> QED
      BY <1>3, <3>1, TransAssumption DEF StrayCmds, TimeoutCmds
  <2>2. Current.obj = u /\ Current.kind = x /\ u # NoTrans /\ ~IsPacket(Current)
    BY <1>3, TransAssumption
    DEF TimeoutCmds, IsPacket, Timers, RequestKinds, Responses, Finals
  <2>3. Receives(u, Current)
    BY <1>3, <2>1, <2>2 DEF Receives, Offered, Addressed, ResortOf, StateNames
  <2>4. Accepts(u, Current)
    <3>1. CASE class[u] = "InviteClient"
      <4>1. \E r \in IC_Transitions : Matches(r, u, Current)
        BY <1>3, <2>1, <2>2, <3>1 DEF ResortOf, IC_Transitions, Matches, Row
      <4> QED
        BY <2>3, <3>1, <4>1 DEF Accepts
    <3>2. CASE class[u] = "NonInviteClient"
      <4>1. \E r \in NC_Transitions : Matches(r, u, Current)
        BY <1>3, <2>1, <2>2, <3>2 DEF ResortOf, NC_Transitions, Matches, Row
      <4> QED
        BY <2>3, <3>2, <4>1 DEF Accepts
    <3>3. CASE class[u] \in {"InviteServer", "InviteServerUA"}
      <4>1. \E r \in IS_Common : Matches(r, u, Current)
        BY <1>3, <2>1, <2>2, <3>3 DEF ResortOf, IS_Common, Matches, Row
      <4> QED
        BY <2>3, <3>3, <4>1 DEF Accepts, IS_Transitions, ISUA_Transitions
    <3>4. CASE class[u] = "NonInviteServer"
      <4>1. \E r \in NS_Transitions : Matches(r, u, Current)
        BY <1>3, <2>1, <2>2, <3>4 DEF ResortOf, NS_Transitions, Matches, Row
      <4> QED
        BY <2>3, <3>4, <4>1 DEF Accepts
    <3> QED
      BY <1>3, <3>1, <3>2, <3>3, <3>4 DEF ResortOf
  <2> QED
    BY <1>2, <2>4 DEF Refused
<1> QED
  BY <1>2, <1>3, TakingKeepsSInv

(* A command for the dispatcher or the dialogs is no timeout.              *)
LEMMA OthersKeepSInv ==
  ASSUME IInv, IInv', SInv, TransactionTerminated \/ DialogReceives
  PROVE  SInv'
<1>1. TypeOK
  BY DEF IInv
<1>2. /\ HasCommand /\ Current.dst # "transaction" /\ Enqueue(<<>>)
      /\ UNCHANGED <<class, requests, expired>>
  BY DEF TransactionTerminated, DialogReceives
<1>3. \A u \in Trans : state'[u] \in {state[u], "freed"}
  BY <1>1 DEF TransactionTerminated, DialogReceives, TypeOK, TransactionTypeOK
<1>4. ASSUME NEW u \in Trans, NEW x \in Timers, ResortOf(class[u], state'[u], x)
      PROVE  state'[u] = state[u] /\ ~(TakesHigh /\ Current \in TimeoutCmds(u, x))
  <2>1. state'[u] = state[u]
    BY <1>3, <1>4 DEF ResortOf
  <2>2. ASSUME TakesHigh, Current \in TimeoutCmds(u, x)
        PROVE  FALSE
    <3>1. Current \in StrayCmds
      BY <1>2, <2>2, TransAssumption DEF TimeoutCmds, StrayCmds
    <3> QED
      BY <1>1, <1>2, <2>2, <3>1, HighRestHolds DEF SInv
  <2> QED
    BY <2>1, <2>2
<1> QED
  BY <1>2, <1>4, TakingKeepsSInv

(* The timer thread hands a timeout on: from the list to its hand, and     *)
(* from its hand, which holds no other, to the queue.                      *)
LEMMA TimerThreadKeepsSInv ==
  ASSUME IInv, IInv', SInv, TimerThread
  PROVE  SInv'
<1>1. TypeOK
  BY DEF IInv
<1>2. UNCHANGED <<class, state>> /\ hiq \in Seq(Command)
  BY <1>1 DEF TimerThread, Expire, DeliverTimeout, TypeOK, TransactionTypeOK
<1>3. ASSUME NEW r0 \in requests, Expire(r0)
      PROVE  SInv'
  <2>1. PICK rs \in SUBSET Pending(r0.obj, r0.timer) : requests' = requests \ rs
    BY <1>3 DEF Expire
  <2>2. hiq' = hiq /\ expired' = {r0} /\ expired = {}
    BY <1>3 DEF Expire
  <2>3. ASSUME NEW u \in Trans, NEW x \in Timers, OnItsWay(u, x)
        PROVE  OnItsWay(u, x)'
    <3>1. CASE \E i \in 1 .. Len(hiq) : hiq[i].obj = u /\ hiq[i].kind = x
      BY <2>2, <3>1 DEF OnItsWay
    <3>2. CASE \E r \in requests : r.obj = u /\ r.timer = x
      BY <2>1, <2>2, <3>2 DEF OnItsWay, Pending
    <3> QED
      BY <2>2, <2>3, <3>1, <3>2 DEF OnItsWay
  <2>4. WaitsOK'
    BY <1>2, <2>3 DEF SInv, WaitsOK
  <2> QED
    BY <2>2, <2>4 DEF SInv, OneExpired, StrayCmds
<1>4. ASSUME DeliverTimeout
      PROVE  SInv'
  <2>1. PICK r0 \in expired : hiq' = Append(hiq, Timeout(r0.obj, r0.timer))
    BY <1>4 DEF DeliverTimeout
  <2>2. requests' = requests /\ expired' = {}
    BY <1>4 DEF DeliverTimeout
  <2>3. r0.obj \in Trans /\ r0.timer \in Timers
    BY <1>1 DEF TypeOK, TransactionTypeOK, Request
  <2> DEFINE c == Timeout(r0.obj, r0.timer)
  <2>4. /\ c \in Command /\ c \notin StrayCmds
        /\ c.obj = r0.obj /\ c.kind = r0.timer
    BY <1>1, <2>3 DEF Timeout, Command, Kinds, StrayCmds, TypeOK, TransactionTypeOK
  <2>5. hiq' = Append(hiq, c)
    BY <2>1
  <2> HIDE DEF c
  <2>6. ~In(hiq', StrayCmds)
    BY <1>2, <2>4, <2>5, InAppend DEF SInv
  <2>7. ASSUME NEW u \in Trans, NEW x \in Timers, OnItsWay(u, x)
        PROVE  OnItsWay(u, x)'
    <3>1. CASE \E r \in requests : r.obj = u /\ r.timer = x
      BY <2>2, <3>1 DEF OnItsWay
    <3>2. CASE In(hiq, TimeoutCmds(u, x)) \/ c \in TimeoutCmds(u, x)
      <4>1. In(hiq', TimeoutCmds(u, x))
        BY <1>2, <2>4, <2>5, <3>2, InAppend
      <4> QED
        BY <4>1 DEF OnItsWay, In, TimeoutCmds
    <3>3. CASE \E r \in expired : r.obj = u /\ r.timer = x
      <4>1. r0.obj = u /\ r0.timer = x
        BY <3>3 DEF SInv, OneExpired
      <4> QED
        BY <2>4, <3>2, <4>1 DEF TimeoutCmds
    <3> QED
      BY <1>1, <2>7, <3>1, <3>2, <3>3, Way
  <2>8. WaitsOK'
    BY <1>2, <2>7 DEF SInv, WaitsOK
  <2> QED
    BY <2>2, <2>6, <2>8 DEF SInv, OneExpired, StrayCmds
<1> QED
  BY <1>3, <1>4 DEF TimerThread

(* The dialogs add a command for no object, the network none to hiq.       *)
LEMMA OutsideKeepsSInv ==
  ASSUME IInv, SInv, TUStep \/ Network
  PROVE  SInv'
<1>1. TypeOK
  BY DEF IInv
<1>2. UNCHANGED <<class, state, requests, expired>> /\ hiq \in Seq(Command)
  BY <1>1 DEF TUStep, TURequest, TUAnswer, FromTU, Network, SocketRead, TypeOK,
     TransactionTypeOK
<1>3. hiq' = hiq \/ \E c \in Command : c.obj = NoTrans /\ hiq' = Append(hiq, c)
  <2>1. ASSUME NEW k \in LocalKeys, TURequest(k)
        PROVE  \E c \in Command : c.obj = NoTrans /\ hiq' = Append(hiq, c)
    <3>1. Cmd("dialog", "transaction", k.method, k) \in Command
      BY DEF LocalKeys, Key, Cmd, Command, Kinds
    <3> QED
      BY <2>1, <3>1 DEF TURequest, FromTU, Cmd
  <2>2. ASSUME NEW k \in asked, NEW kind \in Responses, TUAnswer(k, kind)
        PROVE  \E c \in Command : c.obj = NoTrans /\ hiq' = Append(hiq, c)
    <3>1. Cmd("dialog", "transaction", kind, k) \in Command
      BY <1>1 DEF TypeOK, Cmd, Command, Kinds
    <3> QED
      BY <2>2, <3>1 DEF TUAnswer, FromTU, Cmd
  <2> QED
    BY <2>1, <2>2 DEF TUStep, Network, SocketRead
<1>4. \A S : (\A c \in S : c.obj # NoTrans) => (In(hiq', S) <=> In(hiq, S))
  BY <1>2, <1>3, InAppend
<1>5. ~In(hiq', StrayCmds)
  BY <1>4 DEF SInv, StrayCmds
<1>6. ASSUME NEW u \in Trans, NEW x \in Timers, OnItsWay(u, x)
      PROVE  OnItsWay(u, x)'
  <2>1. In(hiq', TimeoutCmds(u, x)) <=> In(hiq, TimeoutCmds(u, x))
    BY <1>4, TransAssumption DEF TimeoutCmds
  <2>2. In(hiq, TimeoutCmds(u, x)) \/ \E r \in requests \union expired : r.obj = u /\ r.timer = x
    BY <1>1, <1>6, Way
  <2> QED
    BY <1>2, <2>1, <2>2 DEF OnItsWay, In, TimeoutCmds
<1>7. WaitsOK'
  BY <1>2, <1>6 DEF SInv, WaitsOK
<1> QED
  BY <1>2, <1>5, <1>7 DEF SInv, OneExpired, StrayCmds

----------------------------------------------------------------------------
LEMMA InitSInv == Init => SInv
<1> SUFFICES ASSUME Init
             PROVE  SInv
  OBVIOUS
<1>1. \A t \in Trans, x \in Timers : ~ResortOf(class[t], state[t], x)
  BY DEF Init, ResortOf
<1>2. ~In(hiq, StrayCmds)
  BY DEF Init, In
<1> QED
  BY <1>1, <1>2 DEF Init, SInv, WaitsOK, OneExpired

LEMMA NextSInv == IInv /\ IInv' /\ SInv /\ [Next]_layerVars => SInv'
<1> SUFFICES ASSUME IInv, IInv', SInv, [Next]_layerVars
             PROVE  SInv'
  OBVIOUS
<1>1. CASE UNCHANGED layerVars
  BY <1>1 DEF layerVars, vars, SInv, WaitsOK, OnItsWay, OneExpired, StrayCmds, In
<1> QED
  BY <1>1, HandleKeepsSInv, DefaultKeepsSInv, NotHandledKeepsSInv, OthersKeepSInv,
     TimerThreadKeepsSInv, OutsideKeepsSInv
  DEF Next, Dispatch

(* No transaction is left waiting without the timeout that ends its wait:  *)
(* the races of the timer thread with the handlers lose none of them.      *)
THEOREM NeverStrands == Spec => []NeverStranded
<1>1. IInv /\ SInv => NeverStranded
  BY Stranding DEF IInv, SInv
<1> QED
  BY <1>1, InitSInv, NextSInv, Invariance, PTL DEF Spec

(***************************************************************************)
(* ConclusionIsLast: once a dialog was told the conclusion of a request,   *)
(* no word of it follows.                                                  *)
(*                                                                         *)
(* What makes it inductive is a property of the whole chain: in the queue  *)
(* no word is behind a conclusion; what is concluded, in the queue or at   *)
(* the dialog, has a transaction, and none that is still open; and a       *)
(* transaction that is not open says nothing.                              *)
(***************************************************************************)
(* The states in which a client transaction has not concluded.             *)
Open == {"calling", "trying", "proceeding"}
Clients == {"InviteClient", "NonInviteClient"}

(* Words of a transaction to the dialogs about the request k.              *)
Words(k) == {c \in Command : c.src = "transaction" /\ c.dst = "dialog" /\ c.key = k}
Conclusions(k) == {c \in Words(k) : c.kind \in Finals \union {"transport_error"}}
NothingBehind(q, k) ==
  \A i, j \in 1 .. Len(q) : i < j /\ q[i] \in Conclusions(k) => q[j] \notin Words(k)

(* Commands for the dialogs that are no words of a transaction: there are  *)
(* none but no_transactions, in the low queue.                             *)
Smuggled == {c \in Command : c.dst = "dialog" /\ c.src # "transaction"}
LowSmuggled == {c \in Command : c.dst = "dialog" /\ c.kind # "no_transactions"}

Owns(t, k) == class[t] # "none" /\ tid[t] = k
Concluded(k) == k \in told \/ In(hiq, Conclusions(k))

ConcludedOK(k) ==
  /\ k \in told => ~In(hiq, Words(k))
  /\ NothingBehind(hiq, k)
  /\ Concluded(k) => /\ \E t \in Trans : Owns(t, k)
                     /\ \A t \in Trans : Owns(t, k) => state[t] \notin Open
CInv ==
  /\ told \subseteq LocalKeys
  /\ ~In(hiq, Smuggled) /\ ~In(loq, LowSmuggled)
  /\ \A t \in Trans : class[t] # "none" /\ tid[t] \in LocalKeys => class[t] \in Clients
  /\ \A k \in LocalKeys : ConcludedOK(k)

----------------------------------------------------------------------------
(* The queue.                                                              *)
LEMMA BehindAppend ==
  ASSUME NEW q \in Seq(Command), NEW c \in Command, NEW k
  PROVE  NothingBehind(Append(q, c), k)
           <=> NothingBehind(q, k) /\ ~(In(q, Conclusions(k)) /\ c \in Words(k))
<1> DEFINE a == Append(q, c)
           n == Len(q)
<1>1. /\ n \in Nat /\ Len(a) = n + 1 /\ a[n + 1] = c
      /\ \A i \in 1 .. n : a[i] = q[i]
  OBVIOUS
<1> HIDE DEF a
<1>2. /\ \A i \in 1 .. (n + 1) : i \in 1 .. n \/ i = n + 1
      /\ \A i \in 1 .. n : i < n + 1 /\ i \in 1 .. (n + 1) /\ ~(n + 1 < i)
      /\ n + 1 \in 1 .. (n + 1) /\ ~(n + 1 < n + 1)
  BY <1>1
<1>3. NothingBehind(a, k)
        <=> NothingBehind(q, k) /\ ~(In(q, Conclusions(k)) /\ c \in Words(k))
  BY <1>1, <1>2 DEF NothingBehind, In
<1> QED
  BY <1>3 DEF a

LEMMA BehindTail ==
  ASSUME NEW q \in Seq(Command), q # <<>>, NEW k, NothingBehind(q, k)
  PROVE  /\ NothingBehind(Tail(q), k)
         /\ Head(q) \in Conclusions(k) => ~In(Tail(q), Words(k))
<1> DEFINE b == Tail(q)
           n == Len(q)
<1>1. /\ n \in Nat \ {0} /\ Len(b) = n - 1 /\ Head(q) = q[1]
      /\ \A i \in 1 .. (n - 1) : b[i] = q[i + 1]
  OBVIOUS
<1> HIDE DEF b
<1>2. /\ \A j \in 1 .. (n - 1) : j + 1 \in 1 .. n /\ 1 < j + 1
      /\ \A i, j \in 1 .. (n - 1) : i < j => i + 1 < j + 1
      /\ 1 \in 1 .. n
  BY <1>1
<1>3. NothingBehind(b, k)
  BY <1>1, <1>2 DEF NothingBehind
<1>4. Head(q) \in Conclusions(k) => ~In(b, Words(k))
  BY <1>1, <1>2 DEF NothingBehind, In
<1> QED
  BY <1>3, <1>4 DEF b

(* What the dispatcher leaves.                                             *)
LEMMA BehindRest ==
  ASSUME TypeOK, HasCommand, NEW k, NothingBehind(hiq, k)
  PROVE  /\ NothingBehind(HighRest, k)
         /\ TakesHigh /\ Current \in Conclusions(k) => ~In(HighRest, Words(k))
<1>1. hiq \in Seq(Command)
  BY DEF TypeOK, TransactionTypeOK
<1>2. CASE TakesHigh
  BY <1>1, <1>2, BehindTail DEF TakesHigh, Current, HighRest
<1>3. CASE ~TakesHigh
  BY <1>3 DEF HighRest
<1> QED
  BY <1>2, <1>3

(* A queue that got no new word about k.                                   *)
Quiet(p, q, k) ==
  /\ In(q, Words(k)) => In(p, Words(k))
  /\ In(q, Conclusions(k)) => In(p, Conclusions(k))
  /\ NothingBehind(p, k) => NothingBehind(q, k)

LEMMA QuietAppend ==
  ASSUME NEW q \in Seq(Command), NEW c \in Command, NEW k, c \notin Words(k)
  PROVE  Quiet(q, Append(q, c), k)
BY InAppend, BehindAppend DEF Quiet, Conclusions

LEMMA QuietRest ==
  ASSUME TypeOK, HasCommand, NEW k
  PROVE  Quiet(hiq, HighRest, k)
BY HighRestHolds, BehindRest DEF Quiet

(* A step that says no word about k, with which no transaction of k's      *)
(* appears or opens.                                                       *)
LEMMA QuietKeeps ==
  ASSUME NEW k, ConcludedOK(k), Quiet(hiq, hiq', k), k \in told' => k \in told,
         \A t \in Trans : Owns(t, k) => Owns(t, k)',
         Concluded(k) => \A t \in Trans :
           Owns(t, k)' => Owns(t, k) /\ (state'[t] \in Open => state[t] \in Open)
  PROVE  ConcludedOK(k)'
<1>1. (k \in told' \/ In(hiq', Conclusions(k))) => Concluded(k)
  BY DEF Quiet, Concluded
<1>2. k \in told' => ~In(hiq', Words(k))
  BY DEF Quiet, ConcludedOK
<1>3. NothingBehind(hiq', k)
  BY DEF Quiet, ConcludedOK
<1>4. Concluded(k) => /\ \E t \in Trans : Owns(t, k)'
                      /\ \A t \in Trans : Owns(t, k)' => state'[t] \notin Open
  BY DEF ConcludedOK
<1> QED
  BY <1>1, <1>2, <1>3, <1>4 DEF ConcludedOK, Concluded, Conclusions, Words

(* What a step that sends leaves in the low queue.                         *)
LEMMA LowKept ==
  ASSUME TypeOK, QueuesOK, HasCommand, SendsOK, ~In(loq, LowSmuggled)
  PROVE  ~In(loq', LowSmuggled)
<1>1. loq \in Seq(Command) /\ LowRest \in Seq(Command)
  BY CurrentCommand DEF TypeOK, TransactionTypeOK
<1>2. ~In(LowRest, LowSmuggled)
  BY <1>1, InTail DEF LowRest, TakesHigh, HasCommand
<1>3. \A k \in Key : TransportError(k) \in Command /\ TransportError(k) \notin LowSmuggled
  BY DEF TransportError, Cmd, Command, Kinds, LowSmuggled
<1> QED
  BY <1>1, <1>2, <1>3, InAppend DEF SendsOK

----------------------------------------------------------------------------
(* What a client transaction's handler says: nothing once the transaction  *)
(* has concluded, and with a conclusion it concludes.                      *)
SaysRight(t) ==
  /\ state[t] \notin Open => state'[t] \notin Open
  /\ \/ hiq' = HighRest
     \/ hiq' = Append(HighRest, Terminated(t))
     \/ /\ state[t] \in Open
        /\ \E k \in Kinds :
             /\ k \in Finals \union {"transport_error"} => state'[t] \notin Open
             /\ \/ hiq' = Append(HighRest, ToTU(k, t))
                \/ hiq' = Append(Append(HighRest, ToTU(k, t)), Terminated(t))

(* The INVITE client transaction, one step for each handler.               *)
LEMMA InviteClientSays ==
  ASSUME TypeOK, QueuesOK, NEW t \in Trans, IC_Next(t)
  PROVE  SaysRight(t)
<1>a. state \in [Trans -> StateNames \union {"unborn", "freed"}]
  BY DEF TypeOK, TransactionTypeOK
<1>b. /\ \A k \in Kinds : ToTU(k, t) \in Command
      /\ Terminated(t) \in Command /\ "transport_error" \in Kinds
  BY CommandsOK DEF Kinds
<1>1. CASE IC_a1_calling_calling_timerA(t)
  <2>1. HasCommand /\ state[t] = "calling" /\ state'[t] = "calling"
    BY <1>a, <1>1 DEF IC_a1_calling_calling_timerA, IC_Fires, Fires, Matches,
       Row, IC_Transitions
  <2>2. HighRest \in Seq(Command) /\ Current.kind \in Kinds
    BY <2>1, CurrentCommand DEF Command
  <2>3. Enqueue(<<>>)
    BY <1>1 DEF IC_a1_calling_calling_timerA
  <2> QED
    BY <1>b, <2>1, <2>2, <2>3, Enqueued DEF SaysRight, Open, Finals
<1>2. CASE IC_a2_calling_proceeding_1xx(t)
  <2>1. HasCommand /\ state[t] = "calling" /\ state'[t] = "proceeding" /\ Current.kind = "1xx"
    BY <1>a, <1>2 DEF IC_a2_calling_proceeding_1xx, IC_Fires, Fires, Matches,
       Row, IC_Transitions
  <2>2. HighRest \in Seq(Command) /\ Current.kind \in Kinds
    BY <2>1, CurrentCommand DEF Command
  <2>3. Enqueue(<<ToTU(Current.kind, t)>>)
    BY <1>2 DEF IC_a2_calling_proceeding_1xx
  <2> QED
    BY <1>b, <2>1, <2>2, <2>3, Enqueued DEF SaysRight, Open, Finals
<1>3. CASE IC_a3_calling_completed_resp36(t)
  <2>1. HasCommand /\ state[t] = "calling" /\ state'[t] = "completed"
    BY <1>a, <1>3 DEF IC_a3_calling_completed_resp36, IC_Fires, Fires, Matches,
       Row, IC_Transitions
  <2>2. HighRest \in Seq(Command) /\ Current.kind \in Kinds
    BY <2>1, CurrentCommand DEF Command
  <2>3. Enqueue(<<ToTU(Current.kind, t)>>)
    BY <1>3 DEF IC_a3_calling_completed_resp36
  <2> QED
    BY <1>b, <2>1, <2>2, <2>3, Enqueued DEF SaysRight, Open, Finals
<1>4. CASE IC_a4_calling_terminated_ErrOrTimerB(t)
  <2>1. HasCommand /\ state[t] = "calling" /\ state'[t] = "terminated"
    BY <1>a, <1>4 DEF IC_a4_calling_terminated_ErrOrTimerB, IC_Fires, Fires, Matches,
       Row, IC_Transitions
  <2>2. HighRest \in Seq(Command) /\ Current.kind \in Kinds
    BY <2>1, CurrentCommand DEF Command
  <2>3. Enqueue(<<ToTU("transport_error", t), Terminated(t)>>)
    BY <1>4 DEF IC_a4_calling_terminated_ErrOrTimerB
  <2> QED
    BY <1>b, <2>1, <2>2, <2>3, Enqueued DEF SaysRight, Open, Finals
<1>5. CASE IC_a5_calling_terminated_2xx(t)
  <2>1. HasCommand /\ state[t] = "calling" /\ state'[t] = "terminated"
    BY <1>a, <1>5 DEF IC_a5_calling_terminated_2xx, IC_Fires, Fires, Matches,
       Row, IC_Transitions
  <2>2. HighRest \in Seq(Command) /\ Current.kind \in Kinds
    BY <2>1, CurrentCommand DEF Command
  <2>3. Enqueue(<<ToTU(Current.kind, t), Terminated(t)>>)
    BY <1>5 DEF IC_a5_calling_terminated_2xx
  <2> QED
    BY <1>b, <2>1, <2>2, <2>3, Enqueued DEF SaysRight, Open, Finals
<1>6. CASE IC_a6_proceeding_proceeding_1xx(t)
  <2>1. HasCommand /\ state[t] = "proceeding" /\ state'[t] = "proceeding" /\ Current.kind = "1xx"
    BY <1>a, <1>6 DEF IC_a6_proceeding_proceeding_1xx, IC_Fires, Fires, Matches,
       Row, IC_Transitions
  <2>2. HighRest \in Seq(Command) /\ Current.kind \in Kinds
    BY <2>1, CurrentCommand DEF Command
  <2>3. Enqueue(<<ToTU(Current.kind, t)>>)
    BY <1>6 DEF IC_a6_proceeding_proceeding_1xx
  <2> QED
    BY <1>b, <2>1, <2>2, <2>3, Enqueued DEF SaysRight, Open, Finals
<1>7. CASE IC_a7_proceeding_terminated_2xx(t)
  <2>1. HasCommand /\ state[t] = "proceeding" /\ state'[t] = "terminated"
    BY <1>a, <1>7 DEF IC_a7_proceeding_terminated_2xx, IC_Fires, Fires, Matches,
       Row, IC_Transitions
  <2>2. HighRest \in Seq(Command) /\ Current.kind \in Kinds
    BY <2>1, CurrentCommand DEF Command
  <2>3. Enqueue(<<ToTU(Current.kind, t), Terminated(t)>>)
    BY <1>7 DEF IC_a7_proceeding_terminated_2xx
  <2> QED
    BY <1>b, <2>1, <2>2, <2>3, Enqueued DEF SaysRight, Open, Finals
<1>8. CASE IC_a8_proceeding_completed_resp36(t)
  <2>1. HasCommand /\ state[t] = "proceeding" /\ state'[t] = "completed"
    BY <1>a, <1>8 DEF IC_a8_proceeding_completed_resp36, IC_Fires, Fires, Matches,
       Row, IC_Transitions
  <2>2. HighRest \in Seq(Command) /\ Current.kind \in Kinds
    BY <2>1, CurrentCommand DEF Command
  <2>3. Enqueue(<<ToTU(Current.kind, t)>>)
    BY <1>8 DEF IC_a8_proceeding_completed_resp36
  <2> QED
    BY <1>b, <2>1, <2>2, <2>3, Enqueued DEF SaysRight, Open, Finals
<1>9. CASE IC_a9_completed_completed_resp36(t)
  <2>1. HasCommand /\ state[t] = "completed" /\ state'[t] = "completed"
    BY <1>a, <1>9 DEF IC_a9_completed_completed_resp36, IC_Fires, Fires, Matches,
       Row, IC_Transitions
  <2>2. HighRest \in Seq(Command) /\ Current.kind \in Kinds
    BY <2>1, CurrentCommand DEF Command
  <2>3. Enqueue(<<>>)
    BY <1>9 DEF IC_a9_completed_completed_resp36
  <2> QED
    BY <1>b, <2>1, <2>2, <2>3, Enqueued DEF SaysRight, Open, Finals
<1>10. CASE IC_a11_completed_terminated_timerD(t)
  <2>1. HasCommand /\ state[t] = "completed" /\ state'[t] = "terminated"
    BY <1>a, <1>10 DEF IC_a11_completed_terminated_timerD, IC_Fires, Fires, Matches,
       Row, IC_Transitions
  <2>2. HighRest \in Seq(Command) /\ Current.kind \in Kinds
    BY <2>1, CurrentCommand DEF Command
  <2>3. Enqueue(<<Terminated(t)>>)
    BY <1>10 DEF IC_a11_completed_terminated_timerD
  <2> QED
    BY <1>b, <2>1, <2>2, <2>3, Enqueued DEF SaysRight, Open, Finals
<1> QED
  BY <1>1, <1>2, <1>3, <1>4, <1>5, <1>6, <1>7, <1>8, <1>9, <1>10
  DEF IC_Next

(* The non-INVITE client transaction, likewise.                            *)
LEMMA NonInviteClientSays ==
  ASSUME TypeOK, QueuesOK, NEW t \in Trans, NC_Next(t)
  PROVE  SaysRight(t)
<1>a. state \in [Trans -> StateNames \union {"unborn", "freed"}]
  BY DEF TypeOK, TransactionTypeOK
<1>b. /\ \A k \in Kinds : ToTU(k, t) \in Command
      /\ Terminated(t) \in Command /\ "transport_error" \in Kinds
  BY CommandsOK DEF Kinds
<1>1. CASE NC_a1_trying_proceeding_1xx(t)
  <2>1. HasCommand /\ state[t] = "trying" /\ state'[t] = "proceeding" /\ Current.kind = "1xx"
    BY <1>a, <1>1 DEF NC_a1_trying_proceeding_1xx, NC_Fires, Fires, Matches,
       Row, NC_Transitions
  <2>2. HighRest \in Seq(Command) /\ Current.kind \in Kinds
    BY <2>1, CurrentCommand DEF Command
  <2>3. Enqueue(<<ToTU(Current.kind, t)>>)
    BY <1>1 DEF NC_a1_trying_proceeding_1xx
  <2> QED
    BY <1>b, <2>1, <2>2, <2>3, Enqueued DEF SaysRight, Open, Finals
<1>2. CASE NC_a2_trying_terminated_TimerFOrErr(t)
  <2>1. HasCommand /\ state[t] = "trying" /\ state'[t] = "terminated"
    BY <1>a, <1>2 DEF NC_a2_trying_terminated_TimerFOrErr, NC_Fires, Fires, Matches,
       Row, NC_Transitions
  <2>2. HighRest \in Seq(Command) /\ Current.kind \in Kinds
    BY <2>1, CurrentCommand DEF Command
  <2>3. Enqueue(<<ToTU("transport_error", t), Terminated(t)>>)
    BY <1>2 DEF NC_a2_trying_terminated_TimerFOrErr
  <2> QED
    BY <1>b, <2>1, <2>2, <2>3, Enqueued DEF SaysRight, Open, Finals
<1>3. CASE NC_a3_proceeding_completed_non1xxresp(t)
  <2>1. HasCommand /\ state[t] = "proceeding" /\ state'[t] = "completed"
    BY <1>a, <1>3 DEF NC_a3_proceeding_completed_non1xxresp, NC_Fires, Fires, Matches,
       Row, NC_Transitions
  <2>2. HighRest \in Seq(Command) /\ Current.kind \in Kinds
    BY <2>1, CurrentCommand DEF Command
  <2>3. Enqueue(<<ToTU(Current.kind, t)>>)
    BY <1>3 DEF NC_a3_proceeding_completed_non1xxresp
  <2> QED
    BY <1>b, <2>1, <2>2, <2>3, Enqueued DEF SaysRight, Open, Finals
<1>4. CASE NC_a4_proceeding_proceeding_timerE(t)
  <2>1. HasCommand /\ state[t] = "proceeding" /\ state'[t] = "proceeding"
    BY <1>a, <1>4 DEF NC_a4_proceeding_proceeding_timerE, NC_Fires, Fires, Matches,
       Row, NC_Transitions
  <2>2. HighRest \in Seq(Command) /\ Current.kind \in Kinds
    BY <2>1, CurrentCommand DEF Command
  <2>3. Enqueue(<<>>)
    BY <1>4 DEF NC_a4_proceeding_proceeding_timerE
  <2> QED
    BY <1>b, <2>1, <2>2, <2>3, Enqueued DEF SaysRight, Open, Finals
<1>5. CASE NC_a5_proceeding_proceeding_1xx(t)
  <2>1. HasCommand /\ state[t] = "proceeding" /\ state'[t] = "proceeding" /\ Current.kind = "1xx"
    BY <1>a, <1>5 DEF NC_a5_proceeding_proceeding_1xx, NC_Fires, Fires, Matches,
       Row, NC_Transitions
  <2>2. HighRest \in Seq(Command) /\ Current.kind \in Kinds
    BY <2>1, CurrentCommand DEF Command
  <2>3. Enqueue(<<ToTU(Current.kind, t)>>)
    BY <1>5 DEF NC_a5_proceeding_proceeding_1xx
  <2> QED
    BY <1>b, <2>1, <2>2, <2>3, Enqueued DEF SaysRight, Open, Finals
<1>6. CASE NC_a6_proceeding_terminated_transperrOrTimerF(t)
  <2>1. HasCommand /\ state[t] = "proceeding" /\ state'[t] = "terminated"
    BY <1>a, <1>6 DEF NC_a6_proceeding_terminated_transperrOrTimerF, NC_Fires, Fires, Matches,
       Row, NC_Transitions
  <2>2. HighRest \in Seq(Command) /\ Current.kind \in Kinds
    BY <2>1, CurrentCommand DEF Command
  <2>3. Enqueue(<<ToTU("transport_error", t), Terminated(t)>>)
    BY <1>6 DEF NC_a6_proceeding_terminated_transperrOrTimerF
  <2> QED
    BY <1>b, <2>1, <2>2, <2>3, Enqueued DEF SaysRight, Open, Finals
<1>7. CASE NC_a7_trying_completed_non1xxresp(t)
  <2>1. HasCommand /\ state[t] = "trying" /\ state'[t] = "completed"
    BY <1>a, <1>7 DEF NC_a7_trying_completed_non1xxresp, NC_Fires, Fires, Matches,
       Row, NC_Transitions
  <2>2. HighRest \in Seq(Command) /\ Current.kind \in Kinds
    BY <2>1, CurrentCommand DEF Command
  <2>3. Enqueue(<<ToTU(Current.kind, t)>>)
    BY <1>7 DEF NC_a7_trying_completed_non1xxresp
  <2> QED
    BY <1>b, <2>1, <2>2, <2>3, Enqueued DEF SaysRight, Open, Finals
<1>8. CASE NC_a8_trying_trying_timerE(t)
  <2>1. HasCommand /\ state[t] = "trying" /\ state'[t] = "trying"
    BY <1>a, <1>8 DEF NC_a8_trying_trying_timerE, NC_Fires, Fires, Matches,
       Row, NC_Transitions
  <2>2. HighRest \in Seq(Command) /\ Current.kind \in Kinds
    BY <2>1, CurrentCommand DEF Command
  <2>3. Enqueue(<<>>)
    BY <1>8 DEF NC_a8_trying_trying_timerE
  <2> QED
    BY <1>b, <2>1, <2>2, <2>3, Enqueued DEF SaysRight, Open, Finals
<1>9. CASE NC_a9_completed_terminated_timerK(t)
  <2>1. HasCommand /\ state[t] = "completed" /\ state'[t] = "terminated"
    BY <1>a, <1>9 DEF NC_a9_completed_terminated_timerK, NC_Fires, Fires, Matches,
       Row, NC_Transitions
  <2>2. HighRest \in Seq(Command) /\ Current.kind \in Kinds
    BY <2>1, CurrentCommand DEF Command
  <2>3. Enqueue(<<Terminated(t)>>)
    BY <1>9 DEF NC_a9_completed_terminated_timerK
  <2> QED
    BY <1>b, <2>1, <2>2, <2>3, Enqueued DEF SaysRight, Open, Finals
<1>10. CASE NC_a10_completed_completed_anyresp(t)
  <2>1. HasCommand /\ state[t] = "completed" /\ state'[t] = "completed"
    BY <1>a, <1>10 DEF NC_a10_completed_completed_anyresp, NC_Fires, Fires, Matches,
       Row, NC_Transitions
  <2>2. HighRest \in Seq(Command) /\ Current.kind \in Kinds
    BY <2>1, CurrentCommand DEF Command
  <2>3. Enqueue(<<>>)
    BY <1>10 DEF NC_a10_completed_completed_anyresp
  <2> QED
    BY <1>b, <2>1, <2>2, <2>3, Enqueued DEF SaysRight, Open, Finals
<1> QED
  BY <1>1, <1>2, <1>3, <1>4, <1>5, <1>6, <1>7, <1>8, <1>9, <1>10
  DEF NC_Next

----------------------------------------------------------------------------
(* The steps.                                                              *)

(* Whatever class t has: the words of its handler are about its own key.   *)
LEMMA HandlerQuiet ==
  ASSUME IInv, NEW t \in Trans, HandlerStep(t), NEW k, tid[t] # k
  PROVE  Quiet(hiq, hiq', k)
<1>1. TypeOK /\ QueuesOK /\ HasCommand
  BY DEF IInv, HandlerStep, Moves
<1>2. HighRest \in Seq(Command)
  BY <1>1, CurrentCommand
<1>3. \A x \in Kinds : /\ ToTU(x, t) \in Command /\ ToTU(x, t) \notin Words(k)
                       /\ Terminated(t) \in Command /\ Terminated(t) \notin Words(k)
  BY <1>1, CommandsOK DEF ToTU, Terminated, Cmd, Words
<1>4. "INVITE" \in Kinds
  BY DEF Kinds, RequestKinds
<1>5. PICK s \in StateNames : Queued(t, s)
  BY DEF HandlerStep, Moves
<1>6. Quiet(hiq, HighRest, k)
  BY <1>1, QuietRest
<1>7. CASE hiq' = HighRest
  BY <1>6, <1>7
<1>8. CASE \E x \in Kinds : hiq' = Append(HighRest, ToTU(x, t))
  BY <1>2, <1>3, <1>6, <1>8, QuietAppend DEF Quiet
<1>9. CASE hiq' = Append(HighRest, Terminated(t))
  BY <1>2, <1>3, <1>4, <1>6, <1>9, QuietAppend DEF Quiet
<1>10. CASE \E x \in Kinds : hiq' = Append(Append(HighRest, ToTU(x, t)), Terminated(t))
  <2>1. PICK x \in Kinds : hiq' = Append(Append(HighRest, ToTU(x, t)), Terminated(t))
    BY <1>10
  <2>2. /\ Append(HighRest, ToTU(x, t)) \in Seq(Command)
        /\ Quiet(HighRest, Append(HighRest, ToTU(x, t)), k)
    BY <1>2, <1>3, QuietAppend, InAppend
  <2>3. Quiet(Append(HighRest, ToTU(x, t)), hiq', k)
    BY <1>3, <2>1, <2>2, QuietAppend
  <2> QED
    BY <1>6, <2>2, <2>3 DEF Quiet
<1> QED
  BY <1>5, <1>7, <1>8, <1>9, <1>10 DEF Queued

(* A client transaction's handler, for the request it is about.            *)
LEMMA ClientKeeps ==
  ASSUME IInv, NEW t \in Trans, HandlerStep(t), SaysRight(t), told' = told,
         NEW k \in LocalKeys, tid[t] = k, class[t] # "none", ConcludedOK(k)
  PROVE  ConcludedOK(k)'
<1>1. TypeOK /\ QueuesOK /\ LocalOK /\ HasCommand /\ UNCHANGED <<class, tid>>
  BY DEF IInv, HandlerStep, Moves
<1>2. HighRest \in Seq(Command) /\ k \in Key
  BY <1>1, CurrentCommand DEF TypeOK, TransactionTypeOK
<1>3. \A u \in Trans \ {t} : state'[u] = state[u]
  BY <1>1 DEF HandlerStep, Moves, TypeOK, TransactionTypeOK
<1>4. \A u \in Trans : Owns(u, k)' <=> Owns(u, k)
  BY <1>1 DEF Owns
<1>5. Owns(t, k) /\ Quiet(hiq, HighRest, k)
  BY <1>1, QuietRest DEF Owns
<1>6. /\ Terminated(t) \in Command /\ Terminated(t) \notin Words(k)
      /\ \A x \in Kinds : ToTU(x, t) \in Command
  BY <1>1, CommandsOK DEF Terminated, Cmd, Words, Kinds
<1>7. CASE hiq' = HighRest \/ hiq' = Append(HighRest, Terminated(t))
  <2>1. Quiet(hiq, hiq', k)
    <3>1. Quiet(HighRest, Append(HighRest, Terminated(t)), k)
      BY <1>2, <1>6, QuietAppend
    <3>2. CASE hiq' = HighRest
      BY <1>5, <3>2
    <3>3. CASE hiq' = Append(HighRest, Terminated(t))
      BY <1>5, <3>1, <3>3 DEF Quiet
    <3> QED
      BY <1>7, <3>2, <3>3
  <2>2. \A u \in Trans : state'[u] \in Open => state[u] \in Open
    BY <1>3 DEF SaysRight
  <2> QED
    BY <1>4, <2>1, <2>2, QuietKeeps
<1>8. ASSUME state[t] \in Open, NEW x \in Kinds,
             x \in Finals \union {"transport_error"} => state'[t] \notin Open,
             \/ hiq' = Append(HighRest, ToTU(x, t))
             \/ hiq' = Append(Append(HighRest, ToTU(x, t)), Terminated(t))
      PROVE  ConcludedOK(k)'
  <2> DEFINE w == ToTU(x, t)
             q == Append(HighRest, w)
  <2>1. k \notin told /\ ~In(hiq, Conclusions(k)) /\ NothingBehind(hiq, k)
    BY <1>5, <1>8 DEF ConcludedOK, Concluded
  <2>2. NothingBehind(HighRest, k) /\ ~In(HighRest, Conclusions(k))
    BY <1>5, <2>1 DEF Quiet
  <2>3. w \in Command /\ (w \in Conclusions(k) => x \in Finals \union {"transport_error"})
    BY <1>6 DEF ToTU, Cmd, Conclusions
  <2> HIDE DEF w
  <2>4. /\ q \in Seq(Command) /\ NothingBehind(q, k)
        /\ In(q, Conclusions(k)) => w \in Conclusions(k)
    BY <1>2, <2>2, <2>3, BehindAppend, InAppend
  <2>5. hiq' = q \/ hiq' = Append(q, Terminated(t))
    BY <1>8 DEF w
  <2> HIDE DEF q
  <2>6. NothingBehind(hiq', k) /\ (In(hiq', Conclusions(k)) => w \in Conclusions(k))
    <3>1. Quiet(q, Append(q, Terminated(t)), k)
      BY <1>6, <2>4, QuietAppend
    <3>2. CASE hiq' = q
      BY <2>4, <3>2
    <3>3. CASE hiq' = Append(q, Terminated(t))
      BY <2>4, <3>1, <3>3 DEF Quiet
    <3> QED
      BY <2>5, <3>2, <3>3
  <2>7. ASSUME NEW u \in Trans, Owns(u, k), u # t
        PROVE  state'[u] \notin Open
    <3>1. \A v \in Trans : state[v] \in StateNames /\ tid[v] = k => table[k] = v
      BY <1>1 DEF LocalOK
    <3> QED
      BY <1>3, <1>8, <2>7, <3>1 DEF Owns, Open, StateNames
  <2>8. In(hiq', Conclusions(k)) => \A u \in Trans : Owns(u, k) => state'[u] \notin Open
    BY <1>8, <2>3, <2>6, <2>7
  <2> QED
    BY <1>1, <1>4, <1>5, <2>1, <2>6, <2>8
    DEF ConcludedOK, Concluded, Conclusions, Words, Owns
<1> QED
  BY <1>7, <1>8 DEF SaysRight

(* A handler.                                                              *)
LEMMA HandleKeepsCInv ==
  ASSUME IInv, CInv, Handle, told' = told
  PROVE  CInv'
<1>1. TypeOK /\ QueuesOK /\ LastOK
  BY DEF IInv
<1>2. PICK t \in Trans : IC_Next(t) \/ NC_Next(t) \/ IS_Next(t) \/ NS_Next(t)
  BY DEF Handle
<1>3. HandlerStep(t)
  BY <1>1, <1>2, InviteClientStep, NonInviteClientStep, InviteServerStep,
     NonInviteServerStep
<1>4. /\ HasCommand /\ UNCHANGED <<class, tid>>
      /\ \A u \in Trans \ {t} : state'[u] = state[u]
  BY <1>1, <1>3 DEF HandlerStep, Moves, TypeOK, TransactionTypeOK
<1>5. class[t] # "none" /\ (class[t] \in Clients => IC_Next(t) \/ NC_Next(t))
  BY <1>2 DEF Clients, IC_Next, NC_Next, IS_Next, NS_Next, IC_Fires, NC_Fires,
     IS_Fires, NS_Fires,
     IC_a1_calling_calling_timerA, IC_a2_calling_proceeding_1xx,
     IC_a3_calling_completed_resp36, IC_a4_calling_terminated_ErrOrTimerB,
     IC_a5_calling_terminated_2xx, IC_a6_proceeding_proceeding_1xx,
     IC_a7_proceeding_terminated_2xx, IC_a8_proceeding_completed_resp36,
     IC_a9_completed_completed_resp36, IC_a11_completed_terminated_timerD,
     NC_a1_trying_proceeding_1xx, NC_a2_trying_terminated_TimerFOrErr,
     NC_a3_proceeding_completed_non1xxresp, NC_a4_proceeding_proceeding_timerE,
     NC_a5_proceeding_proceeding_1xx, NC_a6_proceeding_terminated_transperrOrTimerF,
     NC_a7_trying_completed_non1xxresp, NC_a8_trying_trying_timerE,
     NC_a9_completed_terminated_timerK, NC_a10_completed_completed_anyresp,
     IS_a1_proceeding_proceeding_INVITE, IS_a2_proceeding_proceeding_1xx,
     IS_a3_proceeding_completed_resp36, IS_a4_proceeding_terminated_err,
     IS_a5_proceeding_terminated_2xx, IS_a6_completed_completed_INVITE,
     IS_a7_completed_confirmed_ACK, IS_a8_completed_completed_timerG,
     IS_a9_completed_terminated_errOrTimerH, IS_a10_confirmed_terminated_timerI,
     ISUA_a1001_proceeding_completed_2xx,
     NS_a1_trying_proceeding_1xx, NS_a2_trying_completed_non1xxresp,
     NS_a3_proceeding_completed_non1xxresp, NS_a4_proceeding_proceeding_request,
     NS_a5_proceeding_proceeding_1xx, NS_a6_proceeding_terminated_transperr,
     NS_a7_completed_completed_request, NS_a8_completed_terminated_transperr,
     NS_a9_completed_terminated_timerJ
<1>6. ~In(hiq', Smuggled)
  <2>1. \A x \in Kinds : /\ ToTU(x, t) \in Command /\ ToTU(x, t) \notin Smuggled
                         /\ Terminated(t) \in Command /\ Terminated(t) \notin Smuggled
    BY <1>1, CommandsOK DEF ToTU, Terminated, Cmd, Smuggled
  <2>2. HighRest \in Seq(Command) /\ ~In(HighRest, Smuggled) /\ "INVITE" \in Kinds
    BY <1>1, <1>4, CurrentCommand, HighRestHolds DEF CInv, Kinds, RequestKinds
  <2>3. \A x \in Kinds : /\ Append(HighRest, ToTU(x, t)) \in Seq(Command)
                         /\ ~In(Append(HighRest, ToTU(x, t)), Smuggled)
    BY <2>1, <2>2, InAppend
  <2>4. \A x \in Kinds : ~In(Append(Append(HighRest, ToTU(x, t)), Terminated(t)), Smuggled)
    BY <2>1, <2>3, InAppend
  <2>5. ~In(Append(HighRest, Terminated(t)), Smuggled)
    BY <2>1, <2>2, InAppend
  <2> QED
    BY <1>3, <2>2, <2>3, <2>4, <2>5 DEF HandlerStep, Moves, Queued
<1>7. ~In(loq', LowSmuggled)
  BY <1>1, <1>3, <1>4, LowKept DEF CInv, HandlerStep
<1>8. \A k \in LocalKeys : ConcludedOK(k)'
  <2> TAKE k \in LocalKeys
  <2>1. CASE tid[t] # k
    <3>1. Quiet(hiq, hiq', k)
      BY <1>3, <2>1, HandlerQuiet
    <3>2. \A u \in Trans : /\ Owns(u, k)' <=> Owns(u, k)
                           /\ Owns(u, k) => state'[u] = state[u]
      BY <1>4, <2>1 DEF Owns
    <3> QED
      BY <3>1, <3>2, QuietKeeps DEF CInv
  <2>2. CASE tid[t] = k
    <3>1. class[t] \in Clients
      BY <1>5, <2>2 DEF CInv
    <3>2. SaysRight(t)
      BY <1>1, <1>5, <3>1, InviteClientSays, NonInviteClientSays
    <3> QED
      BY <1>3, <1>5, <2>2, <3>2, ClientKeeps DEF CInv
  <2> QED
    BY <2>1, <2>2
<1> QED
  BY <1>4, <1>6, <1>7, <1>8 DEF CInv, Smuggled, LowSmuggled, LocalKeys

(* A new transaction: of a request of this stack, that is the first of its *)
(* key; of a peer, it has another key.                                     *)
LEMMA CreateKeepsCInv ==
  ASSUME IInv, CInv, NEW t \in Trans, state[t] = "unborn",
         NEW cls, NEW s, Create(t, cls, s), told' = told, SendsOK,
         cls # "none",
         \/ Current.src = "dialog" /\ cls \in Clients /\ Enqueue(<<>>)
         \/ /\ Current.src = "transport"
            /\ Enqueue(<<Cmd("transaction", "dialog", Current.kind, Current.key)>>)
  PROVE  CInv'
<1> DEFINE k0 == Current.key
           note == Cmd("transaction", "dialog", Current.kind, Current.key)
<1>1. TypeOK /\ QueuesOK /\ ObjectsOK /\ LocalOK
  BY DEF IInv
<1>2. /\ HasCommand /\ Current.dst = "transaction" /\ IsRequest(Current)
      /\ class' = [class EXCEPT ![t] = cls] /\ tid' = [tid EXCEPT ![t] = k0]
      /\ state' = [state EXCEPT ![t] = s]
  BY DEF Create
<1>3. /\ HighRest \in Seq(Command) /\ Current \in Command /\ k0 \in Key
      /\ note \in Command
      /\ IF TakesHigh THEN Current \in HighCommands ELSE Current \in LowCommands
  BY <1>1, <1>2, CurrentCommand DEF Cmd, Command
<1>4. hiq' = HighRest \/ (hiq' = Append(HighRest, note) /\ Current.src = "transport")
  BY <1>3, Enqueued
<1>5. Current.src = "transport" => k0 \notin LocalKeys
  BY <1>2, <1>3 DEF HighCommands, LowCommands, LocalKeys
<1>6. note \notin Smuggled /\ \A k : note \in Words(k) => k = k0
  BY DEF Cmd, Smuggled, Words
<1>7. class[t] = "none"
  BY <1>1 DEF ObjectsOK
<1>8. /\ class'[t] = cls /\ tid'[t] = k0
      /\ \A u \in Trans \ {t} : /\ class'[u] = class[u] /\ tid'[u] = tid[u]
                                /\ state'[u] = state[u]
  BY <1>1, <1>2 DEF TypeOK, TransactionTypeOK
<1>9. k0 \in LocalKeys =>
        /\ ~Concluded(k0) /\ \A u \in Trans : ~Owns(u, k0)
  <2> SUFFICES ASSUME k0 \in LocalKeys
               PROVE  ~Concluded(k0) /\ \A u \in Trans : ~Owns(u, k0)
    OBVIOUS
  <2>1. TakesHigh /\ Current \in ReqCmds(k0)
    BY <1>2, <1>3, <1>5 DEF LowCommands, ReqCmds
  <2>2. In(hiq, ReqCmds(k0))
    BY <1>1, <1>2, <2>1, HighRestHolds
  <2>3. \A u \in Trans : ~Owns(u, k0)
    BY <1>1, <2>2 DEF LocalOK, Owns
  <2> QED
    BY <2>3 DEF CInv, ConcludedOK
<1> HIDE DEF note, k0
<1>10. ~In(hiq', Smuggled)
  <2>1. ~In(HighRest, Smuggled)
    BY <1>1, <1>2, HighRestHolds DEF CInv
  <2>2. ~In(Append(HighRest, note), Smuggled)
    BY <1>3, <1>6, <2>1, InAppend
  <2> QED
    BY <1>4, <2>1, <2>2
<1>11. ~In(loq', LowSmuggled)
  BY <1>1, <1>2, LowKept DEF CInv
<1>12. \A k \in LocalKeys : ConcludedOK(k)'
  <2> TAKE k \in LocalKeys
  <2>1. Quiet(hiq, hiq', k)
    <3>1. Quiet(hiq, HighRest, k)
      BY <1>1, <1>2, QuietRest
    <3>2. CASE hiq' = HighRest
      BY <3>1, <3>2
    <3>3. CASE hiq' = Append(HighRest, note) /\ Current.src = "transport"
      <4>1. note \notin Words(k)
        BY <1>5, <1>6, <3>3
      <4>2. Quiet(HighRest, Append(HighRest, note), k)
        BY <1>3, <4>1, QuietAppend
      <4> QED
        BY <3>1, <3>3, <4>2 DEF Quiet
    <3> QED
      BY <1>4, <3>2, <3>3
  <2>2. \A u \in Trans : Owns(u, k) => Owns(u, k)'
    BY <1>7, <1>8 DEF Owns
  <2>3. Concluded(k) => \A u \in Trans :
          Owns(u, k)' => Owns(u, k) /\ (state'[u] \in Open => state[u] \in Open)
    BY <1>8, <1>9 DEF Owns
  <2> QED
    BY <2>1, <2>2, <2>3, QuietKeeps DEF CInv
<1>13. \A u \in Trans : class'[u] # "none" /\ tid'[u] \in LocalKeys => class'[u] \in Clients
  BY <1>5, <1>8 DEF CInv
<1> QED
  BY <1>10, <1>11, <1>12, <1>13 DEF CInv, Smuggled, LowSmuggled, LocalKeys

LEMMA DefaultKeepsCInv ==
  ASSUME IInv, CInv, Default, told' = told
  PROVE  CInv'
<1>1. TypeOK /\ QueuesOK
  BY DEF IInv
<1>2. Fresh \in Trans /\ state[Fresh] = "unborn"
  BY DEF Default, Fresh, Unborn
<1>3. Current \in Command
  BY <1>1, CurrentCommand DEF Default
<1>4. \A m \in RequestKinds : [kind |-> m, key |-> Current.key] \in Packet
  BY <1>3 DEF Packet, Command
<1>5. CASE IC_a0_start_calling_INVITE(Fresh)
  <2>1. SendsOK
    BY <1>1, <1>4, <1>5, Sending DEF IC_a0_start_calling_INVITE, RequestKinds
  <2> QED
    BY <1>2, <1>5, <2>1, CreateKeepsCInv DEF IC_a0_start_calling_INVITE, Clients
<1>6. CASE NC_a0_start_trying_request(Fresh)
  <2>1. SendsOK
    BY <1>1, <1>4, <1>6, Sending DEF NC_a0_start_trying_request, RequestKinds
  <2> QED
    BY <1>2, <1>6, <2>1, CreateKeepsCInv DEF NC_a0_start_trying_request, Clients
<1>7. CASE IS_a0_start_proceeding_INVITE(Fresh, HandleAck)
  <2> DEFINE cls == IF HandleAck THEN "InviteServerUA" ELSE "InviteServer"
  <2>1. /\ cls # "none" /\ Current.src = "transport"
        /\ Create(Fresh, cls, "proceeding") /\ SendNothing
        /\ Enqueue(<<Cmd("transaction", "dialog", "INVITE", Current.key)>>)
        /\ Current.kind = "INVITE"
    BY <1>7 DEF IS_a0_start_proceeding_INVITE
  <2> HIDE DEF cls
  <2> QED
    BY <1>2, <2>1, NotSending, CreateKeepsCInv
<1>8. CASE NS_a0_start_trying_request(Fresh)
  BY <1>2, <1>8, NotSending, CreateKeepsCInv DEF NS_a0_start_trying_request
<1> QED
  BY <1>5, <1>6, <1>7, <1>8 DEF Default

(* A step of the dispatcher that says nothing.                             *)
LEMMA TakingKeepsCInv ==
  ASSUME IInv, CInv, HasCommand, Enqueue(<<>>), told' = told,
         UNCHANGED <<class, tid>>, ~In(loq', LowSmuggled),
         \A u \in Trans : state'[u] \in Open => state[u] \in Open
  PROVE  CInv'
<1>1. TypeOK /\ QueuesOK
  BY DEF IInv
<1>2. hiq' = HighRest
  BY <1>1, CurrentCommand DEF Enqueue
<1>3. ~In(hiq', Smuggled)
  BY <1>1, <1>2, HighRestHolds DEF CInv
<1>4. \A k \in LocalKeys : ConcludedOK(k)'
  <2> TAKE k \in LocalKeys
  <2>1. Quiet(hiq, hiq', k) /\ ConcludedOK(k)
    BY <1>1, <1>2, QuietRest DEF CInv
  <2>2. \A u \in Trans : Owns(u, k)' <=> Owns(u, k)
    BY DEF Owns
  <2> QED
    BY <2>1, <2>2, QuietKeeps
<1> QED
  BY <1>3, <1>4 DEF CInv, Smuggled, LowSmuggled, LocalKeys

LEMMA NotHandledKeepsCInv ==
  ASSUME IInv, CInv, NotHandled, told' = told
  PROVE  CInv'
<1>1. ~In(loq', LowSmuggled)
  BY NotSending, LowKept DEF NotHandled, IInv, CInv
<1> QED
  BY <1>1, TakingKeepsCInv DEF NotHandled

LEMMA TerminatedKeepsCInv ==
  ASSUME IInv, CInv, TransactionTerminated, told' = told
  PROVE  CInv'
<1>1. TypeOK /\ QueuesOK /\ HasCommand
  BY DEF IInv, TransactionTerminated
<1>2. \A u \in Trans : state'[u] \in Open => state[u] \in Open
  BY <1>1 DEF TransactionTerminated, TypeOK, TransactionTypeOK, Open
<1>3. loq \in Seq(Command) /\ LowRest \in Seq(Command) /\ Current.key \in Key
  BY <1>1, CurrentCommand DEF TypeOK, TransactionTypeOK, Command
<1>4. ~In(LowRest, LowSmuggled)
  BY <1>1, <1>3, InTail DEF LowRest, TakesHigh, HasCommand, CInv
<1>5. /\ NoTransactions(Current.key) \in Command
      /\ NoTransactions(Current.key) \notin LowSmuggled
  BY <1>3 DEF NoTransactions, Cmd, Command, Kinds, LowSmuggled
<1>6. ~In(loq', LowSmuggled)
  <2>1. loq' = LowRest \/ loq' = Append(LowRest, NoTransactions(Current.key))
    BY DEF TransactionTerminated, SignalIfNoTransactions
  <2>2. ~In(Append(LowRest, NoTransactions(Current.key)), LowSmuggled)
    BY <1>3, <1>4, <1>5, InAppend
  <2> QED
    BY <1>4, <2>1, <2>2
<1> QED
  BY <1>2, <1>6, TakingKeepsCInv DEF TransactionTerminated

(* The dialog is told: of what it concludes, nothing is left behind it.    *)
LEMMA DialogKeepsCInv ==
  ASSUME IInv, CInv, DialogReceives
  PROVE  CInv'
<1>1. /\ TypeOK /\ QueuesOK /\ HasCommand /\ Enqueue(<<>>) /\ SendNothing
      /\ UNCHANGED <<class, tid, state>> /\ Current.dst = "dialog"
      /\ told' = IF Concludes(Current) THEN told \union {Current.key} ELSE told
  BY DEF IInv, DialogReceives
<1>2. ~In(loq', LowSmuggled)
  BY <1>1, NotSending, LowKept DEF CInv
<1>3. /\ HighRest \in Seq(Command) /\ Current \in Command
      /\ loq \in Seq(Command) /\ hiq' = HighRest
  BY <1>1, CurrentCommand DEF Enqueue, TypeOK, TransactionTypeOK
<1>4. ~In(hiq', Smuggled)
  BY <1>1, <1>3, HighRestHolds DEF CInv
<1>5. ASSUME Concludes(Current)
      PROVE  TakesHigh /\ Current \in Conclusions(Current.key)
  <2>1. TakesHigh
    <3> SUFFICES ASSUME ~TakesHigh
                 PROVE  FALSE
      OBVIOUS
    <3>1. loq # <<>> /\ Current = Head(loq)
      BY <1>1 DEF TakesHigh, HasCommand, Current
    <3>2. Current \notin LowSmuggled
      BY <1>3, <3>1, InTail DEF CInv
    <3> QED
      BY <1>1, <1>3, <1>5, <3>2 DEF LowSmuggled, Concludes, Finals
  <2>2. Current \notin Smuggled
    BY <1>1, <2>1, HighRestHolds DEF CInv
  <2> QED
    BY <1>1, <1>3, <1>5, <2>1, <2>2 DEF Smuggled, Conclusions, Words, Concludes
<1>6. \A k \in LocalKeys : ConcludedOK(k)'
  <2> TAKE k \in LocalKeys
  <2>1. Quiet(hiq, hiq', k) /\ ConcludedOK(k)
    BY <1>1, <1>3, QuietRest DEF CInv
  <2>2. \A u \in Trans : (Owns(u, k)' <=> Owns(u, k)) /\ state'[u] = state[u]
    BY <1>1 DEF Owns
  <2>3. CASE k \in told' => k \in told
    BY <2>1, <2>2, <2>3, QuietKeeps
  <2>4. CASE Concludes(Current) /\ k = Current.key
    <3>1. Concluded(k) /\ ~In(HighRest, Words(k)) /\ NothingBehind(HighRest, k)
      BY <1>1, <1>5, <2>1, <2>4, HighRestHolds, BehindRest DEF ConcludedOK, Concluded
    <3> QED
      BY <1>3, <2>1, <2>2, <3>1 DEF ConcludedOK, Conclusions, Words
  <2> QED
    BY <1>1, <2>3, <2>4
<1>7. told' \subseteq LocalKeys
  BY <1>1 DEF CInv, Concludes
<1> QED
  BY <1>1, <1>2, <1>4, <1>6, <1>7 DEF CInv, Smuggled, LowSmuggled, LocalKeys

(* The other threads add nothing that is for a dialog.                     *)
LEMMA OutsideKeepsCInv ==
  ASSUME IInv, CInv, TimerThread \/ TUStep \/ Network
  PROVE  CInv'
<1>1. TypeOK
  BY DEF IInv
<1>2. /\ UNCHANGED <<class, tid, state, told>>
      /\ hiq \in Seq(Command) /\ loq \in Seq(Command)
  BY <1>1 DEF TimerThread, Expire, DeliverTimeout, TUStep, TURequest, TUAnswer, FromTU,
     Network, SocketRead, TypeOK, TransactionTypeOK
<1>3. /\ hiq' = hiq \/ \E c \in Command : c.dst = "transaction" /\ hiq' = Append(hiq, c)
      /\ loq' = loq \/ \E c \in Command : c.dst = "transaction" /\ loq' = Append(loq, c)
  <2>1. CASE TimerThread
    <3>1. \A r \in expired : Timeout(r.obj, r.timer) \in Command
      BY <1>1 DEF Timeout, Command, Kinds, TypeOK, TransactionTypeOK, Request
    <3>2. loq' = loq
      BY <2>1 DEF TimerThread, Expire, DeliverTimeout
    <3>3. hiq' = hiq \/ \E r \in expired : hiq' = Append(hiq, Timeout(r.obj, r.timer))
      BY <2>1 DEF TimerThread, Expire, DeliverTimeout
    <3>4. \A r \in expired : Timeout(r.obj, r.timer).dst = "transaction"
      BY DEF Timeout
    <3> QED
      BY <3>1, <3>2, <3>3, <3>4
  <2>2. ASSUME NEW k \in LocalKeys, TURequest(k)
        PROVE  \E c \in Command : c.dst = "transaction" /\ hiq' = Append(hiq, c)
    <3>1. Cmd("dialog", "transaction", k.method, k) \in Command
      BY DEF LocalKeys, Key, Cmd, Command, Kinds
    <3> QED
      BY <2>2, <3>1 DEF TURequest, FromTU, Cmd
  <2>3. ASSUME NEW k \in asked, NEW kind \in Responses, TUAnswer(k, kind)
        PROVE  \E c \in Command : c.dst = "transaction" /\ hiq' = Append(hiq, c)
    <3>1. Cmd("dialog", "transaction", kind, k) \in Command
      BY <1>1 DEF TypeOK, Cmd, Command, Kinds
    <3> QED
      BY <2>3, <3>1 DEF TUAnswer, FromTU, Cmd
  <2>4. CASE TUStep
    BY <2>2, <2>3, <2>4 DEF TUStep, TURequest, TUAnswer, FromTU
  <2>5. CASE Network
    <3>1. PICK p \in PeerPackets : SocketRead(p)
      BY <2>5 DEF Network
    <3>2. Cmd("transport", "transaction", p.kind, p.key) \in Command
      BY PeerAssumption DEF Packet, Cmd, Command, Kinds
    <3> QED
      BY <3>1, <3>2 DEF SocketRead, Cmd
  <2> QED
    BY <2>1, <2>4, <2>5
<1>4. /\ ~In(hiq', Smuggled) /\ ~In(loq', LowSmuggled)
      /\ \A k : Quiet(hiq, hiq', k)
  <2>1. \A c \in Command : c.dst = "transaction" =>
          c \notin Smuggled /\ c \notin LowSmuggled /\ \A k : c \notin Words(k)
    BY DEF Smuggled, LowSmuggled, Words
  <2>2. ~In(hiq', Smuggled)
    <3>1. CASE hiq' = hiq
      BY <3>1 DEF CInv
    <3>2. CASE \E c \in Command : c.dst = "transaction" /\ hiq' = Append(hiq, c)
      <4>1. PICK c \in Command : c.dst = "transaction" /\ hiq' = Append(hiq, c)
        BY <3>2
      <4>2. c \notin Smuggled /\ ~In(hiq, Smuggled)
        BY <2>1, <4>1 DEF CInv
      <4> QED
        BY <1>2, <4>1, <4>2, InAppend
    <3> QED
      BY <1>3, <3>1, <3>2
  <2>3. ~In(loq', LowSmuggled)
    <3>1. CASE loq' = loq
      BY <3>1 DEF CInv
    <3>2. CASE \E c \in Command : c.dst = "transaction" /\ loq' = Append(loq, c)
      <4>1. PICK c \in Command : c.dst = "transaction" /\ loq' = Append(loq, c)
        BY <3>2
      <4>2. c \notin LowSmuggled /\ ~In(loq, LowSmuggled)
        BY <2>1, <4>1 DEF CInv
      <4> QED
        BY <1>2, <4>1, <4>2, InAppend
    <3> QED
      BY <1>3, <3>1, <3>2
  <2>4. ASSUME NEW k
        PROVE  Quiet(hiq, hiq', k)
    <3>1. CASE hiq' = hiq
      BY <3>1 DEF Quiet
    <3>2. CASE \E c \in Command : c.dst = "transaction" /\ hiq' = Append(hiq, c)
      BY <1>2, <2>1, <3>2, QuietAppend
    <3> QED
      BY <1>3, <3>1, <3>2
  <2> QED
    BY <2>2, <2>3, <2>4
<1>5. \A k \in LocalKeys : ConcludedOK(k)'
  <2> TAKE k \in LocalKeys
  <2>1. \A u \in Trans : Owns(u, k)' <=> Owns(u, k)
    BY <1>2 DEF Owns
  <2> QED
    BY <1>2, <1>4, <2>1, QuietKeeps DEF CInv
<1> QED
  BY <1>2, <1>4, <1>5 DEF CInv, Smuggled, LowSmuggled, LocalKeys

----------------------------------------------------------------------------
LEMMA InitCInv == Init => CInv
<1> SUFFICES ASSUME Init
             PROVE  CInv
  OBVIOUS
<1>1. hiq = <<>> /\ loq = <<>> /\ told = {} /\ \A t \in Trans : class[t] = "none"
  BY DEF Init
<1>2. \A S : ~In(<<>>, S)
  BY DEF In
<1>3. \A k : NothingBehind(<<>>, k)
  BY DEF NothingBehind
<1> QED
  BY <1>1, <1>2, <1>3 DEF CInv, ConcludedOK, Concluded

LEMMA NextCInv == IInv /\ CInv /\ [Next]_layerVars => CInv'
<1> SUFFICES ASSUME IInv, CInv, [Next]_layerVars
             PROVE  CInv'
  OBVIOUS
<1>1. CASE UNCHANGED layerVars
  BY <1>1 DEF layerVars, vars, CInv, ConcludedOK, Concluded, Conclusions, Words, Owns,
     Smuggled, LowSmuggled, LocalKeys
<1> QED
  BY <1>1, HandleKeepsCInv, DefaultKeepsCInv, NotHandledKeepsCInv, TerminatedKeepsCInv,
     DialogKeepsCInv, OutsideKeepsCInv
  DEF Next, Dispatch

(* A dialog hears nothing of a request behind its final response or its    *)
(* transport error, whatever is repeated, times out late or fails.         *)
THEOREM ConcludesLast == Spec => []ConclusionIsLast
<1>1. IInv /\ CInv => ConclusionIsLast
  <2> SUFFICES ASSUME IInv, CInv, HasCommand, Current.dst = "dialog",
                      Current.src = "transaction", Current.key \in told
               PROVE  FALSE
    BY DEF ConclusionIsLast
  <2>1. TypeOK /\ QueuesOK
    BY DEF IInv
  <2>2. TakesHigh /\ Current \in Command
    BY <2>1, CurrentCommand DEF LowCommands
  <2>3. In(hiq, Words(Current.key))
    BY <2>1, <2>2, HighRestHolds DEF Words
  <2> QED
    BY <2>3 DEF CInv, ConcludedOK
<1> QED
  BY <1>1, InitCInv, NextCInv, Invariance, PTL DEF Spec
=================================================================================
