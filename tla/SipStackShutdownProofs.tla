------------------------ MODULE SipStackShutdownProofs ------------------------
(***************************************************************************)
(* Proofs about the shutdown of the stack and its registrations, for any   *)
(* calls, dialogs and identities and any number of commands.               *)
(***************************************************************************)
EXTENDS SipStackShutdown, FiniteSetTheorems, TLAPS

----------------------------------------------------------------------------
(* The queue.                                                              *)

(* A dispatch step keeps the type of the queue.                            *)
LEMMA DispatchType ==
  ASSUME NEW C, NEW q \in Seq(C), q # <<>>, NEW s \in Seq(C)
  PROVE  Tail(q) \o s \in Seq(C)
OBVIOUS

(* What is not at its head stays in the queue.                             *)
LEMMA DispatchKeeps ==
  ASSUME NEW C, NEW q \in Seq(C), q # <<>>, NEW s \in Seq(C),
         NEW i \in DOMAIN q, q[i] # Head(q)
  PROVE  \E k \in DOMAIN (Tail(q) \o s) : (Tail(q) \o s)[k] = q[i]
<1> DEFINE r == Tail(q) \o s
<1>1. Len(q) \in Nat \ {0} /\ DOMAIN q = 1 .. Len(q) /\ DOMAIN s = 1 .. Len(s) /\ Len(s) \in Nat
  OBVIOUS
<1>2. Len(Tail(q)) = Len(q) - 1 /\ Tail(q) \in Seq(C)
  OBVIOUS
<1>3. Len(r) = Len(q) - 1 + Len(s) /\ DOMAIN r = 1 .. Len(r)
  BY <1>1, <1>2
<1>4. \A k \in 1 .. (Len(q) - 1) : r[k] = q[k + 1]
  BY <1>1, <1>2
<1>5. i # 1
  OBVIOUS
<1>6. i - 1 \in 1 .. (Len(q) - 1) /\ i - 1 \in DOMAIN r
  BY <1>1, <1>3, <1>5
<1>7. r[i - 1] = q[i]
  BY <1>1, <1>4, <1>6
<1> QED BY <1>6, <1>7

(* What is enqueued is in the queue.                                       *)
LEMMA DispatchAdds ==
  ASSUME NEW C, NEW q \in Seq(C), q # <<>>, NEW s \in Seq(C), NEW i \in DOMAIN s
  PROVE  \E k \in DOMAIN (Tail(q) \o s) : (Tail(q) \o s)[k] = s[i]
<1> DEFINE r == Tail(q) \o s
<1>1. Len(q) \in Nat \ {0} /\ DOMAIN s = 1 .. Len(s) /\ Len(s) \in Nat
  OBVIOUS
<1>2. Len(Tail(q)) = Len(q) - 1 /\ Tail(q) \in Seq(C)
  OBVIOUS
<1>3. Len(r) = Len(q) - 1 + Len(s) /\ DOMAIN r = 1 .. Len(r)
  BY <1>1, <1>2
<1>4. r[Len(q) - 1 + i] = s[i]
  BY <1>1, <1>2
<1>5. Len(q) - 1 + i \in DOMAIN r
  BY <1>1, <1>3
<1> QED BY <1>4, <1>5

(* The same of a command that comes from another thread.                   *)
LEMMA AppendKeeps ==
  ASSUME NEW C, NEW q \in Seq(C), NEW x \in C, NEW c
  PROVE  /\ Append(q, x) \in Seq(C)
         /\ (\E i \in DOMAIN q : q[i] = c)
              => \E i \in DOMAIN Append(q, x) : Append(q, x)[i] = c
         /\ \E i \in DOMAIN Append(q, x) : Append(q, x)[i] = x
<1> DEFINE r == Append(q, x)
<1>1. Len(q) \in Nat /\ DOMAIN q = 1 .. Len(q)
  OBVIOUS
<1>2. r \in Seq(C) /\ DOMAIN r = 1 .. (Len(q) + 1) /\ r[Len(q) + 1] = x
  BY <1>1
<1>3. \A i \in 1 .. Len(q) : r[i] = q[i]
  BY <1>1
<1>4. Len(q) + 1 \in DOMAIN r
  BY <1>1, <1>2
<1>5. ASSUME NEW i \in DOMAIN q, q[i] = c
      PROVE  \E k \in DOMAIN r : r[k] = c
  BY <1>1, <1>2, <1>3, <1>5
<1> QED BY <1>2, <1>4, <1>5

(* A listing of a set is a sequence of its members.                        *)
LEMMA ListingType ==
  ASSUME NEW S, IsFiniteSet(S), NEW s \in Listings(S)
  PROVE  /\ Len(s) \in Nat /\ DOMAIN s = 1 .. Len(s)
         /\ \A k \in DOMAIN s : s[k] \in S
<1>1. Cardinality(S) \in Nat
  BY FS_CardinalityType
<1>2. s \in [1 .. Cardinality(S) -> S]
  BY DEF Listings
<1> QED BY <1>1, <1>2

----------------------------------------------------------------------------
(* What each step enqueues.                                                *)

(* Only a call's own dialog announces its termination.                     *)
Plain == {c \in Commands : c.op # "call_terminated"}

(* The commands that hang up, and those that register, are commands.       *)
LEMMA ListsOfCommands ==
  /\ <<>> \in Seq(Plain)
  /\ \A op \in ManagementOps \cup {"sip_stack_shutdown_done"} : <<Management(op)>> \in Seq(Plain)
  /\ \A S \in SUBSET Calls : \A s \in Listings(S) :
       [k \in DOMAIN s |-> Command("hang_up", s[k])] \in Seq(Plain)
  /\ \A S \in SUBSET Registers : \A s \in Listings(S) : \A e \in Expires :
       [k \in DOMAIN s |-> ProxyRegister(s[k], Nobody, e)] \in Seq(Plain)
<1>1. \A op \in ManagementOps \cup {"sip_stack_shutdown_done"} : Management(op) \in Plain
  BY DEF Management, Command, Commands, Plain, ManagementOps, Timers
<1>2. ASSUME NEW S \in SUBSET Calls, NEW s \in Listings(S)
      PROVE  [k \in DOMAIN s |-> Command("hang_up", s[k])] \in Seq(Plain)
  <2>1. IsFiniteSet(S)
    BY CallsAssumption, FS_Subset
  <2>2. Len(s) \in Nat /\ DOMAIN s = 1 .. Len(s) /\ \A k \in DOMAIN s : s[k] \in Calls
    BY <2>1, ListingType
  <2>3. \A k \in DOMAIN s : Command("hang_up", s[k]) \in Plain
    BY <2>2 DEF Command, Commands, Plain
  <2> QED BY <2>2, <2>3
<1>3. ASSUME NEW S \in SUBSET Registers, NEW s \in Listings(S), NEW e \in Expires
      PROVE  [k \in DOMAIN s |-> ProxyRegister(s[k], Nobody, e)] \in Seq(Plain)
  <2>1. IsFiniteSet(S)
    BY CallsAssumption, FS_Subset
  <2>2. Len(s) \in Nat /\ DOMAIN s = 1 .. Len(s) /\ \A k \in DOMAIN s : s[k] \in Registers
    BY <2>1, ListingType
  <2>3. \A k \in DOMAIN s : ProxyRegister(s[k], Nobody, e) \in Plain
    BY <2>2 DEF ProxyRegister, ProxyRegisters, Expires, Commands, Plain
  <2> QED BY <2>2, <2>3
<1> QED BY <1>1, <1>2, <1>3

(* terminateAllCalls, registerAll and deRegisterAll.                       *)
LEMMA TerminateAllEnqueues ==
  ASSUME NEW n \in Int, terminateAllCalls(n)
  PROVE  pendingHangUps' \in Int /\ \E s \in Seq(Plain) : Enqueues(s)
<1>1. PICK s \in Listings(CallDialogs) :
        /\ pendingHangUps' = n + Len(s)
        /\ Enqueues([k \in DOMAIN s |-> Command("hang_up", s[k])]
                    \o IF n + Len(s) <= 0
                       THEN <<Management("terminate_all_calls_done")>> ELSE <<>>)
  BY DEF terminateAllCalls
<1>2. CallDialogs \in SUBSET Calls /\ IsFiniteSet(CallDialogs)
  BY CallsAssumption, FS_Subset DEF CallDialogs
<1>3. [k \in DOMAIN s |-> Command("hang_up", s[k])] \in Seq(Plain)
  BY <1>2, ListsOfCommands
<1> DEFINE a == [k \in DOMAIN s |-> Command("hang_up", s[k])]
           b == IF n + Len(s) <= 0 THEN <<Management("terminate_all_calls_done")>> ELSE <<>>
<1>4. b \in Seq(Plain)
  BY ListsOfCommands DEF ManagementOps
<1>5. Len(s) \in Nat
  BY <1>2, ListingType
<1>6. Enqueues(a \o b)
  BY <1>1
<1>7. a \o b \in Seq(Plain)
  <2> HIDE DEF a, b
  <2>1. a \in Seq(Plain)
    BY <1>3 DEF a
  <2> QED BY <2>1, <1>4
<1>8. pendingHangUps' \in Int
  BY <1>1, <1>5
<1> HIDE DEF a, b
<1> QED BY <1>6, <1>7, <1>8

LEMMA RegistersAllEnqueues ==
  ASSUME NEW n \in Int, NEW is \in BOOLEAN, NEW e \in Expires, RegistersAll(n, is, e)
  PROVE  pendingDeRegs' \in Int /\ \E s \in Seq(Plain) : Enqueues(s)
<1> DEFINE S == {d \in Registers : rstate[d] # "none" /\ registered[ident[d]] = is}
<1>1. PICK s \in Listings(S) :
        /\ pendingDeRegs' = n + Len(s)
        /\ Enqueues([k \in DOMAIN s |-> ProxyRegister(s[k], Nobody, e)]
                    \o IF n + Len(s) = 0
                       THEN <<Management("unregister_all_identities_done")>> ELSE <<>>)
  BY DEF RegistersAll
<1>2. S \in SUBSET Registers /\ IsFiniteSet(S)
  BY CallsAssumption, FS_Subset
<1>3. [k \in DOMAIN s |-> ProxyRegister(s[k], Nobody, e)] \in Seq(Plain)
  BY <1>2, ListsOfCommands
<1> DEFINE a == [k \in DOMAIN s |-> ProxyRegister(s[k], Nobody, e)]
           b == IF n + Len(s) = 0 THEN <<Management("unregister_all_identities_done")>> ELSE <<>>
<1>4. b \in Seq(Plain)
  BY ListsOfCommands DEF ManagementOps
<1>5. Len(s) \in Nat
  BY <1>2, ListingType
<1>6. Enqueues(a \o b)
  BY <1>1
<1>7. a \o b \in Seq(Plain)
  <2> HIDE DEF a, b
  <2>1. a \in Seq(Plain)
    BY <1>3 DEF a
  <2> QED BY <2>1, <1>4
<1>8. pendingDeRegs' \in Int
  BY <1>1, <1>5
<1> HIDE DEF a, b
<1> QED BY <1>6, <1>7, <1>8

(* Every round of the dispatcher takes the head and enqueues commands.     *)
LEMMA ShutdownEnqueues ==
  ASSUME TypeOK, Shutdown
  PROVE  running /\ high # <<>> /\ \E s \in Seq(Plain) : Enqueues(s)
<1> USE ListsOfCommands DEF TypeOK, ManagementOps, Goes, Dispatched
<1>1. CASE a0_start_startShutdown_startShutdown
  BY <1>1 DEF a0_start_startShutdown_startShutdown
<1>2. CASE a10_startSh_terminateCallsSh_terminateAll
  BY <1>2, TerminateAllEnqueues DEF a10_startSh_terminateCallsSh_terminateAll
<1>3. CASE a11_terminateCallsSh_callTerminatedEarly
  BY <1>3 DEF a11_terminateCallsSh_callTerminatedEarly, receivedCallTerminateEarly
<1>4. CASE a12_terminateCallsSh_timeIsUp
  BY <1>4 DEF a12_terminateCallsSh_timeIsUp
<1>5. CASE a13_terminateCallsSh_allTerminated
  BY <1>5 DEF a13_terminateCallsSh_allTerminated
<1>6. CASE a20_terminateCallsSh_deRegAllSh_allTerminated
  BY <1>6, RegistersAllEnqueues DEF a20_terminateCallsSh_deRegAllSh_allTerminated,
     deRegisterAll, Expires
<1>7. CASE a21_deRegAllSh_callTerminatedEarly
  BY <1>7 DEF a21_deRegAllSh_callTerminatedEarly, receivedCallTerminateEarly
<1>8. CASE a22_deRegAllSh_registerOk
  BY <1>8 DEF a22_deRegAllSh_registerOk, receivedRegisterOk
<1>9. CASE a23_deRegAllSh_timeIsUp
  BY <1>9 DEF a23_deRegAllSh_timeIsUp, shutdownDone
<1>10. CASE a24_deRegAllSh_deRegAlldone
  BY <1>10 DEF a24_deRegAllSh_deRegAlldone, shutdownDone
<1>11. CASE a25_deRegAllSh_allTerminated
  BY <1>11 DEF a25_deRegAllSh_allTerminated, shutdownDone
<1>12. CASE stopRunning
  BY <1>12 DEF stopRunning
<1> QED BY <1>1, <1>2, <1>3, <1>4, <1>5, <1>6, <1>7, <1>8, <1>9, <1>10, <1>11, <1>12
   DEF Shutdown

LEMMA OperationsEnqueue ==
  ASSUME TypeOK, Operations
  PROVE  running /\ high # <<>> /\ \E s \in Seq(Plain) : Enqueues(s)
<1> USE ListsOfCommands DEF TypeOK, ManagementOps, Goes, Dispatched
<1>1. CASE b0_start_terminateCallsOps_terminateAll
  BY <1>1, TerminateAllEnqueues DEF b0_start_terminateCallsOps_terminateAll
<1>2. CASE b11_terminateCallsOps_terminateEarly
  BY <1>2 DEF b11_terminateCallsOps_terminateEarly, receivedCallTerminateEarly
<1>3. CASE b30_terminateCallsOps_start_terminateAllDone
  BY <1>3 DEF b30_terminateCallsOps_start_terminateAllDone
<1>4. CASE c0_start_deRegAllOps_deRegAll
  <2>1. RegistersAll(0, TRUE, "0")
    BY <1>4 DEF c0_start_deRegAllOps_deRegAll, deRegisterAll
  <2>2. "0" \in Expires /\ 0 \in Int
    BY DEF Expires
  <2>3. \E s \in Seq(Plain) : Enqueues(s)
    BY <2>1, <2>2, RegistersAllEnqueues, Zenon
  <2> QED BY <1>4, <2>3 DEF c0_start_deRegAllOps_deRegAll
<1>5. CASE c11_deRegAllOps_registerOk
  BY <1>5 DEF c11_deRegAllOps_registerOk, receivedRegisterOk
<1>6. CASE c30_deRegAllOps_start_deRegAllDone
  BY <1>6 DEF c30_deRegAllOps_start_deRegAllDone
<1>7. CASE d0_start_regAllOps_regAll
  <2>1. RegistersAll(0, FALSE, "default")
    BY <1>7 DEF d0_start_regAllOps_regAll, registerAll
  <2>2. "default" \in Expires /\ 0 \in Int
    BY DEF Expires
  <2>3. \E s \in Seq(Plain) : Enqueues(s)
    BY <2>1, <2>2, RegistersAllEnqueues, Zenon
  <2> QED BY <1>7, <2>3 DEF d0_start_regAllOps_regAll
<1>8. CASE d11_regAllOps_registerOk
  BY <1>8 DEF d11_regAllOps_registerOk, receivedRegisterOk
<1>9. CASE d30_regAllOps_start_regAllDone
  BY <1>9 DEF d30_regAllOps_start_regAllDone
<1> QED BY <1>1, <1>2, <1>3, <1>4, <1>5, <1>6, <1>7, <1>8, <1>9 DEF Operations

LEMMA DispatcherEnqueues ==
  ASSUME TypeOK, Dispatcher
  PROVE  running /\ high # <<>> /\ \E s \in Seq(Plain) : Enqueues(s)
<1>1. CASE Shutdown
  BY <1>1, ShutdownEnqueues
<1>2. CASE Operations
  BY <1>2, OperationsEnqueue
<1>3. CASE managementIgnores
  BY <1>3, ListsOfCommands DEF managementIgnores, Dispatched
<1>4. CASE defaultHandler
  <2>1. PICK c \in ProxyRegisters :
          /\ Dispatched(c)
          /\ IF c.identity = Nobody THEN Enqueues(<<>>)
             ELSE \E d \in Registers : Enqueues(<<[c EXCEPT !.to = d]>>)
    BY <1>4 DEF defaultHandler
  <2>2. \A d \in Registers : [c EXCEPT !.to = d] \in ProxyRegisters
    BY DEF ProxyRegisters
  <2>3. \A d \in Registers : <<[c EXCEPT !.to = d]>> \in Seq(Plain)
    BY <2>2 DEF Commands, Plain, ProxyRegisters
  <2> QED BY <2>1, <2>3, ListsOfCommands DEF Dispatched
<1>5. ASSUME NEW d \in Registers, RegisterSteps(d)
      PROVE  running /\ high # <<>> /\ \E s \in Seq(Plain) : Enqueues(s)
  <2> USE ListsOfCommands DEF Dispatched
  <2>1. CASE a0_start_trying_register(d)
    BY <2>1 DEF a0_start_trying_register
  <2>2. CASE a1_trying_registred_2xx(d)
    BY <2>2 DEF a1_trying_registred_2xx, Management, ManagementOps
  <2>3. CASE a2_trying_trying_40x(d)
    BY <2>3 DEF a2_trying_trying_40x
  <2>4. CASE a3_trying_askpassword_40x(d)
    BY <2>4 DEF a3_trying_askpassword_40x
  <2>5. CASE a5_askpassword_trying_setpassword(d)
    BY <2>5 DEF a5_askpassword_trying_setpassword
  <2>6. CASE a10_trying_failed_transporterror(d)
    BY <2>6 DEF a10_trying_failed_transporterror
  <2>7. CASE a12_registred_trying_proxyregister(d)
    BY <2>7 DEF a12_registred_trying_proxyregister
  <2>8. CASE registerIgnores(d)
    BY <2>8 DEF registerIgnores
  <2> QED BY <1>5, <2>1, <2>2, <2>3, <2>4, <2>5, <2>6, <2>7, <2>8 DEF RegisterSteps
<1>6. ASSUME NEW c \in Calls, hang_up(c) \/ removeDialog(c)
      PROVE  running /\ high # <<>> /\ \E s \in Seq(Plain) : Enqueues(s)
  BY <1>6, ListsOfCommands DEF hang_up, removeDialog, Dispatched, Management,
     ManagementOps
<1> QED BY <1>1, <1>2, <1>3, <1>4, <1>5, <1>6 DEF Dispatcher

(* Hence the queue keeps its type, and loses nothing but its head.         *)
LEMMA DispatcherQueue ==
  ASSUME TypeOK, Dispatcher
  PROVE  /\ running /\ high # <<>> /\ high' \in Seq(Commands)
         /\ \A c : InQueue(c) /\ c # Head(high) => InQueue(c)'
<1>1. running /\ high # <<>>
  BY DispatcherEnqueues
<1>2. PICK s \in Seq(Commands) : high' = Tail(high) \o s
  <2>1. PICK s \in Seq(Plain) : high' = Tail(high) \o s
    BY DispatcherEnqueues DEF Enqueues
  <2>2. s \in Seq(Commands)
    BY <2>1 DEF Plain
  <2> QED BY <2>1, <2>2
<1>3. high \in Seq(Commands)
  BY DEF TypeOK
<1>4. high' \in Seq(Commands)
  BY <1>1, <1>2, <1>3, DispatchType
<1>5. ASSUME NEW c, InQueue(c), c # Head(high)
      PROVE  InQueue(c)'
  <2>1. \E i \in DOMAIN (Tail(high) \o s) : (Tail(high) \o s)[i] = c
    <3>1. PICK i \in DOMAIN high : high[i] = c
      BY <1>5 DEF InQueue
    <3> QED BY <1>1, <1>3, <1>5, <3>1, DispatchKeeps
  <2> QED BY <1>2, <2>1 DEF InQueue
<1> QED BY <1>1, <1>4, <1>5

(* Another thread appends a command.                                       *)
LEMMA Appended ==
  ASSUME TypeOK, NEW x \in Commands, high' = Append(high, x)
  PROVE  /\ high' \in Seq(Commands) /\ InQueue(x)'
         /\ \A c : InQueue(c) => InQueue(c)'
         /\ armed' = armed => \A t : Pending(t) => Pending(t)'
<1>1. high \in Seq(Commands)
  BY DEF TypeOK
<1>2. high' \in Seq(Commands)
  BY <1>1, AppendKeeps
<1>3. InQueue(x)'
  <2>1. \E i \in DOMAIN Append(high, x) : Append(high, x)[i] = x
    BY <1>1, AppendKeeps
  <2> QED BY <2>1 DEF InQueue
<1>4. ASSUME NEW c, InQueue(c)
      PROVE  InQueue(c)'
  <2>1. \E i \in DOMAIN Append(high, x) : Append(high, x)[i] = c
    BY <1>1, <1>4, AppendKeeps DEF InQueue
  <2> QED BY <2>1 DEF InQueue
<1>5. ASSUME armed' = armed, NEW t, Pending(t)
      PROVE  Pending(t)'
  BY <1>4, <1>5 DEF Pending
<1> QED BY <1>2, <1>3, <1>4, <1>5

(* What the user commands.                                                 *)
LEMMA UserCommandsType ==
  ASSUME NEW c \in UserCommands
  PROVE  c \in Plain
<1>1. CASE c \in {Management(op) : op \in {"sip_stack_shutdown", "terminate_all_calls",
                        "unregister_all_identities", "register_all_identities"}}
  BY <1>1 DEF Plain, Commands, Management, Command, ManagementOps
<1>2. CASE c \in {ProxyRegister(Nobody, i, e) : i \in Identities, e \in Expires}
  <2>1. PICK i \in Identities, e \in Expires : c = ProxyRegister(Nobody, i, e)
    BY <1>2
  <2>2. c \in ProxyRegisters
    BY <2>1 DEF ProxyRegister, ProxyRegisters
  <2> QED BY <2>2 DEF Plain, Commands, ProxyRegisters
<1>3. CASE c \in {Command("setpassword", d) :
                    d \in {r \in Registers : rstate[r] = "askpassword"}}
  BY <1>3 DEF Plain, Commands, Command
<1>4. CASE c \in {Command("hang_up", d) : d \in CallDialogs}
  BY <1>4 DEF Plain, Commands, Command, CallDialogs
<1> QED BY <1>1, <1>2, <1>3, <1>4 DEF UserCommands

(* The other threads append, or leave the queue alone.                     *)
LEMMA OthersQueue ==
  ASSUME TypeOK, Next, ~Dispatcher
  PROVE  /\ high' \in Seq(Commands)
         /\ \A c : InQueue(c) => InQueue(c)'
         /\ \A t : Pending(t) => Pending(t)'
         /\ running' = running /\ mstate' = mstate
<1> DEFINE Appends == \E x \in Commands : high' = Append(high, x)
<1>1. CASE User
  <2>1. PICK c \in UserCommands : high' = Append(high, c)
    BY <1>1 DEF User
  <2>2. c \in Commands
    BY <2>1, UserCommandsType DEF Plain
  <2>3. running' = running /\ armed' = armed /\ mstate' = mstate
    BY <1>1 DEF User, managementVars
  <2> QED BY <2>1, <2>2, <2>3, Appended
<1>2. CASE Peers
  <2>1. Appends \/ high' = high
    BY <1>2 DEF Peers, Answered, Commands, Command, CallGoesOn, a1003_byerequest_termwait,
       a1101_termwait_terminated_notransactions, ManagementOps
  <2>2. running' = running /\ armed' = armed /\ mstate' = mstate
    BY <1>2 DEF Peers, Answered, CallGoesOn, a1003_byerequest_termwait,
       a1101_termwait_terminated_notransactions, Outside, managementVars
  <2>3. CASE Appends
    BY <2>2, <2>3, Appended
  <2>4. CASE high' = high
    BY <2>2, <2>4 DEF TypeOK, InQueue, Pending
  <2> QED BY <2>1, <2>3, <2>4
<1>3. ASSUME NEW t \in Timeouts, handleTimeout(t), UNCHANGED managementVars
      PROVE  /\ high' \in Seq(Commands)
             /\ \A c : InQueue(c) => InQueue(c)'
             /\ \A u : Pending(u) => Pending(u)'
             /\ running' = running /\ mstate' = mstate
  <2>1. t \in Commands
    BY DEF Timeouts, Timers, Management, Refresh, Command, Commands, ManagementOps
  <2>2. high' = Append(high, t) /\ armed' = armed \ {t}
    BY <1>3 DEF handleTimeout
  <2>3. /\ high' \in Seq(Commands) /\ InQueue(t)'
        /\ \A c : InQueue(c) => InQueue(c)'
    BY <2>1, <2>2, Appended
  <2> QED BY <1>3, <2>2, <2>3 DEF Pending, handleTimeout, managementVars
<1>4. ASSUME NEW d \in Registers, Renewal(d)
      PROVE  handleTimeout(Refresh(d)) /\ Refresh(d) \in Timeouts /\ UNCHANGED managementVars
  BY <1>4 DEF Renewal, Timeouts
<1>5. ASSUME NEW t \in Timers, TimeIsUp(t)
      PROVE  handleTimeout(Management(t)) /\ Management(t) \in Timeouts /\ UNCHANGED managementVars
  BY <1>5 DEF TimeIsUp, Timeouts
<1> QED BY <1>1, <1>2, <1>3, <1>4, <1>5 DEF Next

----------------------------------------------------------------------------
(* Types.                                                                  *)

LEMMA ShutdownType ==
  ASSUME TypeOK, Shutdown, high' \in Seq(Commands)
  PROVE  TypeOK'
<1> USE DEF TypeOK, Goes, Alone, registerVars, managementVars, Requests, Cancels, Timeouts,
            Timers, ShutdownState
<1>1. CASE a0_start_startShutdown_startShutdown
  BY <1>1 DEF a0_start_startShutdown_startShutdown
<1>2. CASE a10_startSh_terminateCallsSh_terminateAll
  BY <1>2, TerminateAllEnqueues DEF a10_startSh_terminateCallsSh_terminateAll
<1>3. CASE a11_terminateCallsSh_callTerminatedEarly
  BY <1>3 DEF a11_terminateCallsSh_callTerminatedEarly, receivedCallTerminateEarly
<1>4. CASE a12_terminateCallsSh_timeIsUp
  BY <1>4 DEF a12_terminateCallsSh_timeIsUp
<1>5. CASE a13_terminateCallsSh_allTerminated
  BY <1>5 DEF a13_terminateCallsSh_allTerminated
<1>6. CASE a20_terminateCallsSh_deRegAllSh_allTerminated
  BY <1>6, RegistersAllEnqueues DEF a20_terminateCallsSh_deRegAllSh_allTerminated,
     deRegisterAll, Expires
<1>7. CASE a21_deRegAllSh_callTerminatedEarly
  BY <1>7 DEF a21_deRegAllSh_callTerminatedEarly, receivedCallTerminateEarly
<1>8. CASE a22_deRegAllSh_registerOk
  BY <1>8 DEF a22_deRegAllSh_registerOk, receivedRegisterOk
<1>9. CASE a23_deRegAllSh_timeIsUp
  BY <1>9 DEF a23_deRegAllSh_timeIsUp, shutdownDone
<1>10. CASE a24_deRegAllSh_deRegAlldone
  BY <1>10 DEF a24_deRegAllSh_deRegAlldone, shutdownDone
<1>11. CASE a25_deRegAllSh_allTerminated
  BY <1>11 DEF a25_deRegAllSh_allTerminated, shutdownDone
<1>12. CASE stopRunning
  BY <1>12 DEF stopRunning
<1> QED BY <1>1, <1>2, <1>3, <1>4, <1>5, <1>6, <1>7, <1>8, <1>9, <1>10, <1>11, <1>12
   DEF Shutdown

LEMMA OperationsType ==
  ASSUME TypeOK, Operations, high' \in Seq(Commands)
  PROVE  TypeOK'
<1> USE DEF TypeOK, Goes, Alone, registerVars, managementVars, Requests, Cancels, Timeouts,
            Timers, OpsState
<1>1. CASE b0_start_terminateCallsOps_terminateAll
  BY <1>1, TerminateAllEnqueues DEF b0_start_terminateCallsOps_terminateAll
<1>2. CASE b11_terminateCallsOps_terminateEarly
  BY <1>2 DEF b11_terminateCallsOps_terminateEarly, receivedCallTerminateEarly
<1>3. CASE b30_terminateCallsOps_start_terminateAllDone
  BY <1>3 DEF b30_terminateCallsOps_start_terminateAllDone
<1>4. CASE c0_start_deRegAllOps_deRegAll
  <2>1. RegistersAll(0, TRUE, "0")
    BY <1>4 DEF c0_start_deRegAllOps_deRegAll, deRegisterAll
  <2>2. "0" \in Expires /\ 0 \in Int
    BY DEF Expires
  <2>3. pendingDeRegs' \in Int
    BY <2>1, <2>2, RegistersAllEnqueues, Zenon
  <2> QED BY <1>4, <2>3 DEF c0_start_deRegAllOps_deRegAll
<1>5. CASE c11_deRegAllOps_registerOk
  BY <1>5 DEF c11_deRegAllOps_registerOk, receivedRegisterOk
<1>6. CASE c30_deRegAllOps_start_deRegAllDone
  BY <1>6 DEF c30_deRegAllOps_start_deRegAllDone
<1>7. CASE d0_start_regAllOps_regAll
  <2>1. RegistersAll(0, FALSE, "default")
    BY <1>7 DEF d0_start_regAllOps_regAll, registerAll
  <2>2. "default" \in Expires /\ 0 \in Int
    BY DEF Expires
  <2>3. pendingDeRegs' \in Int
    BY <2>1, <2>2, RegistersAllEnqueues, Zenon
  <2> QED BY <1>7, <2>3 DEF d0_start_regAllOps_regAll
<1>8. CASE d11_regAllOps_registerOk
  BY <1>8 DEF d11_regAllOps_registerOk, receivedRegisterOk
<1>9. CASE d30_regAllOps_start_regAllDone
  BY <1>9 DEF d30_regAllOps_start_regAllDone
<1> QED BY <1>1, <1>2, <1>3, <1>4, <1>5, <1>6, <1>7, <1>8, <1>9 DEF Operations

LEMMA RegisterType ==
  ASSUME TypeOK, NEW d \in Registers, RegisterSteps(d), high' \in Seq(Commands),
         UNCHANGED managementVars
  PROVE  TypeOK'
<1> USE DEF TypeOK, registerVars, managementVars, RegisterState, Expires, Timeouts
<1>1. CASE a0_start_trying_register(d)
  BY <1>1 DEF a0_start_trying_register, SendsRegister, ProxyRegisters
<1>2. CASE a1_trying_registred_2xx(d)
  BY <1>2 DEF a1_trying_registred_2xx
<1>3. CASE a2_trying_trying_40x(d)
  BY <1>3 DEF a2_trying_trying_40x, SendsRegister, ProxyRegisters
<1>4. CASE a3_trying_askpassword_40x(d)
  BY <1>4 DEF a3_trying_askpassword_40x
<1>5. CASE a5_askpassword_trying_setpassword(d)
  BY <1>5 DEF a5_askpassword_trying_setpassword, SendsRegister, ProxyRegisters
<1>6. CASE a10_trying_failed_transporterror(d)
  BY <1>6 DEF a10_trying_failed_transporterror
<1>7. CASE a12_registred_trying_proxyregister(d)
  BY <1>7 DEF a12_registred_trying_proxyregister, SendsRegister, ProxyRegisters
<1>8. CASE registerIgnores(d)
  BY <1>8 DEF registerIgnores
<1> QED BY <1>1, <1>2, <1>3, <1>4, <1>5, <1>6, <1>7, <1>8 DEF RegisterSteps

LEMMA TypeStep ==
  ASSUME TypeOK, [Next]_vars
  PROVE  TypeOK'
<1>1. CASE UNCHANGED vars
  BY <1>1 DEF TypeOK, vars, layerVars, registerVars, managementVars
<1>2. CASE Dispatcher
  <2>1. high' \in Seq(Commands)
    BY <1>2, DispatcherQueue
  <2>2. CASE managementIgnores
    BY <2>1, <2>2 DEF managementIgnores, TypeOK, Alone, registerVars, managementVars
  <2>3. CASE defaultHandler /\ UNCHANGED managementVars
    BY <2>1, <2>3 DEF defaultHandler, TypeOK, managementVars, ProxyRegisters,
       RegisterState
  <2>4. ASSUME NEW c \in Calls, hang_up(c) \/ removeDialog(c), UNCHANGED registerVars,
               UNCHANGED managementVars
        PROVE  TypeOK'
    BY <2>1, <2>4 DEF hang_up, removeDialog, SaysBye, Ends, Becomes, Outside, TypeOK,
       registerVars, managementVars, CallState
  <2> QED BY <1>2, <2>1, <2>2, <2>3, <2>4, ShutdownType, OperationsType,
     RegisterType DEF Dispatcher
<1>3. CASE Next /\ ~Dispatcher
  <2>1. high' \in Seq(Commands)
    BY <1>3, OthersQueue
  <2>2. CASE User
    BY <2>1, <2>2 DEF User, TypeOK, registerVars, managementVars
  <2>3. CASE Peers
    <3>1. ASSUME NEW d \in Registers, NEW r, Answered(d, r), UNCHANGED managementVars
          PROVE  TypeOK'
      BY <2>1, <3>1 DEF Answered, TypeOK, managementVars
    <3>2. ASSUME NEW c \in Calls, UNCHANGED managementVars, UNCHANGED registerVars,
                 \/ CallGoesOn(c) \/ a1003_byerequest_termwait(c)
                 \/ a1101_termwait_terminated_notransactions(c)
          PROVE  TypeOK'
      BY <2>1, <3>2 DEF CallGoesOn, a1003_byerequest_termwait,
         a1101_termwait_terminated_notransactions, Starts, Connects, Ends,
         ByeIsAnswered, Terminates, Becomes, Outside, TypeOK, registerVars,
         managementVars, CallState
    <3> QED BY <2>3, <3>1, <3>2 DEF Peers
  <2>4. ASSUME NEW t, handleTimeout(t), UNCHANGED registerVars, UNCHANGED managementVars
        PROVE  TypeOK'
    BY <2>1, <2>4 DEF handleTimeout, TypeOK, registerVars, managementVars
  <2> QED BY <1>3, <2>2, <2>3, <2>4 DEF Next, Renewal, TimeIsUp
<1> QED BY <1>1, <1>2, <1>3

LEMMA TypeInit == Init => TypeOK
<1> SUFFICES ASSUME Init PROVE TypeOK
  OBVIOUS
<1>1. PICK s \in Listings(Identities) :
        high = [n \in DOMAIN s |-> ProxyRegister(Nobody, s[n], "none")]
  BY DEF Init, RegisterInit
<1>2. Len(s) \in Nat /\ DOMAIN s = 1 .. Len(s) /\ \A k \in DOMAIN s : s[k] \in Identities
  BY CallsAssumption, ListingType
<1>3. \A k \in DOMAIN s : ProxyRegister(Nobody, s[k], "none") \in Commands
  BY <1>2 DEF ProxyRegister, ProxyRegisters, Commands
<1>4. high \in Seq(Commands)
  BY <1>1, <1>2, <1>3
<1> QED BY <1>4 DEF Init, LayerInit, RegisterInit, ManagementInit, TypeOK,
   RegisterState, Expires, CallState

(* The state of the stack has its type, and the queue holds only commands  *)
(* that some receiver knows, with the parameters it expects.               *)
THEOREM TypeCorrect == Spec => []TypeOK
<1> QED BY TypeInit, TypeStep, PTL DEF Spec

----------------------------------------------------------------------------
(* The shutdown.                                                           *)

LEMMA Added ==
  ASSUME TypeOK, high # <<>>, NEW x \in Commands, Enqueues(<<x>>)
  PROVE  InQueue(x)'
<1>1. high \in Seq(Commands)
  BY DEF TypeOK
<1>2. high' = Tail(high) \o <<x>>
  BY DEF Enqueues
<1>3. high'[Len(high)] = x /\ Len(high) \in DOMAIN high'
  BY <1>1, <1>2
<1> QED BY <1>3 DEF InQueue

LEMMA Kept ==
  ASSUME TypeOK, Dispatcher, NEW c, Pending(c), c # Head(high), c \in armed => c \in armed'
  PROVE  Pending(c)'
BY DispatcherQueue DEF Pending

(* A step of the dispatcher in a state of the shutdown that it stays in.   *)
LEMMA StaysInShutdown ==
  ASSUME TypeOK, ShutdownGoesOn, Dispatcher, mstate' = mstate,
         \A c \in Needed[mstate] : c # Head(high) /\ (c \in armed => c \in armed')
  PROVE  ShutdownGoesOn'
<1> SUFFICES ASSUME running', mstate' \in ShutdownState
             PROVE  \E c \in Needed[mstate] : Pending(c)'
  BY DEF ShutdownGoesOn, Needed
<1>1. running
  BY DispatcherQueue
<1>2. PICK c \in Needed[mstate] : Pending(c)
  BY <1>1 DEF ShutdownGoesOn
<1> QED BY <1>2, Kept

LEMMA ShutdownGoesOnDispatcher ==
  ASSUME TypeOK, ShutdownGoesOn, Dispatcher
  PROVE  ShutdownGoesOn'
<1>0. high # <<>>
  BY DispatcherQueue
<1> DEFINE M(op) == Management(op)
<1>1. \A op \in ManagementOps \cup {"sip_stack_shutdown_done"} : M(op) \in Commands
  BY DEF Management, Command, Commands
<1>2. CASE a0_start_startShutdown_startShutdown
  <2>1. InQueue(M("terminate_all_calls"))'
    BY <1>0, <1>1, <1>2, Added DEF a0_start_startShutdown_startShutdown, ManagementOps
  <2> QED BY <1>2, <2>1 DEF a0_start_startShutdown_startShutdown, Goes,
     ShutdownGoesOn, Needed, Pending
<1>3. CASE a10_startSh_terminateCallsSh_terminateAll
  BY <1>3 DEF a10_startSh_terminateCallsSh_terminateAll, Requests, Goes,
     ShutdownGoesOn, Needed, Pending
<1>4. CASE a11_terminateCallsSh_callTerminatedEarly
  <2>1. \A c \in Needed[mstate] : c # Head(high) /\ (c \in armed => c \in armed')
    BY <1>4 DEF a11_terminateCallsSh_callTerminatedEarly, Goes, Dispatched, Needed,
       Management, Command
  <2> QED BY <1>4, <2>1, StaysInShutdown
     DEF a11_terminateCallsSh_callTerminatedEarly, Goes
<1>5. CASE a12_terminateCallsSh_timeIsUp
  <2>1. InQueue(M("unregister_all_identities"))'
    BY <1>0, <1>1, <1>5, Added DEF a12_terminateCallsSh_timeIsUp, ManagementOps
  <2> QED BY <1>5, <2>1 DEF a12_terminateCallsSh_timeIsUp, Goes, ShutdownGoesOn,
     Needed, Pending
<1>6. CASE a13_terminateCallsSh_allTerminated
  <2>1. InQueue(M("unregister_all_identities"))'
    BY <1>0, <1>1, <1>6, Added DEF a13_terminateCallsSh_allTerminated, ManagementOps
  <2> QED BY <1>6, <2>1 DEF a13_terminateCallsSh_allTerminated, Goes,
     ShutdownGoesOn, Needed, Pending
<1>7. CASE a20_terminateCallsSh_deRegAllSh_allTerminated
  BY <1>7 DEF a20_terminateCallsSh_deRegAllSh_allTerminated, Requests, Goes,
     ShutdownGoesOn, Needed, Pending
<1>8. CASE a21_deRegAllSh_callTerminatedEarly
  <2>1. \A c \in Needed[mstate] : c # Head(high) /\ (c \in armed => c \in armed')
    BY <1>8 DEF a21_deRegAllSh_callTerminatedEarly, Goes, Dispatched, Needed,
       Management, Command
  <2> QED BY <1>8, <2>1, StaysInShutdown DEF a21_deRegAllSh_callTerminatedEarly, Goes
<1>9. CASE a22_deRegAllSh_registerOk
  <2>1. \A c \in Needed[mstate] : c # Head(high) /\ (c \in armed => c \in armed')
    BY <1>9 DEF a22_deRegAllSh_registerOk, Goes, Dispatched, Needed, Management, Command
  <2> QED BY <1>9, <2>1, StaysInShutdown DEF a22_deRegAllSh_registerOk, Goes
<1>10. CASE a24_deRegAllSh_deRegAlldone
  <2>1. \A c \in Needed[mstate] : c # Head(high) /\ (c \in armed => c \in armed')
    BY <1>10 DEF a24_deRegAllSh_deRegAlldone, Goes, Dispatched, Needed, Management,
       Command
  <2> QED BY <1>10, <2>1, StaysInShutdown DEF a24_deRegAllSh_deRegAlldone, Goes
<1>11. CASE a25_deRegAllSh_allTerminated
  <2>1. \A c \in Needed[mstate] : c # Head(high) /\ (c \in armed => c \in armed')
    BY <1>11 DEF a25_deRegAllSh_allTerminated, Goes, Dispatched, Needed, Management,
       Command
  <2> QED BY <1>11, <2>1, StaysInShutdown DEF a25_deRegAllSh_allTerminated, Goes
<1>12. CASE a23_deRegAllSh_timeIsUp
  <2>1. InQueue(M("sip_stack_shutdown_done"))'
    BY <1>0, <1>1, <1>12, Added DEF a23_deRegAllSh_timeIsUp, shutdownDone
  <2> QED BY <1>12, <2>1 DEF a23_deRegAllSh_timeIsUp, Goes, ShutdownGoesOn, Needed,
     Pending
<1>13. CASE stopRunning
  BY <1>13 DEF stopRunning, ShutdownGoesOn
<1>14. CASE Shutdown
  BY <1>2, <1>3, <1>4, <1>5, <1>6, <1>7, <1>8, <1>9, <1>10, <1>11, <1>12, <1>13,
     <1>14 DEF Shutdown
<1>15. CASE Operations
  <2>1. mstate' \in {"start"} \cup OpsState
    BY <1>15 DEF Operations, b0_start_terminateCallsOps_terminateAll,
       b11_terminateCallsOps_terminateEarly,
       b30_terminateCallsOps_start_terminateAllDone, c0_start_deRegAllOps_deRegAll,
       c11_deRegAllOps_registerOk, c30_deRegAllOps_start_deRegAllDone,
       d0_start_regAllOps_regAll, d11_regAllOps_registerOk,
       d30_regAllOps_start_regAllDone, Goes, OpsState
  <2> QED BY <2>1 DEF ShutdownGoesOn, ShutdownState, OpsState
<1>16. CASE managementIgnores
  <2>1. PICK op \in ManagementOps \ Understands[mstate] : Dispatched(M(op))
    BY <1>16 DEF managementIgnores
  <2>2. mstate' = mstate /\ armed' = armed
    BY <1>16 DEF managementIgnores, managementVars
  <2>3. CASE mstate \in ShutdownState
    <3>1. \A c \in Needed[mstate] : c # Head(high)
      BY <2>1, <2>3 DEF ShutdownState, Understands, ManagementOps, Timers, Needed,
         Dispatched, Management, Command
    <3> QED BY <2>2, <3>1, StaysInShutdown
  <2>4. CASE mstate \notin ShutdownState
    BY <2>2, <2>4 DEF ShutdownGoesOn
  <2> QED BY <2>3, <2>4
<1>17. ASSUME UNCHANGED managementVars, NEW h, Head(high) = h,
              h.op \notin ManagementOps \cup {"sip_stack_shutdown_done"},
              \A c : c \in armed \ armed' => c.op = "refresh"
       PROVE  ShutdownGoesOn'
  <2>1. mstate' = mstate
    BY <1>17 DEF managementVars
  <2>2. CASE mstate \in ShutdownState
    <3>1. \A c \in Needed[mstate] : c.op \in ManagementOps \cup {"sip_stack_shutdown_done"}
      BY <2>2 DEF ShutdownState, Needed, Management, Command, ManagementOps, Timers
    <3>2. \A c \in Needed[mstate] : c # Head(high) /\ c.op # "refresh"
      BY <1>17, <3>1 DEF ManagementOps, Timers
    <3> QED BY <1>17, <2>1, <3>2, StaysInShutdown
  <2>3. CASE mstate \notin ShutdownState
    BY <2>1, <2>3 DEF ShutdownGoesOn
  <2> QED BY <2>2, <2>3
<1>18. CASE defaultHandler /\ UNCHANGED managementVars
  <2>1. PICK c \in ProxyRegisters : Dispatched(c)
    BY <1>18 DEF defaultHandler
  <2>2. Head(high).op = "proxy_register" /\ armed' = armed
    BY <1>18, <2>1 DEF Dispatched, ProxyRegisters, defaultHandler
  <2> QED BY <1>17, <1>18, <2>2 DEF ManagementOps, Timers
<1>19. ASSUME NEW d \in Registers, RegisterSteps(d), UNCHANGED managementVars
       PROVE  ShutdownGoesOn'
  <2> DEFINE Good == /\ Head(high).op \in {"proxy_register", "2xx", "401", "36x",
                                          "transport_error", "setpassword", "refresh"}
                     /\ \A c : c \in armed \ armed' => c = Refresh(d)
  <2>1. a0_start_trying_register(d) => Good
    BY DEF a0_start_trying_register, Dispatched, Command, ProxyRegisters
  <2>2. a1_trying_registred_2xx(d) => Good
    BY DEF a1_trying_registred_2xx, Dispatched, Command
  <2>3. a2_trying_trying_40x(d) => Good
    BY DEF a2_trying_trying_40x, Dispatched, Command
  <2>4. a3_trying_askpassword_40x(d) => Good
    BY DEF a3_trying_askpassword_40x, Dispatched, Command
  <2>5. a5_askpassword_trying_setpassword(d) => Good
    BY DEF a5_askpassword_trying_setpassword, Dispatched, Command
  <2>6. a10_trying_failed_transporterror(d) => Good
    BY DEF a10_trying_failed_transporterror, Dispatched, Command
  <2>7. a12_registred_trying_proxyregister(d) => Good
    BY DEF a12_registred_trying_proxyregister, Dispatched, Command, ProxyRegisters,
       Refresh
  <2>8. registerIgnores(d) => Good
    BY DEF registerIgnores, Dispatched, Command, Refresh
  <2>9. Good
    BY <1>19, <2>1, <2>2, <2>3, <2>4, <2>5, <2>6, <2>7, <2>8 DEF RegisterSteps
  <2>10. Refresh(d).op = "refresh"
    BY DEF Refresh, Command
  <2> QED BY <1>17, <1>19, <2>9, <2>10 DEF ManagementOps, Timers
<1>20. ASSUME NEW c \in Calls, hang_up(c) \/ removeDialog(c), UNCHANGED managementVars
       PROVE  ShutdownGoesOn'
  <2>1. Head(high).op \in {"hang_up", "call_terminated"} /\ armed' = armed
    BY <1>20 DEF hang_up, removeDialog, Dispatched, Command, Outside
  <2> QED BY <1>17, <1>20, <2>1 DEF ManagementOps, Timers
<1> QED BY <1>14, <1>15, <1>16, <1>18, <1>19, <1>20 DEF Dispatcher

LEMMA ShutdownGoesOnStep ==
  ASSUME TypeOK, ShutdownGoesOn, [Next]_vars
  PROVE  ShutdownGoesOn'
<1>1. CASE UNCHANGED vars
  BY <1>1 DEF vars, layerVars, managementVars, ShutdownGoesOn, Pending, InQueue
<1>2. CASE Next /\ ~Dispatcher
  <2>1. (\A c : Pending(c) => Pending(c)') /\ running' = running /\ mstate' = mstate
    BY <1>2, OthersQueue
  <2> QED BY <2>1 DEF ShutdownGoesOn, Needed
<1> QED BY <1>1, <1>2, ShutdownGoesOnDispatcher

(* However many calls and registrations there are and whatever their peers *)
(* do, a shutdown that has begun has its next step coming until the        *)
(* dispatcher has stopped.                                                 *)
THEOREM ShutdownNeverStuck == Spec => []ShutdownGoesOn
<1>1. Init => ShutdownGoesOn
  BY DEF Init, ManagementInit, ShutdownGoesOn, ShutdownState
<1> QED BY <1>1, TypeInit, TypeStep, ShutdownGoesOnStep, PTL DEF Spec
----------------------------------------------------------------------------
(* The registrations.                                                      *)

(* The head of the queue is none of the commands that a dialog which       *)
(* renews its registration waits for.                                      *)
NotFor(e) ==
  /\ Refresh(e) # Head(high)
  /\ \A r \in {"2xx", "401", "transport_error"} : Command(r, e) # Head(high)

(* A dialog that renews its registration does so after a step of another   *)
(* that takes nothing of it.                                               *)
LEMMA RenewsKept ==
  ASSUME TypeOK, Dispatcher, NEW e \in Registers, Renews(e),
         rstate'[e] = rstate[e], waiting'[e] = waiting[e], NotFor(e),
         Refresh(e) \in armed => Refresh(e) \in armed'
  PROVE  Renews(e)'
<1>1. CASE Outstanding(e)
  <2>1. \A r \in {"2xx", "401", "transport_error"} :
          InQueue(Command(r, e)) => InQueue(Command(r, e))'
    BY DispatcherQueue DEF NotFor
  <2> QED BY <1>1, <2>1 DEF Renews, Outstanding
<1>2. CASE rstate[e] = "askpassword"
  BY <1>2 DEF Renews
<1>3. CASE rstate[e] = "registred" /\ Pending(Refresh(e))
  <2>1. Pending(Refresh(e))'
    BY <1>3, Kept DEF NotFor
  <2> QED BY <1>3, <2>1 DEF Renews
<1> QED BY <1>1, <1>2, <1>3 DEF Renews

(* What a step of one registration does to it, and leaves to the others.   *)
LeavesOthers(d) ==
  /\ ident' = ident
  /\ \A e \in Registers \ {d} :
       /\ rstate'[e] = rstate[e] /\ waiting'[e] = waiting[e] /\ NotFor(e)
       /\ Refresh(e) \in armed => Refresh(e) \in armed'
  /\ \A i \in Identities \ {ident[d]} :
       registered'[i] = registered[i] /\ refused'[i] = refused[i]

Ignores(d) ==
  /\ registered' = registered /\ refused' = refused /\ armed' = armed
  /\ rstate'[d] = rstate[d] /\ waiting'[d] = waiting[d]
  /\ rstate[d] = "registred" => Refresh(d) # Head(high)
  /\ \A r \in {"2xx", "401", "transport_error"} : Command(r, d) # Head(high)

LEMMA RegisterStepKeeps ==
  ASSUME TypeOK, NEW d \in Registers, RegisterSteps(d)
  PROVE  /\ LeavesOthers(d)
         /\ ident[d] \in Identities /\ registered'[ident[d]] => Renews(d)' \/ Ignores(d)
<1> DEFINE Keeps ==
      /\ LeavesOthers(d)
      /\ ident[d] \in Identities /\ registered'[ident[d]] => Renews(d)' \/ Ignores(d)
<1> USE DEF TypeOK, Refresh, Command, Dispatched, LeavesOthers, Ignores, NotFor
<1>1. a0_start_trying_register(d) => Keeps
  BY DEF a0_start_trying_register, SendsRegister, ProxyRegisters, Renews, Outstanding
<1>2. a1_trying_registred_2xx(d) => Keeps
  BY DEF a1_trying_registred_2xx, Renews, Pending
<1>3. a2_trying_trying_40x(d) => Keeps
  BY DEF a2_trying_trying_40x, SendsRegister, Renews, Outstanding
<1>4. a3_trying_askpassword_40x(d) => Keeps
  BY DEF a3_trying_askpassword_40x, Renews
<1>5. a5_askpassword_trying_setpassword(d) => Keeps
  BY DEF a5_askpassword_trying_setpassword, SendsRegister, Renews, Outstanding
<1>6. a10_trying_failed_transporterror(d) => Keeps
  BY DEF a10_trying_failed_transporterror
<1>7. a12_registred_trying_proxyregister(d) => Keeps
  BY DEF a12_registred_trying_proxyregister, SendsRegister, ProxyRegisters, Renews,
     Outstanding
<1>8. registerIgnores(d) => Keeps
  BY DEF registerIgnores, registerVars
<1> HIDE DEF Keeps
<1>9. Keeps
  BY <1>1, <1>2, <1>3, <1>4, <1>5, <1>6, <1>7, <1>8 DEF RegisterSteps
<1> QED BY <1>9 DEF Keeps

(* The management dialog leaves the registrations and their timeouts       *)
(* alone, and takes none of their answers.                                 *)
NotAnswer(op) == op \notin {"refresh", "2xx", "401", "transport_error"}

LEMMA ManagementKeepsRefresh ==
  ASSUME Shutdown \/ Operations \/ managementIgnores
  PROVE  /\ NotAnswer(Head(high).op) /\ UNCHANGED registerVars
         /\ \A c : c \in armed \ armed' => c.op \in Timers
<1> DEFINE Leaves == /\ NotAnswer(Head(high).op) /\ UNCHANGED registerVars
                     /\ \A c : c \in armed \ armed' => c.op \in Timers
<1> USE DEF NotAnswer, Goes, Dispatched, Management, Command, Alone, Requests, Cancels, Timers
<1>1. Shutdown => Leaves
  <2>1. (a0_start_startShutdown_startShutdown \/
         a10_startSh_terminateCallsSh_terminateAll \/
         a11_terminateCallsSh_callTerminatedEarly \/
         a12_terminateCallsSh_timeIsUp \/
         a13_terminateCallsSh_allTerminated \/
         a20_terminateCallsSh_deRegAllSh_allTerminated) => Leaves
    BY DEF a0_start_startShutdown_startShutdown,
       a10_startSh_terminateCallsSh_terminateAll,
       a11_terminateCallsSh_callTerminatedEarly,
       a12_terminateCallsSh_timeIsUp, a13_terminateCallsSh_allTerminated,
       a20_terminateCallsSh_deRegAllSh_allTerminated
  <2>2. a21_deRegAllSh_callTerminatedEarly => Leaves
    BY DEF a21_deRegAllSh_callTerminatedEarly
  <2>3. a22_deRegAllSh_registerOk => Leaves
    BY DEF a22_deRegAllSh_registerOk
  <2>4. a23_deRegAllSh_timeIsUp => Leaves
    BY DEF a23_deRegAllSh_timeIsUp
  <2>5. a24_deRegAllSh_deRegAlldone => Leaves
    BY DEF a24_deRegAllSh_deRegAlldone
  <2>6. a25_deRegAllSh_allTerminated => Leaves
    BY DEF a25_deRegAllSh_allTerminated
  <2>7. stopRunning => Leaves
    BY DEF stopRunning, managementVars
  <2> QED BY <2>1, <2>2, <2>3, <2>4, <2>5, <2>6, <2>7 DEF Shutdown
<1>2. Operations => Leaves
  BY DEF Operations, b0_start_terminateCallsOps_terminateAll,
     b11_terminateCallsOps_terminateEarly, b30_terminateCallsOps_start_terminateAllDone,
     c0_start_deRegAllOps_deRegAll, c11_deRegAllOps_registerOk, c30_deRegAllOps_start_deRegAllDone,
     d0_start_regAllOps_regAll, d11_regAllOps_registerOk, d30_regAllOps_start_regAllDone
<1>3. managementIgnores => Leaves
  BY DEF managementIgnores, ManagementOps
<1> QED BY <1>1, <1>2, <1>3

LEMMA RegistrationKeptDispatcher ==
  ASSUME TypeOK, RegistrationKeptAlive, Dispatcher
  PROVE  RegistrationKeptAlive'
<1>1. ASSUME UNCHANGED registerVars, NotAnswer(Head(high).op),
             \A c : c \in armed \ armed' => c.op # "refresh"
      PROVE  RegistrationKeptAlive'
  <2>1. ASSUME NEW e \in Registers, Renews(e)
        PROVE  Renews(e)'
    <3>1. NotFor(e) /\ (Refresh(e) \in armed => Refresh(e) \in armed')
      BY <1>1 DEF Refresh, Command, NotFor, NotAnswer
    <3>2. rstate'[e] = rstate[e] /\ waiting'[e] = waiting[e]
      BY <1>1 DEF registerVars
    <3> QED BY <2>1, <3>1, <3>2, RenewsKept
  <2> QED BY <1>1, <2>1 DEF RegistrationKeptAlive, registerVars
<1>2. CASE Shutdown \/ Operations \/ managementIgnores
  BY <1>1, <1>2, ManagementKeepsRefresh DEF Timers
<1>3. CASE defaultHandler
  <2>1. /\ Head(high).op = "proxy_register" /\ armed' = armed
        /\ registered' = registered /\ refused' = refused /\ waiting' = waiting
    BY <1>3 DEF defaultHandler, ProxyRegisters, Dispatched
  <2>2. ASSUME NEW e \in Registers, Renews(e)
        PROVE  Renews(e)' /\ ident'[e] = ident[e]
    <3>1. rstate[e] # "none"
      BY <2>2 DEF Renews, Outstanding
    <3>2. rstate'[e] = rstate[e] /\ ident'[e] = ident[e]
      BY <1>3, <3>1 DEF defaultHandler, TypeOK
    <3>3. NotFor(e)
      BY <2>1 DEF Refresh, Command, NotFor
    <3> QED BY <2>1, <2>2, <3>2, <3>3, RenewsKept
  <2> QED BY <2>1, <2>2 DEF RegistrationKeptAlive
<1>4. ASSUME NEW d \in Registers, RegisterSteps(d)
      PROVE  RegistrationKeptAlive'
  <2> SUFFICES ASSUME NEW i \in Identities, registered'[i], ~refused'[i]
               PROVE  \E e \in Registers : ident'[e] = i /\ Renews(e)'
    BY DEF RegistrationKeptAlive
  <2>1. LeavesOthers(d) /\ (i = ident[d] => Renews(d)' \/ Ignores(d))
    BY <1>4, RegisterStepKeeps
  <2>2. CASE i = ident[d] /\ Renews(d)'
    BY <2>1, <2>2 DEF LeavesOthers
  <2>3. CASE ~(i = ident[d] /\ Renews(d)')
    <3>1. registered[i] /\ ~refused[i]
      BY <2>1, <2>3 DEF LeavesOthers, Ignores
    <3>2. PICK e \in Registers : ident[e] = i /\ Renews(e)
      BY <3>1 DEF RegistrationKeptAlive
    <3>3. Renews(e)'
      <4>1. CASE e # d
        BY <2>1, <3>2, <4>1, RenewsKept DEF LeavesOthers
      <4>2. CASE e = d
        <5>1. Ignores(d)
          BY <2>1, <2>3, <3>2, <4>2
        <5>2. CASE rstate[d] = "registred"
          BY <3>2, <4>2, <5>1, <5>2, RenewsKept DEF Ignores, NotFor
        <5>3. CASE rstate[d] = "askpassword"
          BY <4>2, <5>1, <5>3 DEF Ignores, Renews
        <5>4. CASE Outstanding(d)
          <6>1. \A r \in {"2xx", "401", "transport_error"} :
                  InQueue(Command(r, d)) => InQueue(Command(r, d))'
            BY <5>1, DispatcherQueue DEF Ignores
          <6> QED BY <4>2, <5>1, <5>4, <6>1 DEF Ignores, Renews, Outstanding
        <5> QED BY <3>2, <4>2, <5>2, <5>3, <5>4 DEF Renews
      <4> QED BY <4>1, <4>2
    <3> QED BY <2>1, <3>2, <3>3 DEF LeavesOthers
  <2> QED BY <2>2, <2>3
<1>5. ASSUME NEW c \in Calls, hang_up(c) \/ removeDialog(c), UNCHANGED registerVars
      PROVE  RegistrationKeptAlive'
  <2>1. NotAnswer(Head(high).op) /\ armed' = armed
    BY <1>5 DEF hang_up, removeDialog, Outside, Dispatched, Command, NotAnswer
  <2> QED BY <1>1, <1>5, <2>1
<1> QED BY <1>2, <1>3, <1>4, <1>5 DEF Dispatcher

LEMMA RegistrationKeptStep ==
  ASSUME TypeOK, RegistrationKeptAlive, [Next]_vars
  PROVE  RegistrationKeptAlive'
<1>1. CASE UNCHANGED vars
  BY <1>1 DEF vars, layerVars, registerVars, RegistrationKeptAlive, Renews,
     Outstanding, Pending, InQueue
<1>2. CASE Next /\ ~Dispatcher
  <2>1. /\ \A t : Pending(t) => Pending(t)'
        /\ \A c : InQueue(c) => InQueue(c)'
    BY <1>2, OthersQueue
  <2>2. ASSUME NEW d \in Registers, NEW r \in {"2xx", "401", "36x", "transport_error"},
               Answered(d, r)
        PROVE  RegistrationKeptAlive'
    <3>1. /\ UNCHANGED <<rstate, ident, registered>>
          /\ waiting' = [waiting EXCEPT ![d] = FALSE] /\ waiting[d]
          /\ refused' = [refused EXCEPT ![ident[d]] = @ \/ r = "36x"]
          /\ r # "36x" => InQueue(Command(r, d))'
      <4>1. Command(r, d) \in Commands
        BY DEF Command, Commands
      <4>2. InQueue(Command(r, d))'
        BY <2>2, <4>1, Appended DEF Answered
      <4> QED BY <2>2, <4>2 DEF Answered
    <3> SUFFICES ASSUME NEW i \in Identities, registered'[i], ~refused'[i]
                 PROVE  \E e \in Registers : ident'[e] = i /\ Renews(e)'
      BY DEF RegistrationKeptAlive
    <3>2. registered[i] /\ ~refused[i] /\ (i = ident[d] => r # "36x")
      BY <3>1 DEF TypeOK
    <3>3. PICK e \in Registers : ident[e] = i /\ Renews(e)
      BY <3>2 DEF RegistrationKeptAlive
    <3>4. Renews(e)'
      <4>1. CASE e = d
        BY <2>1, <3>1, <3>2, <3>3, <4>1 DEF Renews, Outstanding
      <4>2. CASE e # d
        <5>1. waiting'[e] = waiting[e]
          BY <3>1, <4>2 DEF TypeOK
        <5> QED BY <2>1, <3>1, <3>3, <5>1 DEF Renews, Outstanding
      <4> QED BY <4>1, <4>2
    <3> QED BY <3>1, <3>3, <3>4
  <2>3. CASE UNCHANGED registerVars
    BY <2>1, <2>3 DEF RegistrationKeptAlive, Renews, Outstanding, registerVars
  <2> QED BY <1>2, <2>2, <2>3 DEF Next, User, Peers, Renewal, TimeIsUp
<1> QED BY <1>1, <1>2, RegistrationKeptDispatcher

(* Whatever the user, the registrars and the shutdown do, in whatever      *)
(* order their commands come, no identity that is shown as registered is   *)
(* left without a dialog that will renew it or is at it, unless the last   *)
(* answer to come for it was one that no transition is there for.          *)
THEOREM RegistrationKept == Spec => []RegistrationKeptAlive
<1>1. Init => RegistrationKeptAlive
  BY DEF Init, RegisterInit, RegistrationKeptAlive
<1> QED BY <1>1, TypeInit, TypeStep, RegistrationKeptStep, PTL DEF Spec

----------------------------------------------------------------------------
(* The calls.                                                              *)

(* The dialog layer is told once that a call has terminated, and not       *)
(* before it has.                                                          *)
RemovalOK ==
  \A c \in Calls, i \in DOMAIN high :
    high[i] = Command("call_terminated", c) =>
      /\ call[c] = "terminated"
      /\ \A j \in DOMAIN high : high[j] = high[i] => j = i

(* What is in the queue and was not enqueued was behind the head.          *)
LEMMA DispatchShifts ==
  ASSUME NEW C, NEW q \in Seq(C), q # <<>>, NEW s \in Seq(C), NEW x,
         \A k \in DOMAIN s : s[k] # x,
         NEW i \in DOMAIN (Tail(q) \o s), (Tail(q) \o s)[i] = x
  PROVE  i \in Nat \ {0} /\ i + 1 \in DOMAIN q /\ q[i + 1] = x
<1> DEFINE r == Tail(q) \o s
<1>1. Len(q) \in Nat \ {0} /\ DOMAIN q = 1 .. Len(q) /\ DOMAIN s = 1 .. Len(s) /\ Len(s) \in Nat
  OBVIOUS
<1>2. Len(Tail(q)) = Len(q) - 1 /\ Tail(q) \in Seq(C)
  OBVIOUS
<1>3. Len(r) = Len(q) - 1 + Len(s) /\ DOMAIN r = 1 .. Len(r)
  BY <1>1, <1>2
<1>4. \A k \in 1 .. (Len(q) - 1) : r[k] = q[k + 1]
  BY <1>1, <1>2
<1>5. ASSUME i > Len(q) - 1
      PROVE  FALSE
  <2>1. i - (Len(q) - 1) \in DOMAIN s
    BY <1>1, <1>3, <1>5
  <2>2. r[i] = s[i - (Len(q) - 1)]
    BY <1>1, <1>2, <1>3, <1>5
  <2> QED BY <2>1, <2>2
<1>6. i \in 1 .. (Len(q) - 1)
  BY <1>1, <1>3, <1>5
<1> QED BY <1>1, <1>4, <1>6

(* A round of the dispatcher in which no call but the one that is removed  *)
(* leaves terminated.                                                      *)
LEMMA RemovalDispatch ==
  ASSUME TypeOK, RemovalOK, high # <<>>, NEW s \in Seq(Plain), Enqueues(s),
         \A c \in Calls : call[c] = "terminated" =>
           call'[c] = "terminated" \/ Head(high) = Command("call_terminated", c)
  PROVE  RemovalOK'
<1> SUFFICES ASSUME NEW c \in Calls, NEW i \in DOMAIN high',
                    high'[i] = Command("call_terminated", c)
             PROVE  /\ call'[c] = "terminated"
                    /\ \A j \in DOMAIN high' : high'[j] = high'[i] => j = i
  BY DEF RemovalOK
<1> DEFINE x == Command("call_terminated", c)
<1>1. high \in Seq(Commands) /\ s \in Seq(Commands) /\ high' = Tail(high) \o s
  BY DEF TypeOK, Plain, Enqueues
<1>2. \A k \in DOMAIN s : s[k] # x
  BY DEF Plain, Command
<1> HIDE DEF x
<1>3. ASSUME NEW j \in DOMAIN high', high'[j] = x
      PROVE  j \in Nat \ {0} /\ j + 1 \in DOMAIN high /\ high[j + 1] = x
  BY <1>1, <1>2, <1>3, DispatchShifts
<1>4. i \in Nat \ {0} /\ i + 1 \in DOMAIN high /\ high[i + 1] = x
  BY <1>3 DEF x
<1>5. /\ call[c] = "terminated"
      /\ \A j \in DOMAIN high : high[j] = x => j = i + 1
  BY <1>4 DEF RemovalOK, x
<1>6. Head(high) # x
  <2>1. Head(high) = high[1] /\ 1 \in DOMAIN high
    BY <1>1
  <2>2. i + 1 # 1
    BY <1>4
  <2> QED BY <1>5, <2>1, <2>2
<1>7. call'[c] = "terminated"
  BY <1>5, <1>6 DEF x
<1>8. ASSUME NEW j \in DOMAIN high', high'[j] = x
      PROVE  j = i
  <2>1. j \in Nat \ {0} /\ j + 1 \in DOMAIN high /\ high[j + 1] = x
    BY <1>3, <1>8
  <2>2. j + 1 = i + 1
    BY <1>5, <2>1
  <2> QED BY <1>4, <2>1, <2>2
<1> QED BY <1>7, <1>8 DEF x

(* A command of another thread: call_terminated comes when its call does.  *)
LEMMA RemovalAppend ==
  ASSUME TypeOK, RemovalOK, NEW x \in Commands, high' = Append(high, x),
         \A c \in Calls : call[c] = "terminated" => call'[c] = "terminated",
         \A c \in Calls : x = Command("call_terminated", c) =>
           call[c] # "terminated" /\ call'[c] = "terminated"
  PROVE  RemovalOK'
<1> SUFFICES ASSUME NEW c \in Calls, NEW i \in DOMAIN high',
                    high'[i] = Command("call_terminated", c)
             PROVE  /\ call'[c] = "terminated"
                    /\ \A j \in DOMAIN high' : high'[j] = high'[i] => j = i
  BY DEF RemovalOK
<1> DEFINE y == Command("call_terminated", c)
<1> HIDE DEF y
<1>1. high \in Seq(Commands)
  BY DEF TypeOK
<1>2. /\ Len(high) \in Nat /\ DOMAIN high = 1 .. Len(high)
      /\ DOMAIN high' = 1 .. (Len(high) + 1) /\ high'[Len(high) + 1] = x
      /\ \A k \in DOMAIN high : high'[k] = high[k]
  BY <1>1
<1>3. \A k \in DOMAIN high : high[k] = y =>
        /\ call[c] = "terminated"
        /\ \A j \in DOMAIN high : high[j] = y => j = k
  BY DEF RemovalOK, y
<1>4. CASE x = y
  <2>1. \A k \in DOMAIN high : high'[k] # y
    BY <1>2, <1>3, <1>4 DEF y
  <2>2. \A k \in DOMAIN high' : high'[k] = y => k = Len(high) + 1
    BY <1>2, <2>1
  <2> QED BY <1>4, <2>2 DEF y
<1>5. CASE x # y
  <2>1. \A k \in DOMAIN high' : high'[k] = y => k \in DOMAIN high /\ high[k] = y
    BY <1>2, <1>5
  <2>2. i \in DOMAIN high /\ high[i] = y
    BY <2>1 DEF y
  <2> QED BY <1>3, <2>1, <2>2 DEF y
<1> QED BY <1>4, <1>5

(* Neither the management dialog nor a registration touches a call.        *)
LEMMA CallsUntouched ==
  ASSUME \/ Shutdown \/ Operations \/ managementIgnores \/ defaultHandler
         \/ \E d \in Registers : RegisterSteps(d)
  PROVE  call' = call
<1> USE DEF Alone
<1>1. Shutdown => call' = call
  BY DEF Shutdown, a0_start_startShutdown_startShutdown,
     a10_startSh_terminateCallsSh_terminateAll, a11_terminateCallsSh_callTerminatedEarly,
     a12_terminateCallsSh_timeIsUp, a13_terminateCallsSh_allTerminated,
     a20_terminateCallsSh_deRegAllSh_allTerminated, a21_deRegAllSh_callTerminatedEarly,
     a22_deRegAllSh_registerOk, a23_deRegAllSh_timeIsUp, a24_deRegAllSh_deRegAlldone,
     a25_deRegAllSh_allTerminated, stopRunning
<1>2. Operations => call' = call
  BY DEF Operations, b0_start_terminateCallsOps_terminateAll,
     b11_terminateCallsOps_terminateEarly, b30_terminateCallsOps_start_terminateAllDone,
     c0_start_deRegAllOps_deRegAll, c11_deRegAllOps_registerOk, c30_deRegAllOps_start_deRegAllDone,
     d0_start_regAllOps_regAll, d11_regAllOps_registerOk, d30_regAllOps_start_regAllDone
<1>3. managementIgnores \/ defaultHandler => call' = call
  BY DEF managementIgnores, defaultHandler
<1>4. ASSUME NEW d \in Registers, RegisterSteps(d)
      PROVE  call' = call
  BY <1>4 DEF RegisterSteps, a0_start_trying_register, a1_trying_registred_2xx,
     a2_trying_trying_40x, a3_trying_askpassword_40x, a5_askpassword_trying_setpassword,
     a10_trying_failed_transporterror, a12_registred_trying_proxyregister, registerIgnores
<1> QED BY <1>1, <1>2, <1>3, <1>4

(* One step: RemovalOK makes the removal find the call terminated.         *)
LEMMA CallStep ==
  ASSUME TypeOK, RemovalOK, [Next]_vars
  PROVE  RemovalOK' /\ [CallNext]_call
<1> USE DEF Becomes
<1>1. CASE UNCHANGED vars
  BY <1>1 DEF vars, layerVars, RemovalOK
<1>2. CASE Dispatcher
  <2>1. high # <<>> /\ \E s \in Seq(Plain) : Enqueues(s)
    BY <1>2, DispatcherEnqueues
  <2>2. CASE call' = call
    BY <2>1, <2>2, RemovalDispatch
  <2>3. ASSUME NEW c \in Calls, hang_up(c)
        PROVE  RemovalOK' /\ [CallNext]_call
    <3>1. SaysBye(c) \/ Ends(c) \/ call' = call
      BY <2>3 DEF hang_up
    <3>2. \A d \in Calls : call[d] = "terminated" => call'[d] = "terminated"
      BY <3>1 DEF SaysBye, Ends, TypeOK
    <3> QED BY <2>1, <3>1, <3>2, RemovalDispatch DEF CallNext
  <2>4. ASSUME NEW c \in Calls, removeDialog(c)
        PROVE  RemovalOK' /\ [CallNext]_call
    <3>1. Head(high) = Command("call_terminated", c) /\ Becomes(c, "gone")
      BY <2>4 DEF removeDialog, Dispatched
    <3>2. Head(high) = high[1] /\ 1 \in DOMAIN high
      BY <2>1 DEF TypeOK
    <3>3. call[c] = "terminated"
      BY <3>1, <3>2 DEF RemovalOK
    <3>4. \A d \in Calls : call[d] = "terminated" =>
            call'[d] = "terminated" \/ Head(high) = Command("call_terminated", d)
      BY <3>1 DEF TypeOK
    <3> QED BY <2>1, <3>1, <3>3, <3>4, RemovalDispatch DEF CallNext, IsRemoved
  <2> QED BY <1>2, <2>2, <2>3, <2>4, CallsUntouched DEF Dispatcher
<1>3. ASSUME NEW x \in Commands, high' = Append(high, x), call' = call,
             x.op # "call_terminated"
      PROVE  RemovalOK' /\ [CallNext]_call
  <2>1. \A c \in Calls : x # Command("call_terminated", c)
    BY <1>3 DEF Command
  <2> QED BY <1>3, <2>1, RemovalAppend
<1>4. CASE User
  <2>1. PICK x \in UserCommands : high' = Append(high, x)
    BY <1>4 DEF User
  <2>2. x \in Commands /\ x.op # "call_terminated"
    BY <2>1, UserCommandsType DEF Plain
  <2> QED BY <1>3, <1>4, <2>1, <2>2 DEF User
<1>5. ASSUME NEW t \in Timeouts, handleTimeout(t)
      PROVE  RemovalOK' /\ [CallNext]_call
  <2>1. t \in Commands /\ t.op # "call_terminated"
    BY DEF Timeouts, Timers, Management, Refresh, Command, Commands, ManagementOps
  <2> QED BY <1>3, <1>5, <2>1 DEF handleTimeout
<1>6. ASSUME NEW d \in Registers, NEW r \in {"2xx", "401", "36x", "transport_error"},
             Answered(d, r)
      PROVE  RemovalOK' /\ [CallNext]_call
  <2>1. Command(r, d) \in Commands /\ Command(r, d).op # "call_terminated"
    BY DEF Command, Commands
  <2> QED BY <1>3, <1>6, <2>1 DEF Answered
<1>7. ASSUME NEW c \in Calls, CallGoesOn(c)
      PROVE  RemovalOK' /\ [CallNext]_call
  <2>1. CallNext /\ high' = high
    BY <1>7 DEF CallGoesOn, CallNext
  <2>2. \A d \in Calls : call[d] = "terminated" => call'[d] = "terminated"
    BY <1>7 DEF CallGoesOn, Starts, Connects, Ends, TypeOK
  <2> QED BY <2>1, <2>2 DEF RemovalOK
<1>8. ASSUME NEW c \in Calls, a1003_byerequest_termwait(c)
      PROVE  RemovalOK' /\ [CallNext]_call
  <2> DEFINE x == Command("call_terminated_early", Nobody)
  <2>1. CallNext /\ high' = Append(high, x)
    BY <1>8 DEF a1003_byerequest_termwait, CallNext
  <2>2. \A d \in Calls : call[d] = "terminated" => call'[d] = "terminated"
    BY <1>8 DEF a1003_byerequest_termwait, ByeIsAnswered, TypeOK
  <2>3. x \in Commands /\ \A d \in Calls : x # Command("call_terminated", d)
    BY DEF Command, Commands, ManagementOps
  <2> QED BY <2>1, <2>2, <2>3, RemovalAppend
<1>9. ASSUME NEW c \in Calls, a1101_termwait_terminated_notransactions(c)
      PROVE  RemovalOK' /\ [CallNext]_call
  <2> DEFINE x == Command("call_terminated", c)
  <2>1. CallNext /\ high' = Append(high, x)
    BY <1>9 DEF a1101_termwait_terminated_notransactions, CallNext
  <2>2. \A d \in Calls : call[d] = "terminated" => call'[d] = "terminated"
    BY <1>9 DEF a1101_termwait_terminated_notransactions, Terminates, TypeOK
  <2>3. x \in Commands
    BY DEF Command, Commands
  <2>4. \A d \in Calls : x = Command("call_terminated", d) =>
          call[d] # "terminated" /\ call'[d] = "terminated"
    BY <1>9 DEF a1101_termwait_terminated_notransactions, Terminates, TypeOK, Command
  <2> QED BY <2>1, <2>2, <2>3, <2>4, RemovalAppend
<1>10. CASE \E d \in Registers : Renewal(d)
  BY <1>5, <1>10 DEF Renewal, Timeouts
<1>11. CASE \E t \in Timers : TimeIsUp(t)
  BY <1>5, <1>11 DEF TimeIsUp, Timeouts
<1> QED BY <1>1, <1>2, <1>4, <1>6, <1>7, <1>8, <1>9, <1>10, <1>11 DEF Next, Peers

LEMMA RemovalInit == Init => RemovalOK
<1> SUFFICES ASSUME Init PROVE RemovalOK
  OBVIOUS
<1>1. PICK s \in Listings(Identities) :
        high = [n \in DOMAIN s |-> ProxyRegister(Nobody, s[n], "none")]
  BY DEF Init, RegisterInit
<1>2. \A k \in DOMAIN high : high[k].op = "proxy_register"
  BY <1>1 DEF ProxyRegister
<1> QED BY <1>2 DEF RemovalOK, Command

(* However the commands of the user and of the shutdown for a call wait in *)
(* the queue while the call goes on, the call goes the way CallOutline has *)
(* for it: in particular no hang-up revives one that has ended, and        *)
(* removeDialog finds its call terminated, once.                           *)
THEOREM CallsKept == Spec => CallsKeepOutline
<1>1. Init => call = [c \in Calls |-> "none"]
  BY DEF Init, LayerInit
<1> QED BY <1>1, TypeInit, TypeStep, RemovalInit, CallStep, PTL
   DEF Spec, CallsKeepOutline, OutlineSpec
=============================================================================
