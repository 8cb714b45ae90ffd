----------------------- MODULE SipLayerTransportProofs -----------------------
(***************************************************************************)
(* Proofs about the socket servers of the transport layer, for any servers *)
(* that listen and any connections.                                        *)
(***************************************************************************)
EXTENDS SipLayerTransport, TLAPS

(* Who the threads and sockets are.                                        *)
LEMMA Who ==
  /\ Manager \in Server /\ Listener \subseteq Server /\ Server \subseteq Thread
  /\ Dispatcher \in Thread /\ Dispatcher \notin Server
  /\ Nobody \notin Thread
  /\ Connection \subseteq Socket /\ Listener \subseteq Socket
BY NobodyAssumption, DispatcherAssumption, ManagerAssumption DEF Thread

----------------------------------------------------------------------------
(* The initial state.                                                      *)
LEMMA InitIInv == Init => IInv
<1> SUFFICES ASSUME Init PROVE IInv
  OBVIOUS
<1> USE Who
<1>1. TypeOK
  BY ManagerAssumption DEF Init, TypeOK, Pipe, ServerPlaces, ManagerPlaces, ListenerPlaces, DispatcherPlaces
<1>2. SleepOK
  BY DEF Init, SleepOK
<1>3. SocketsOK
  BY ManagerAssumption DEF Init, SocketsOK
<1>4. AddingOK
  BY DEF Init, AddingOK
<1>5. StoppingOK
  BY DEF Init, StoppingOK
<1> QED BY <1>1, <1>2, <1>3, <1>4, <1>5 DEF IInv

----------------------------------------------------------------------------
(* Types.  The thread's steps, then those of the handlers and of stop().   *)
LEMMA RunType == ASSUME TypeOK, NEW s \in Server, run(s), UNCHANGED <<manager, left>> PROVE TypeOK'
<1> USE Who DEF TypeOK, Go, serverVars, Pipe, ServerPlaces, ManagerPlaces, ListenerPlaces, DispatcherPlaces
<1>1. CASE while(s)
  BY <1>1 DEF while
<1>2. CASE buildFdSet(s)
  <2>1. \A w \in Missed(s, sockets[s]) : w \subseteq Socket
    BY DEF Missed
  <2> QED BY <1>2, <2>1 DEF buildFdSet
<1>3. CASE select(s)
  BY <1>3 DEF select
<1>4. CASE inputReady(s)
  BY <1>4 DEF inputReady
<1>5. CASE walked(s)
  BY <1>5 DEF walked
<1>6. CASE ends(s)
  <2>1. /\ fdSignal' \in [Server -> Pipe] /\ doStop' \in [Server -> BOOLEAN]
        /\ \E p \in {"deaf", "closed", "ended"} : at' = [at EXCEPT ![s] = p]
    BY <1>6 DEF ends
  <2> QED BY <1>6, <2>1 DEF ends
<1> QED BY <1>1, <1>2, <1>3, <1>4, <1>5, <1>6 DEF run

LEMMA HandlerType ==
  ASSUME TypeOK, AddingOK, NEW t \in Thread,
         \/ t \in Server /\ (Returns(t) \/ Accepts(t) \/ AddsToNull(t))
         \/ Adds(t) \/ Signals(t) \/ ReadsEnd \/ ReadsInvalid \/ Removes \/ findSocket
  PROVE  TypeOK'
<1> USE Who DEF TypeOK, Go, serverVars, lock, unlock
<1>0. Server = Listener \cup {Manager} /\ Manager \notin Listener
  BY ManagerAssumption
<1> USE <1>0 DEF ServerPlaces, ManagerPlaces, ListenerPlaces, DispatcherPlaces
<1>1. CASE t \in Server /\ Returns(t)
  BY <1>1 DEF Returns
<1>2. CASE t \in Server /\ Accepts(t)
  BY <1>2 DEF Accepts
<1>3. CASE t \in Server /\ AddsToNull(t)
  BY <1>3 DEF AddsToNull
<1>4. CASE Adds(t)
  <2>1. sockets' \in [Server -> SUBSET Socket]
    BY <1>4 DEF Adds, addSocket, AddingOK
  <2> QED BY <1>4, <2>1 DEF Adds, addSocket
<1>5. CASE Signals(t)
  BY <1>5 DEF Signals, signals, signal, Pipe, Thread
<1>6. CASE ReadsEnd
  BY <1>6 DEF ReadsEnd
<1>7. CASE ReadsInvalid
  BY <1>7 DEF ReadsInvalid
<1>8. CASE Removes
  BY <1>8 DEF Removes, removeSocket
<1>9. CASE findSocket
  BY <1>9 DEF findSocket
<1> QED BY <1>1, <1>2, <1>3, <1>4, <1>5, <1>6, <1>7, <1>8, <1>9

LEMMA StopType == ASSUME TypeOK, stopRunning \/ Stops PROVE TypeOK'
<1> USE Who DEF TypeOK, Go, serverVars, lock, unlock
<1> USE DEF ServerPlaces, ManagerPlaces, ListenerPlaces, DispatcherPlaces
<1>1. CASE stopRunning
  BY <1>1 DEF stopRunning
<1>2. ASSUME NEW s \in Server, StopsServer(s) PROVE TypeOK'
  BY <1>2 DEF StopsServer, stop
<1>3. ASSUME NEW s \in Server, Joins(s) PROVE TypeOK'
  BY <1>3 DEF Joins, join
<1>4. CASE StopSignals
  BY <1>4 DEF StopSignals, signals, signal, Pipe
<1>5. CASE HasJoined
  BY <1>5 DEF HasJoined, joined
<1>6. CASE Closes
  BY <1>6 DEF Closes, closeSockets
<1>7. CASE SetsNull
  BY <1>7 DEF SetsNull
<1>8. CASE Frees
  BY <1>8 DEF Frees, removeSocket
<1>9. CASE FreeSignals
  BY <1>9 DEF FreeSignals, signals, signal, Pipe
<1> QED BY <1>1, <1>2, <1>3, <1>4, <1>5, <1>6, <1>7, <1>8, <1>9 DEF Stops
----------------------------------------------------------------------------
(* A sleeping thread is up to date, or is told.                            *)

LEMMA RunSleep ==
  ASSUME TypeOK, SleepOK, NEW s \in Server, run(s) PROVE SleepOK'
<1> USE Who DEF TypeOK, SleepOK, Go, serverVars, Told, Signalling
<1>1. CASE while(s)
  BY <1>1 DEF while
<1>2. CASE buildFdSet(s)
  BY <1>2 DEF buildFdSet, Missed
<1>3. CASE select(s)
  BY <1>3 DEF select
<1>4. CASE inputReady(s)
  BY <1>4 DEF inputReady
<1>5. CASE walked(s)
  BY <1>5 DEF walked
<1>6. CASE ends(s)
  BY <1>6 DEF ends
<1> QED BY <1>1, <1>2, <1>3, <1>4, <1>5, <1>6 DEF run

LEMMA HandlerSleep ==
  ASSUME TypeOK, SleepOK, AddingOK, NEW t \in Thread,
         \/ t \in Server /\ (Returns(t) \/ Accepts(t) \/ AddsToNull(t))
         \/ Adds(t) \/ Signals(t) \/ ReadsEnd \/ ReadsInvalid \/ Removes \/ findSocket
  PROVE  SleepOK'
<1> USE Who DEF TypeOK, SleepOK, Go, serverVars, Told, Signalling
<1>1. CASE t \in Server /\ Returns(t)
  BY <1>1 DEF Returns
<1>2. CASE t \in Server /\ Accepts(t)
  BY <1>2 DEF Accepts
<1>3. CASE t \in Server /\ AddsToNull(t)
  BY <1>3 DEF AddsToNull
<1>4. CASE Adds(t)
  BY <1>4 DEF Adds, addSocket
<1>5. CASE Signals(t)
  BY <1>5 DEF Signals, signals, signal
<1>6. CASE ReadsEnd
  BY <1>6 DEF ReadsEnd
<1>7. CASE ReadsInvalid
  BY <1>7 DEF ReadsInvalid
<1>8. CASE Removes
  BY <1>8 DEF Removes, removeSocket
<1>9. CASE findSocket
  BY <1>9 DEF findSocket
<1> QED BY <1>1, <1>2, <1>3, <1>4, <1>5, <1>6, <1>7, <1>8, <1>9

LEMMA StopSleep == ASSUME TypeOK, SleepOK, stopRunning \/ Stops PROVE SleepOK'
<1> USE Who DEF TypeOK, SleepOK, Go, serverVars, Told, Signalling
<1>1. CASE stopRunning
  BY <1>1 DEF stopRunning
<1>2. ASSUME NEW s \in Server, StopsServer(s) PROVE SleepOK'
  BY <1>2 DEF StopsServer, stop
<1>3. ASSUME NEW s \in Server, Joins(s) PROVE SleepOK'
  BY <1>3 DEF Joins, join
<1>4. CASE StopSignals
  BY <1>4 DEF StopSignals, signals, signal
<1>5. CASE HasJoined
  BY <1>5 DEF HasJoined, joined
<1>6. CASE Closes
  BY <1>6 DEF Closes, closeSockets
<1>7. CASE SetsNull
  BY <1>7 DEF SetsNull
<1>8. CASE Frees
  BY <1>8 DEF Frees, removeSocket
<1>9. CASE FreeSignals
  BY <1>9 DEF FreeSignals, signals, signal
<1> QED BY <1>1, <1>2, <1>3, <1>4, <1>5, <1>6, <1>7, <1>8, <1>9 DEF Stops
----------------------------------------------------------------------------
(* Who has which socket, and who closes it.                                *)
LEMMA RunSockets ==
  ASSUME TypeOK, SleepOK, SocketsOK, AddingOK, StoppingOK, NEW s \in Server, run(s)
  PROVE  SocketsOK' /\ AddingOK' /\ StoppingOK'
<1> USE Who DEF TypeOK, SocketsOK, AddingOK, StoppingOK, Go, serverVars
<1>1. CASE while(s)
  BY <1>1 DEF while
<1>2. CASE buildFdSet(s)
  BY <1>2 DEF buildFdSet, Missed
<1>3. CASE select(s)
  BY <1>3 DEF select
<1>4. CASE inputReady(s)
  BY <1>4 DEF inputReady
<1>5. CASE walked(s)
  BY <1>5 DEF walked
<1>6. CASE ends(s)
  BY <1>6 DEF ends
<1> QED BY <1>1, <1>2, <1>3, <1>4, <1>5, <1>6 DEF run

LEMMA HandlerSockets ==
  ASSUME TypeOK, SleepOK, SocketsOK, AddingOK, StoppingOK, NEW t \in Thread,
         \/ t \in Server /\ (Returns(t) \/ Accepts(t) \/ AddsToNull(t))
         \/ Adds(t) \/ Signals(t) \/ ReadsEnd \/ ReadsInvalid \/ Removes \/ findSocket
  PROVE  SocketsOK' /\ AddingOK' /\ StoppingOK'
<1> USE Who, ManagerAssumption DEF TypeOK, SocketsOK, AddingOK, StoppingOK, Go, serverVars
<1>1. CASE t \in Server /\ Returns(t)
  BY <1>1 DEF Returns
<1>2. CASE t \in Server /\ Accepts(t)
  BY <1>2 DEF Accepts
<1>3. CASE t \in Server /\ AddsToNull(t)
  BY <1>3 DEF AddsToNull
<1>4. CASE Adds(t)
  BY <1>4 DEF Adds, addSocket
<1>5. CASE Signals(t)
  BY <1>5 DEF Signals, signals, signal
<1>6. CASE ReadsEnd
  BY <1>6 DEF ReadsEnd
<1>7. CASE ReadsInvalid
  BY <1>7 DEF ReadsInvalid
<1>8. CASE Removes
  BY <1>8 DEF Removes, removeSocket
<1>9. CASE findSocket
  BY <1>9 DEF findSocket
<1> QED BY <1>1, <1>2, <1>3, <1>4, <1>5, <1>6, <1>7, <1>8, <1>9

LEMMA StopSockets ==
  ASSUME TypeOK, SleepOK, SocketsOK, AddingOK, StoppingOK, stopRunning \/ Stops
  PROVE  SocketsOK' /\ AddingOK' /\ StoppingOK'
<1> USE Who, ManagerAssumption DEF TypeOK, SocketsOK, AddingOK, StoppingOK, Go, serverVars
<1>1. CASE stopRunning
  BY <1>1 DEF stopRunning
<1>2. ASSUME NEW s \in Server, StopsServer(s) PROVE SocketsOK' /\ AddingOK' /\ StoppingOK'
  BY <1>2 DEF StopsServer, stop
<1>3. ASSUME NEW s \in Server, Joins(s) PROVE SocketsOK' /\ AddingOK' /\ StoppingOK'
  BY <1>3 DEF Joins, join
<1>4. CASE StopSignals
  BY <1>4 DEF StopSignals, signals, signal
<1>5. CASE HasJoined
  BY <1>5 DEF HasJoined, joined
<1>6. CASE Closes
  BY <1>6 DEF Closes, closeSockets
<1>7. CASE SetsNull
  BY <1>7 DEF SetsNull
<1>8. CASE Frees
  BY <1>8 DEF Frees, removeSocket
<1>9. CASE FreeSignals
  BY <1>9 DEF FreeSignals, signals, signal
<1> QED BY <1>1, <1>2, <1>3, <1>4, <1>5, <1>6, <1>7, <1>8, <1>9 DEF Stops

----------------------------------------------------------------------------
LEMMA NextIInv == IInv /\ [Next]_vars => IInv'
<1> SUFFICES ASSUME IInv, [Next]_vars PROVE IInv'
  OBVIOUS
<1>0. TypeOK /\ SleepOK /\ SocketsOK /\ AddingOK /\ StoppingOK
  BY DEF IInv
<1>1. ASSUME NEW s \in Server, run(s), UNCHANGED <<manager, left>> PROVE IInv'
  BY <1>0, <1>1, RunType, RunSleep, RunSockets DEF IInv
<1>2. ASSUME NEW t \in Thread,
             \/ t \in Server /\ (Returns(t) \/ Accepts(t) \/ AddsToNull(t))
             \/ Adds(t) \/ Signals(t) \/ ReadsEnd \/ ReadsInvalid \/ Removes \/ findSocket
      PROVE  IInv'
  BY <1>0, <1>2, HandlerType, HandlerSleep, HandlerSockets DEF IInv
<1>3. CASE stopRunning \/ Stops
  BY <1>0, <1>3, StopType, StopSleep, StopSockets DEF IInv
<1>4. CASE UNCHANGED vars
  BY <1>0, <1>4 DEF vars, serverVars, IInv, TypeOK, SleepOK, Told, Signalling, SocketsOK, AddingOK, StoppingOK
<1> QED BY <1>1, <1>2, <1>3, <1>4, Who DEF Next, ServerStep, Sends

(* The servers' maps, pipes and sockets fit where their threads are.       *)
THEOREM Invariance == Spec => []IInv
BY InitIInv, NextIInv, PTL DEF Spec

(* All variables have their types.                                         *)
THEOREM TypeCorrect == Spec => []TypeOK
<1>1. IInv => TypeOK
  BY DEF IInv
<1> QED BY <1>1, Invariance, PTL

(* No thread sleeps through a socket that was added or removed, or through *)
(* its stop: signal() comes after the change, and reaches a sleeper.       *)
THEOREM WakesUp == Spec => []SleepIsUpToDate
<1>1. IInv => SleepIsUpToDate
  BY DEF IInv, SleepOK, SleepIsUpToDate, Told
<1> QED BY <1>1, Invariance, PTL

(* No socket is closed by one thread under the select or the handler of    *)
(* another.                                                                *)
THEOREM StaysOpen == Spec => []NotClosedUnderneath
<1>1. IInv => NotClosedUnderneath
  BY DEF IInv, SocketsOK, NotClosedUnderneath
<1> QED BY <1>1, Invariance, PTL
=============================================================================
