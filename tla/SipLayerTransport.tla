--------------------------- MODULE SipLayerTransport ---------------------------
(***************************************************************************)
(* The connections of the SIP stack: the socket servers that listen, the   *)
(* manager that reads from the connections, and the dispatcher's thread,   *)
(* which makes connections when it sends and stops all servers in the end. *)
(*                                                                         *)
(* A server that reads datagrams does what one does whose accept fails.    *)
(* serversLock is taken by the dispatcher's thread only and left out.      *)
(***************************************************************************)
EXTENDS SocketServer

CONSTANTS
  Manager,      \* the server of the connections
  Listener,     \* the servers that listen, and their sockets
  Connection    \* the connections that may come to be

ASSUME ManagerAssumption ==
  /\ Manager \notin Listener /\ Server = Listener \cup {Manager}
  /\ Listener \cap Connection = {} /\ Socket = Listener \cup Connection

VARIABLES
  manager,      \* the manager is not NULL
  left          \* servers that stop() has not come to in its loop

vars == <<at, conn, serverVars, state, dead, manager, left>>

ServerPlaces == {"loop", "building", "select", "walk", "handler",
                 "ending", "deaf", "closed", "ended",
                 "signals"}      \* with the manager's lock, about to signal
ManagerPlaces == ServerPlaces \cup {"removing"}   \* about to lock, to remove conn
ListenerPlaces == ServerPlaces \cup {"adding"}    \* about to lock the manager, to add conn
DispatcherPlaces == {"idle", "adding", "signals",
                     "stopping",    \* in the loop that stops the servers
                     "stopsignals", \* with the lock, about to signal
                     "joining",     \* about to lock
                     "waiting",     \* for the thread, with the lock
                     "closing",     \* about to close the sockets
                     "nulling",     \* about to give up the manager
                     "freeing",     \* about to lock, to remove conn
                     "freesignals", "stopped",
                     "thrown"}      \* ended by an exception

----------------------------------------------------------------------------
(* StreamSocketServer::inputReady: accepts, or does not; and               *)
(* streamSocketRead: a packet or an error, the end, or what is not SIP.    *)
Returns(s) ==
  /\ at[s] = "handler"
  /\ Go(s, "walk") /\ conn' = [conn EXCEPT ![s] = Nobody]
  /\ UNCHANGED <<serverVars, state, dead, manager, left>>

Accepts(s) ==
  /\ s \in Listener /\ at[s] = "handler"
  /\ \E c \in Connection :
       /\ state[c] = "none"
       /\ state' = [state EXCEPT ![c] = "open"]
       /\ conn' = [conn EXCEPT ![s] = c]
  /\ Go(s, "adding")
  /\ UNCHANGED <<serverVars, dead, manager, left>>

ReadsEnd ==
  /\ at[Manager] = "handler"
  /\ Go(Manager, "removing")
  /\ UNCHANGED <<conn, serverVars, state, dead, manager, left>>

ReadsInvalid ==
  /\ at[Manager] = "handler"
  /\ state' = [state EXCEPT ![conn[Manager]] = "closed"]
  /\ Go(Manager, "removing")
  /\ UNCHANGED <<conn, serverVars, dead, manager, left>>

(* manager->removeSocket( *sock )                                          *)
Removes ==
  /\ at[Manager] = "removing"
  /\ removeSocket(Manager, Manager, conn[Manager])
  /\ Go(Manager, "signals")
  /\ UNCHANGED <<conn, state, manager, left>>

(* manager->addSocket: of a server that listens, or of sendMessage.        *)
Adds(t) ==
  /\ at[t] = "adding" /\ manager
  /\ addSocket(t, Manager, conn[t])
  /\ Go(t, "signals")
  /\ UNCHANGED <<conn, state, manager, left>>

(* Without a manager: MRef's assertion, or an object that is destroyed.    *)
AddsToNull(t) ==
  /\ at[t] = "adding" /\ ~manager
  /\ dead' = "null"
  /\ UNCHANGED <<at, conn, serverVars, state, manager, left>>

Signals(t) ==
  /\ at[t] = "signals"
  /\ signals(Manager)
  /\ Go(t, IF t = Dispatcher THEN "idle" ELSE IF Throws(Manager) THEN "ended" ELSE "walk")
  /\ conn' = [conn EXCEPT ![t] = Nobody]
  /\ UNCHANGED <<state, manager, left>>

(* sendMessage without a socket: findStreamSocket looks with the lock, and *)
(* when it finds none for the peer, or the transport is not a stream ...   *)
findSocket ==
  /\ at[Dispatcher] = "idle" /\ csMutex[Manager] = Nobody
  /\ \E c \in Connection :
       /\ state[c] = "none"
       /\ state' = [state EXCEPT ![c] = "open"]
       /\ conn' = [conn EXCEPT ![Dispatcher] = c]
  /\ Go(Dispatcher, "adding")
  /\ UNCHANGED <<serverVars, dead, manager, left>>

----------------------------------------------------------------------------
(* stop(): the manager first, then the others.                             *)
Next1st(s) == s \in left /\ (Manager \in left => s = Manager)

stopRunning ==
  /\ at[Dispatcher] = "idle"
  /\ left' = Server
  /\ Go(Dispatcher, "stopping")
  /\ UNCHANGED <<conn, serverVars, state, dead, manager>>

StopsServer(s) ==
  /\ at[Dispatcher] = "stopping" /\ Next1st(s)
  /\ stop(Dispatcher, s)
  /\ left' = left \ {s}
  /\ conn' = [conn EXCEPT ![Dispatcher] = s]
  /\ Go(Dispatcher, "stopsignals")
  /\ UNCHANGED <<state, manager>>

StopSignals ==
  /\ at[Dispatcher] = "stopsignals"
  /\ signals(conn[Dispatcher])
  /\ IF Throws(conn[Dispatcher]) THEN UNCHANGED left /\ Go(Dispatcher, "thrown")
     ELSE IF left = {} THEN left' = Server /\ Go(Dispatcher, "joining")
     ELSE UNCHANGED left /\ Go(Dispatcher, "stopping")
  /\ conn' = [conn EXCEPT ![Dispatcher] = Nobody]
  /\ UNCHANGED <<state, manager>>

Joins(s) ==
  /\ at[Dispatcher] = "joining" /\ Next1st(s)
  /\ join(Dispatcher, s)
  /\ left' = left \ {s}
  /\ conn' = [conn EXCEPT ![Dispatcher] = s]
  /\ Go(Dispatcher, "waiting")
  /\ UNCHANGED <<state, manager>>

HasJoined ==
  /\ at[Dispatcher] = "waiting"
  /\ joined(conn[Dispatcher])
  /\ Go(Dispatcher, "closing")
  /\ UNCHANGED <<conn, state, manager, left>>

Closes ==
  /\ at[Dispatcher] = "closing"
  /\ closeSockets(conn[Dispatcher])
  /\ Go(Dispatcher, IF conn[Dispatcher] = Manager THEN "nulling" ELSE "freeing")
  /\ UNCHANGED <<conn, manager, left>>

(* manager = NULL.  ~SocketServer locks, for a stop and a join that have   *)
(* nothing to do, and destroys the map and the sockets left in it.         *)
SetsNull ==
  /\ at[Dispatcher] = "nulling" /\ csMutex[Manager] = Nobody
  /\ manager' = FALSE
  /\ state' = [c \in Socket |-> IF c \in sockets[Manager] THEN "closed" ELSE state[c]]
  /\ conn' = [conn EXCEPT ![Dispatcher] = Nobody]
  /\ Go(Dispatcher, IF left = {} THEN "stopped" ELSE "joining")
  /\ UNCHANGED <<serverVars, dead, left>>

(* free()                                                                  *)
Frees ==
  /\ at[Dispatcher] = "freeing"
  /\ removeSocket(Dispatcher, conn[Dispatcher], conn[Dispatcher])
  /\ Go(Dispatcher, "freesignals")
  /\ UNCHANGED <<conn, state, manager, left>>

FreeSignals ==
  /\ at[Dispatcher] = "freesignals"
  /\ signals(conn[Dispatcher])
  /\ conn' = [conn EXCEPT ![Dispatcher] = Nobody]
  /\ Go(Dispatcher, IF left = {} THEN "stopped" ELSE "joining")
  /\ UNCHANGED <<state, manager, left>>

----------------------------------------------------------------------------
Init ==
  /\ at = [t \in Thread |-> IF t = Dispatcher THEN "idle" ELSE "loop"]
  /\ conn = [t \in Thread |-> Nobody]
  /\ sockets = [s \in Server |-> IF s = Manager THEN {} ELSE {s}]
  /\ csMutex = [s \in Server |-> Nobody]
  /\ fdSignal = [s \in Server |-> "empty"]
  /\ doStop = [s \in Server |-> FALSE]
  /\ watched = [s \in Server |-> {}] /\ ready = [s \in Server |-> {}]
  /\ torn = [s \in Server |-> FALSE]
  /\ state = [c \in Socket |-> IF c \in Listener THEN "open" ELSE "none"]
  /\ dead = "no" /\ manager = TRUE /\ left = {}

ServerStep(s) ==
  \/ run(s) /\ UNCHANGED <<manager, left>>
  \/ Returns(s) \/ Accepts(s)
  \/ Adds(s) \/ AddsToNull(s) \/ Signals(s)
  \/ s = Manager /\ (ReadsEnd \/ ReadsInvalid \/ Removes)

Stops ==
  \/ \E s \in Server : StopsServer(s) \/ Joins(s)
  \/ StopSignals \/ HasJoined \/ Closes \/ SetsNull \/ Frees \/ FreeSignals

Sends == findSocket \/ Adds(Dispatcher) \/ Signals(Dispatcher)

Next ==
  /\ dead = "no"
  /\ (\E s \in Server : ServerStep(s)) \/ Sends \/ stopRunning \/ Stops

Spec == Init /\ [][Next]_vars

(* Every thread goes on when it can.  Nothing is asked of a select without *)
(* a byte in the pipe: neither its timeout nor what comes from the net.    *)
ServerGoesOn(s) ==
  /\ dead = "no" /\ ServerStep(s)
  /\ at[s] = "select" => fdSignal[s] # "empty"

DispatcherGoesOn == dead = "no" /\ (Adds(Dispatcher) \/ Signals(Dispatcher) \/ Stops)

Fairness == WF_vars(DispatcherGoesOn) /\ \A s \in Server : WF_vars(ServerGoesOn(s))

FairSpec == Spec /\ Fairness

----------------------------------------------------------------------------
TypeOK ==
  /\ at \in [Thread -> ManagerPlaces \cup ListenerPlaces \cup DispatcherPlaces]
  /\ at[Manager] \in ManagerPlaces /\ at[Dispatcher] \in DispatcherPlaces
  /\ \A l \in Listener : at[l] \in ListenerPlaces
  /\ conn \in [Thread -> Socket \cup Server \cup {Nobody}]
  /\ sockets \in [Server -> SUBSET Socket]
  /\ csMutex \in [Server -> Thread \cup {Nobody}]
  /\ fdSignal \in [Server -> Pipe] /\ doStop \in [Server -> BOOLEAN]
  /\ watched \in [Server -> SUBSET Socket] /\ ready \in [Server -> SUBSET Socket]
  /\ torn \in [Server -> BOOLEAN]
  /\ state \in [Socket -> {"none", "open", "closed"}]
  /\ dead \in {"no", "SIGPIPE", "null"} /\ manager \in BOOLEAN /\ left \subseteq Server

(* A thread is about to signal the server s.                               *)
Signalling(s) ==
  \/ \E t \in Thread : s = Manager /\ at[t] = "signals"
  \/ at[Dispatcher] \in {"stopsignals", "freesignals"} /\ conn[Dispatcher] = s

(* A thread that sleeps with nothing in its pipe sleeps on the sockets of  *)
(* its server and has not been told to stop, unless the byte is coming:    *)
(* the map and the flag are changed before the signal, and the pipe is     *)
(* read before either is looked at (SocketServer.cxx:268-305).             *)
SleepIsUpToDate ==
  \A s \in Server :
    at[s] = "select" /\ fdSignal[s] = "empty" /\ ~Signalling(s) =>
      watched[s] = sockets[s] /\ ~doStop[s]

(* Nobody closes a socket that another thread selects on or is reading     *)
(* from: its descriptor is -1 then, or may be another socket's by now.     *)
(* stop() closes what is left only behind the join, "Don't 'join' just     *)
(* yet" notwithstanding (SipLayerTransport.cxx:394-420).                   *)
NotClosedUnderneath ==
  \A s \in Server :
    /\ at[s] = "select" => \A c \in watched[s] : state[c] = "open"
    /\ at[s] = "handler" => state[conn[s]] = "open"

(* What the last two rest on.  While the thread of a server runs it has    *)
(* its pipe, and once it has looked at the flag, or has built its set,     *)
(* what changes is announced.  A thread has its sockets open, except the   *)
(* one it is about to remove; the servers' sockets are apart; a connection *)
(* that is about to be added is nobody else's; and stop() closes, gives up *)
(* and frees a server whose thread has ended.                              *)
Told(s) == fdSignal[s] = "full" \/ Signalling(s)

SleepOK ==
  \A s \in Server :
    /\ at[s] \notin {"deaf", "closed", "ended"} => fdSignal[s] \in {"empty", "full"}
    /\ at[s] = "building" => ((torn[s] \/ doStop[s]) => Told(s))
    /\ at[s] = "select" => ((watched[s] # sockets[s] \/ doStop[s]) => Told(s))

SocketsOK ==
  /\ sockets[Manager] \subseteq Connection
  /\ \A l \in Listener : sockets[l] \subseteq {l}
  /\ \A s \in Server :
       /\ at[s] \in {"handler", "removing"} => conn[s] \in sockets[s]
       /\ at[s] = "select" => watched[s] \subseteq sockets[s]
       /\ at[s] # "ended" =>
            \A c \in sockets[s] : state[c] = "open" \/ (at[s] = "removing" /\ c = conn[s])

AddingOK ==
  /\ \A c \in sockets[Manager] : state[c] # "none"
  /\ \A t \in Thread :
       at[t] = "adding" =>
         /\ conn[t] \in Connection \ sockets[Manager] /\ state[conn[t]] = "open"
         /\ \A u \in Thread : at[u] = "adding" /\ conn[u] = conn[t] => u = t

StoppingOK ==
  /\ at[Dispatcher] \in {"waiting", "closing", "freeing"} => conn[Dispatcher] \in Server
  /\ at[Dispatcher] \in {"closing", "freeing"} => at[conn[Dispatcher]] = "ended"
  /\ at[Dispatcher] = "nulling" => at[Manager] = "ended"

IInv == TypeOK /\ SleepOK /\ SocketsOK /\ AddingOK /\ StoppingOK

(* The stop of the servers ends, unless the manager's thread is about to   *)
(* remove a connection when its end is waited for with the lock, or a      *)
(* signal fails, or a connection comes when there is no manager any more.  *)
StuckInJoin == at[Dispatcher] = "waiting" /\ at[Manager] = "removing"
StopEnds ==
  at[Dispatcher] = "stopping" ~>
    at[Dispatcher] \in {"stopped", "thrown"} \/ dead # "no" \/ StuckInJoin

(* A connection that was added is selected on, although the thread may be  *)
(* asleep, or at any point of its loop, unless it is removed or all stops. *)
AddedIsWatched ==
  \A c \in Connection :
    c \in sockets[Manager] ~>
      \/ at[Manager] = "select" /\ c \in watched[Manager]
      \/ c \notin sockets[Manager] \/ doStop[Manager] \/ at[Manager] = "ended" \/ dead # "no"

(* "Waits until the thread created by "start" that runs the "run" method   *)
(* has stopped" (SocketServer.h:71-74).  The code waits with csMutex, for  *)
(* which the handler of a closed connection waits in removeSocket.         *)
JoinReturns == at[Dispatcher] = "waiting" ~> at[Dispatcher] # "waiting" \/ dead # "no"
=============================================================================
