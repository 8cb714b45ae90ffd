----------------------------- MODULE SocketServer -----------------------------
(***************************************************************************)
(* The SocketServers of libmnetutil: each has a map of sockets with their  *)
(* handlers, a lock for it, a pipe, and a thread that selects on the       *)
(* sockets and the pipe and calls the handlers.                            *)
(*                                                                         *)
(* The methods lock csMutex; the thread walks the map without.  A method   *)
(* is two steps, one that changes the map or doStop and one that signals,  *)
(* because the thread may run between.  What select returns, and what a    *)
(* handler reads, is left to the environment.                              *)
(***************************************************************************)
EXTENDS Integers

CONSTANTS
  Server,       \* the SocketServer objects, and with it their threads
  Socket,       \* the sockets that may come to be
  Dispatcher,   \* the thread that uses them from outside
  Nobody        \* no thread, and no socket

ASSUME NobodyAssumption == Nobody \notin Server \cup Socket \cup {Dispatcher}
ASSUME DispatcherAssumption == Dispatcher \notin Server

VARIABLES
  at,           \* where a thread is
  conn,         \* the socket a thread is at
  sockets,      \* sockets[s]: the keys of the map
  csMutex,      \* csMutex[s]: the thread that has the lock
  fdSignal,     \* fdSignal[s]: the pipe
  doStop,       \* doStop[s]
  watched,      \* watched[s]: the fd_set that is built and selected on
  ready,        \* ready[s]: those with input that have not been visited
  torn,         \* torn[s]: the map was changed while s may be walking it
  state,        \* state[c]: what has become of a socket
  dead          \* what has ended the process

serverVars == <<sockets, csMutex, fdSignal, doStop, watched, ready, torn>>

Thread == Server \cup {Dispatcher}
Pipe == {"empty", "full",    \* nothing, or something to read
         "deaf",             \* fdSignalInternal is closed
         "closed",           \* fdSignal is closed as well
         "none"}             \* fdSignal is -1

----------------------------------------------------------------------------
Go(t, place) == at' = [at EXCEPT ![t] = place]

(* CriticalSection cs( csMutex ), and its end.                             *)
lock(t, s) ==
  /\ csMutex[s] = Nobody
  /\ csMutex' = [csMutex EXCEPT ![s] = t]
unlock(s) == csMutex' = [csMutex EXCEPT ![s] = Nobody]

(* Fault: nobody is woken for a new socket.                                *)
signal_IfStopped(s) ==
  /\ fdSignal' = [fdSignal EXCEPT ![s] = IF @ = "empty" /\ doStop[s] THEN "full" ELSE @]
  /\ dead' = IF fdSignal[s] = "deaf" THEN "SIGPIPE" ELSE dead

(* A write to a pipe that nobody reads raises SIGPIPE, and nothing handles *)
(* that.                                                                   *)
signal(s) ==
  /\ fdSignal' = [fdSignal EXCEPT ![s] = IF @ = "empty" THEN "full" ELSE @]
  /\ dead' = IF fdSignal[s] = "deaf" THEN "SIGPIPE" ELSE dead

(* One to a descriptor that is closed throws, which ends the thread.       *)
Throws(s) == fdSignal[s] = "closed"

(* The two halves of the methods, the second of which is the same for all. *)
addSocket(t, s, c) ==
  /\ lock(t, s)
  /\ sockets' = [sockets EXCEPT ![s] = @ \cup {c}]
  /\ torn' = [torn EXCEPT ![s] = TRUE]
  /\ UNCHANGED <<fdSignal, doStop, watched, ready, dead>>

removeSocket(t, s, c) ==
  /\ c \in sockets[s]
  /\ lock(t, s)
  /\ sockets' = [sockets EXCEPT ![s] = @ \ {c}]
  /\ torn' = [torn EXCEPT ![s] = TRUE]
  /\ UNCHANGED <<fdSignal, doStop, watched, ready, dead>>

stop(t, s) ==
  /\ lock(t, s)
  /\ doStop' = [doStop EXCEPT ![s] = TRUE]
  /\ UNCHANGED <<sockets, fdSignal, watched, ready, torn, dead>>

signals(s) ==
  /\ signal(s) /\ unlock(s)
  /\ UNCHANGED <<sockets, doStop, watched, ready, torn>>

(* Waits with the lock.                                                    *)
join(t, s) ==
  /\ lock(t, s)
  /\ UNCHANGED <<sockets, fdSignal, doStop, watched, ready, torn, dead>>

(* Fault: the thread is not waited for.                                    *)
joined_AtOnce(s) ==
  /\ unlock(s)
  /\ UNCHANGED <<sockets, fdSignal, doStop, watched, ready, torn, dead>>

joined(s) ==
  /\ at[s] = "ended"
  /\ unlock(s)
  /\ UNCHANGED <<sockets, fdSignal, doStop, watched, ready, torn, dead>>

closeSockets(s) ==
  /\ state' = [c \in Socket |-> IF c \in sockets[s] THEN "closed" ELSE state[c]]
  /\ UNCHANGED <<serverVars, dead>>

----------------------------------------------------------------------------
(* The thread.  A walk that meets a change may miss any of the sockets.    *)
Missed(s, walked) == IF torn[s] THEN SUBSET walked ELSE {walked}

(* Fault: the flag is not looked at.                                       *)
while_Always(s) ==
  /\ at[s] = "loop"
  /\ Go(s, "building")
  /\ torn' = [torn EXCEPT ![s] = FALSE]
  /\ UNCHANGED <<conn, sockets, csMutex, fdSignal, doStop, watched, ready, state, dead>>

while(s) ==
  /\ at[s] = "loop"
  /\ Go(s, IF doStop[s] THEN "ending" ELSE "building")
  /\ torn' = [torn EXCEPT ![s] = FALSE]
  /\ UNCHANGED <<conn, sockets, csMutex, fdSignal, doStop, watched, ready, state, dead>>

(* Fault: what is new is not added to the set.                             *)
buildFdSet_Old(s) ==
  /\ at[s] = "building"
  /\ watched' = [watched EXCEPT ![s] = @ \cap sockets[s]]
  /\ Go(s, "select")
  /\ UNCHANGED <<conn, sockets, csMutex, fdSignal, doStop, ready, torn, state, dead>>

buildFdSet(s) ==
  /\ at[s] = "building"
  /\ \E w \in Missed(s, sockets[s]) : watched' = [watched EXCEPT ![s] = w]
  /\ Go(s, "select")
  /\ UNCHANGED <<conn, sockets, csMutex, fdSignal, doStop, ready, torn, state, dead>>

(* Returns with any of the sockets, or none after five seconds, and reads  *)
(* the pipe empty.                                                         *)
select(s) ==
  /\ at[s] = "select"
  /\ \E r \in SUBSET watched[s] : ready' = [ready EXCEPT ![s] = r]
  /\ fdSignal' = [fdSignal EXCEPT ![s] = IF @ = "full" THEN "empty" ELSE @]
  /\ torn' = [torn EXCEPT ![s] = FALSE]
  /\ Go(s, "walk")
  /\ UNCHANGED <<conn, sockets, csMutex, doStop, watched, state, dead>>

(* handler->inputReady( socket ) is for the users of the server.           *)
inputReady(s) ==
  /\ at[s] = "walk"
  /\ \E c \in ready[s] \cap sockets[s] :
       /\ ready' = [ready EXCEPT ![s] = @ \ {c}]
       /\ conn' = [conn EXCEPT ![s] = c]
  /\ Go(s, "handler")
  /\ UNCHANGED <<sockets, csMutex, fdSignal, doStop, watched, torn, state, dead>>

walked(s) ==
  /\ at[s] = "walk"
  /\ ready[s] \cap sockets[s] = {} \/ torn[s]
  /\ Go(s, "loop")
  /\ UNCHANGED <<conn, serverVars, state, dead>>

(* The end of the pipe is closed, then the other, then the flags are set   *)
(* back, without the lock.                                                 *)
ends(s) ==
  /\ \/ /\ at[s] = "ending" /\ Go(s, "deaf")
        /\ fdSignal' = [fdSignal EXCEPT ![s] = "deaf"] /\ UNCHANGED doStop
     \/ /\ at[s] = "deaf" /\ Go(s, "closed")
        /\ fdSignal' = [fdSignal EXCEPT ![s] = "closed"] /\ UNCHANGED doStop
     \/ /\ at[s] = "closed" /\ Go(s, "ended")
        /\ fdSignal' = [fdSignal EXCEPT ![s] = "none"]
        /\ doStop' = [doStop EXCEPT ![s] = FALSE]
  /\ UNCHANGED <<conn, sockets, csMutex, watched, ready, torn, state, dead>>

run(s) == while(s) \/ buildFdSet(s) \/ select(s) \/ inputReady(s) \/ walked(s) \/ ends(s)
=============================================================================
