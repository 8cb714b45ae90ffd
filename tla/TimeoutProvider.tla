--------------------------- MODULE TimeoutProvider ---------------------------
(***************************************************************************)
(* The TimeoutProvider of libmutil: a list of requests sorted by the time  *)
(* they are due, a thread that sleeps until the first of them is, and the  *)
(* threads that request and cancel timeouts.                               *)
(*                                                                         *)
(* The lock synch_lock is held for the whole of requestTimeout and of      *)
(* cancelRequest, which therefore are one step each; only the due time is  *)
(* computed before the lock is taken.  The thread holds it where pc says   *)
(* so.  stopThread takes no lock at all.                                   *)
(*                                                                         *)
(* Left out: a jump of the system clock.                                   *)
(***************************************************************************)
EXTENDS SequencesExt

CONSTANTS
  Subscribers,    \* receivers of timeouts
  Commands,       \* what they may ask to be told
  Clients,        \* threads that request and cancel
  Delays,         \* delays that are asked for
  Hour,           \* how long the thread sleeps when the list is empty
  MaxTime,        \* bound: the clock stops here, and all is due by then
  MaxRequests     \* bound: how many requests are made

ASSUME DelaysAssumption == Delays \subseteq Nat /\ Hour \in Nat \ {0}
ASSUME BoundsAssumption == MaxTime \in Nat /\ MaxRequests \in Nat

VARIABLES
  now,        \* what mtime() returns
  list,       \* requests, the first due first
  coming,     \* coming[c]: the request c has made up and not yet put in
  made,       \* how many requests were made
  pc,         \* where the thread is
  until,      \* when its sleep ends
  handed,     \* the request it delivers: at most one
  stop,       \* the flag that stopThread sets
  stopper     \* where stopThread is

vars == <<now, list, coming, made, pc, until, handed, stop, stopper>>

----------------------------------------------------------------------------
Timeout == [sub : Subscribers, cmd : Commands]
TPRequest == [what : Timeout, when : 0 .. MaxTime]
Places == {"start",       \* about to lock
           "locked",      \* at the top of the loop, with the lock
           "checked",     \* has seen that stop is not set, with the lock
           "asleep",      \* waiting on the condition variable
           "woken",       \* about to get the lock back
           "delivering",  \* calling the receiver, without the lock
           "ended",       \* returned
           "leaked"}      \* returned, with the lock

LockFree == pc \notin {"locked", "checked", "leaked"}

(* waitCond.broadcast(): whoever sleeps is woken.                          *)
Woken == IF pc = "asleep" THEN "woken" ELSE pc

(* Fault: what does not belong in front is put at the end.                 *)
Place_NoScan(r) ==
  IF list = <<>> \/ r.when < list[1].when THEN 1 ELSE Len(list) + 1

(* requestTimeout: in front, at the end, or before the first request that  *)
(* is not due earlier.                                                     *)
Place(r) ==
  IF list = <<>> \/ r.when < list[1].when THEN 1
  ELSE IF list[Len(list)].when < r.when THEN Len(list) + 1
  ELSE CHOOSE i \in 1 .. Len(list) :
         /\ ~(list[i].when < r.when)
         /\ \A j \in 1 .. (i - 1) : list[j].when < r.when

(* Fault: the receiver is not compared.                                    *)
Scan_AnyReceiver(w) ==
  LET S[n \in 0 .. Len(list)] ==
        IF n = 0 THEN [left |-> list, i |-> 1]
        ELSE LET s == S[n - 1] IN
             IF n - 1 >= Len(s.left) THEN s
             ELSE IF s.left[s.i].what.cmd = w.cmd
             THEN [left |-> RemoveAt(s.left, s.i), i |-> 2]
             ELSE [s EXCEPT !.i = @ + 1]
  IN  S

(* cancelRequest: Scan(w)[n] is what is left of the list after n rounds    *)
(* and the index looked at next.  It starts anew after a removal, but with *)
(* the second request, and counts its rounds against the shorter list.     *)
Scan(w) ==
  LET S[n \in 0 .. Len(list)] ==
        IF n = 0 THEN [left |-> list, i |-> 1]
        ELSE LET s == S[n - 1] IN
             IF n - 1 >= Len(s.left) THEN s
             ELSE IF s.left[s.i].what = w
             THEN [left |-> RemoveAt(s.left, s.i), i |-> 2]
             ELSE [s EXCEPT !.i = @ + 1]
  IN  S
Cancelled(w) == Scan(w)[Len(list)].left

(* requests.remove(req) with the first request: it goes, and with it all   *)
(* that are equal to it but the one right behind it, which is skipped.     *)
(* Kept[n] is what is left of the first n.                                 *)
Kept ==
  LET K[n \in 0 .. Len(list)] ==
        IF n < 2 THEN <<>>
        ELSE IF n = 2 \/ list[n] # list[1] THEN Append(K[n - 1], list[n])
        ELSE K[n - 1]
  IN  K
WithoutFirst == Kept[Len(list)]

----------------------------------------------------------------------------
(* The threads that use it.                                                *)
MakeRequest(c, w, d) ==
  /\ coming[c] = {}
  /\ made < MaxRequests
  /\ now + d <= MaxTime
  /\ coming' = [coming EXCEPT ![c] = {[what |-> w, when |-> now + d]}]
  /\ made' = made + 1
  /\ UNCHANGED <<now, list, pc, until, handed, stop, stopper>>

(* Fault: the thread is not woken.                                         *)
InsertRequest_NoWake(c) ==
  /\ LockFree
  /\ \E r \in coming[c] : list' = InsertAt(list, Place(r), r)
  /\ coming' = [coming EXCEPT ![c] = {}]
  /\ UNCHANGED <<now, made, pc, until, handed, stop, stopper>>

InsertRequest(c) ==
  /\ LockFree
  /\ \E r \in coming[c] : list' = InsertAt(list, Place(r), r)
  /\ coming' = [coming EXCEPT ![c] = {}]
  /\ pc' = Woken
  /\ UNCHANGED <<now, made, until, handed, stop, stopper>>

cancelRequest(w) ==
  /\ LockFree
  /\ list' = Cancelled(w)
  /\ UNCHANGED <<now, coming, made, pc, until, handed, stop, stopper>>

(* stopThread, in three steps and without the lock.                        *)
StopSet ==
  /\ stopper = "idle" /\ stopper' = "set"
  /\ stop' = TRUE
  /\ UNCHANGED <<now, list, coming, made, pc, until, handed>>
StopWake ==
  /\ stopper = "set" /\ stopper' = "joining"
  /\ pc' = Woken
  /\ UNCHANGED <<now, list, coming, made, until, handed, stop>>
StopJoin ==
  /\ stopper = "joining" /\ stopper' = "done"
  /\ pc \in {"ended", "leaked"}
  /\ list' = <<>>
  /\ UNCHANGED <<now, coming, made, pc, until, handed, stop>>

----------------------------------------------------------------------------
(* The thread.                                                             *)
Lock ==
  /\ pc = "start" /\ pc' = "locked"
  /\ UNCHANGED <<now, list, coming, made, until, handed, stop, stopper>>

Due == list # <<>> /\ list[1].when <= now
TakeDue ==
  /\ pc = "locked" /\ Due
  /\ IF stop
     THEN pc' = "leaked" /\ UNCHANGED <<list, handed>>
     ELSE /\ handed' = {list[1]}
          /\ list' = WithoutFirst
          /\ pc' = "delivering"
  /\ UNCHANGED <<now, coming, made, until, stop, stopper>>

(* Fault: the thread returns after its first timeout.                      *)
Deliver_Returns ==
  /\ pc = "delivering" /\ pc' = "ended"
  /\ handed' = {}
  /\ UNCHANGED <<now, list, coming, made, until, stop, stopper>>

(* subs->timeout(command), and back to the top of the loop.                *)
Deliver ==
  /\ pc = "delivering" /\ pc' = "start"
  /\ handed' = {}
  /\ UNCHANGED <<now, list, coming, made, until, stop, stopper>>

CheckStop ==
  /\ pc = "locked" /\ ~Due
  /\ IF stop THEN pc' = "ended" /\ UNCHANGED until
     ELSE /\ pc' = "checked"
          /\ until' = IF list = <<>> THEN now + Hour ELSE list[1].when
  /\ UNCHANGED <<now, list, coming, made, handed, stop, stopper>>

(* pthread_cond_timedwait gives the lock away and gets it back.  It may    *)
(* return for no reason.                                                   *)
Wait ==
  /\ pc = "checked" /\ pc' = "asleep"
  /\ UNCHANGED <<now, list, coming, made, until, handed, stop, stopper>>
WakeUp ==
  /\ pc = "asleep" /\ pc' = "woken"
  /\ UNCHANGED <<now, list, coming, made, until, handed, stop, stopper>>
TimeIsUp == until <= now /\ WakeUp
Relock ==
  /\ pc = "woken"
  /\ pc' = IF stop THEN "ended" ELSE "locked"
  /\ UNCHANGED <<now, list, coming, made, until, handed, stop, stopper>>

(* The time it takes the thread to get from reading the clock to the wait  *)
(* is neglected.                                                           *)
Tick ==
  /\ pc \notin {"locked", "checked"}
  /\ now < MaxTime
  /\ now' = now + 1
  /\ UNCHANGED <<list, coming, made, pc, until, handed, stop, stopper>>

----------------------------------------------------------------------------
Init ==
  /\ now = 0 /\ list = <<>> /\ coming = [c \in Clients |-> {}] /\ made = 0
  /\ pc = "start" /\ until = 0 /\ handed = {}
  /\ stop = FALSE /\ stopper = "idle"

Client ==
  \/ \E c \in Clients, w \in Timeout, d \in Delays : MakeRequest(c, w, d)
  \/ \E c \in Clients : InsertRequest(c)
  \/ \E w \in Timeout : cancelRequest(w)
Stopper == StopSet \/ StopWake \/ StopJoin
Running == Lock \/ TakeDue \/ Deliver \/ CheckStop \/ Wait \/ Relock
Next == Client \/ Stopper \/ Running \/ WakeUp \/ Tick

Spec == Init /\ [][Next]_vars

(* The thread runs whenever it can, and time goes by, however often the    *)
(* thread is woken for no reason in between.                               *)
FairSpec == Spec /\ WF_vars(Running) /\ WF_vars(TimeIsUp) /\ SF_vars(Tick)

----------------------------------------------------------------------------
TypeOK ==
  /\ now \in 0 .. MaxTime
  /\ list \in Seq(TPRequest)
  /\ coming \in [Clients -> SUBSET TPRequest]
  /\ made \in 0 .. MaxRequests
  /\ pc \in Places
  /\ until \in Nat
  /\ handed \subseteq TPRequest
  /\ stop \in BOOLEAN
  /\ stopper \in {"idle", "set", "joining", "done"}

(* What the properties rest on: the list is sorted; the time the thread    *)
(* has chosen to sleep until is that of no later request, as whoever puts  *)
(* one in front finds it asleep and wakes it; and only a thread that       *)
(* delivers has something in hand.                                         *)
Sorted(l) == \A i, j \in 1 .. Len(l) : i <= j => l[i].when <= l[j].when
SleepOK ==
  pc \in {"checked", "asleep"} => \A i \in 1 .. Len(list) : until <= list[i].when
HandedOK == pc = "delivering" <=> handed # {}
IInv == TypeOK /\ Sorted(list) /\ SleepOK /\ HandedOK

(* The thread never sleeps beyond the time its first request is due,       *)
(* whatever was put in front of the list since it went to sleep.           *)
NeverOversleeps == pc = "asleep" /\ list # <<>> => until <= list[1].when

(* A timeout is not delivered before it is due, nor before another that    *)
(* was due earlier when it was taken off the list.                         *)
EarliestFirst ==
  [][\A r \in handed' \ handed :
       /\ r.when <= now
       /\ \A i \in 1 .. Len(list) : r.when <= list[i].when]_vars

(* Every request is worked off some day: it is delivered or cancelled,     *)
(* unless the provider is stopped before.                                  *)
NobodyWaitsForEver ==
  \A r \in TPRequest : Contains(list, r) ~> ~Contains(list, r) \/ stop

(* The provider keeps the promise of the TimeoutService.                   *)
Requests(l, w) == Cardinality({i \in 1 .. Len(l) : l[i].what = w})
Pending(w) == Requests(list, w)
Service == INSTANCE TimeoutService WITH
             Timeouts <- Timeout,
             pending <- [w \in Timeout |-> Pending(w)],
             handed <- {r.what : r \in handed}
ImplementsService == Service!Spec
=============================================================================
