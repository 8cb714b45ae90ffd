# minisip, verified in TLA+

minisip is a SIP user agent: libraries for SIP (libmsip), media and calls
(libminisip), key exchange (libmikey, libzrtpcpp), networking (libmnetutil,
libmstun) and utilities (libmutil), and a few user interfaces on top. This
directory models its control in six parts that meet at named interfaces,
checks them with TLC and proves their central properties with TLAPS:

1. the SIP transaction layer with its dispatcher and the network;
2. the timer service below it;
3. the dialogs of a call, between a caller and a callee;
4. the registrations, the management dialog and the shutdown of the stack;
5. the protection of media: SRTP's replay window and roll-over counter, and
   ZRTP's key exchange between two ends;
6. the socket servers of the transport layer and their stop.

How to run it, in this directory:

    tlc -workers 2 -config MCPeers.cfg MCPeers        # see "Runs"
    tlapm SipLayerTransactionProofs.tla                 # see "Proofs"

`PROJECT.json` lists the runs, for every definition the lines it translates,
for every property a fault that breaks it, the findings and the hazards.


## 1. The system

### Inventory

Paths are relative to the repository; `S` is `src/libmsip/source`, `U` is
`src/libmutil`, `M` is `src/libminisip/source`.

| Component | State | Operations | Talks to |
|---|---|---|---|
| Command dispatcher, `S/SipCommandDispatcher.cxx` | two queues of commands and timeouts (high and low priority), `keepRunning` | `enqueueCommand`, `enqueueTimeout` from any thread; one thread in `run()` takes a command, the high queue first, and hands it to the layer it is for | everything below: it is the only thread that runs transactions and dialogs |
| Transaction layer, `S/SipLayerTransaction.cxx` | a map from id (branch and CSeq method) to transaction; `handleAck` | look a command's transaction up, fall back to trying all of them, create one for a request nobody takes, remove one | dispatcher, transactions |
| Transactions, `S/transactions/*.cxx` | state, `lastResponse`, requested timeouts, socket | one handler per transition (a0, a1, ... of the diagrams of RFC 3261) | dialogs by commands in the high queue, transport layer by call, TimeoutProvider by call |
| State machine framework, `U/include/libmutil/StateMachine.h` | current state, transitions | offer a command to each transition of the current state in order, change state, request and cancel timeouts | base of transactions and dialogs |
| TimeoutProvider, `U/include/libmutil/TimeoutProvider.h` | list of requests sorted by time, `stop`, lock and condition variable | `requestTimeout`, `cancelRequest` from any thread; a thread of its own delivers what is due; `stopThread` | the dispatcher's `enqueueTimeout` |
| Transport layer, `S/SipLayerTransport.cxx`, `S/SipSocketServer.cxx` | servers that listen, a manager of the connections, contact ports | send a message, or enqueue a `transport_error` (low queue); read packets and enqueue them (low queue); accept and make connections; stop all servers | dispatcher, socket servers, network |
| Socket servers, `src/libmnetutil/source/SocketServer.cxx` | a map of sockets with handlers, a lock, a pipe, a flag to stop | add and remove sockets and stop, from any thread; one thread selects on sockets and pipe and calls the handlers | transport layer |
| Dialog layer and base dialog, `S/SipLayerDialog.cxx`, `S/dialogs/SipDialog.cxx` | list of dialogs with a lock; per dialog the tags, CSeq, route set, call id, state | offer a command to the dialogs of its call id, or to all, or to the default handler; signal `no_transactions`; terminate | dispatcher, user interface |
| Register dialogs, `S/dialogs/SipDialogRegister.cxx` | per dialog a state and the identity, shared with others; whether and until when that is registered | register, renew, answer challenges, ask for a password, withdraw | dispatcher, the identity's configuration, user interface |
| Management dialog, `S/dialogs/SipDialogManagement.cxx` | the phase of a shutdown or of an operation on all dialogs; counts of what is still to end | terminate all calls, register or withdraw all, stop the dispatcher | dispatcher, all dialogs by broadcast |
| Call dialogs, `M/subsystem_signaling/sip/SipDialogVoip*.cxx` | the state of a call, tags, the last provisional response, the media session | INVITE, reliable provisional responses and PRACK, accept, reject, CANCEL, BYE, transfer, authentication | dialog layer, media, user interface |
| Conference, presence, file transfer, push to talk, `M/conference`, `M/subsystem_signaling` | rosters, subscriptions, floor | as the names say | dialogs, RTCP |
| SRTP, `M/subsystem_media/rtp/CryptoContext.cxx` | roll-over counter, last sequence number, replay window | protect, check for replay, estimate the index | media streams |
| ZRTP, `src/libzrtpcpp`, `M/subsystem_media/zrtp` | the state of the exchange, the packet to resend, the timer, the secret; the crypto contexts of the streams; the retained secrets on disk | a handler per state for packets and timeouts; prepare, derive, switch protection on and off | media streams, TimeoutProvider |
| MIKEY, `src/libmikey` | the phases of a key agreement | create and parse messages | call dialogs |
| Media, networking, crypto, XML, user interfaces | devices, sockets, tables | input and output | |

A request of this stack goes: dialog → (high queue) → transaction layer, which
creates a client transaction → transport layer → network. An answer comes:
socket thread → (low queue) → client transaction → (high queue) → dialog. A
timeout comes: TimeoutProvider's thread → (high queue) → transaction. The end of
a transaction goes: transaction → `transaction_terminated` (high queue) →
dispatcher, which removes it from the table, frees it and lets the dialog know
when it was its last.

### What is hard

* **Two queues, many writers.** The socket threads and the timer thread enqueue
  at any moment; commands overtake one another by priority. What was queued
  before a transaction changed state, or ended, is dispatched after.
* **Timers race with the dispatcher.** The TimeoutProvider takes a request off
  its list, releases its lock, and only then delivers it. A handler that
  cancels the timeout in between comes too late; the timeout arrives in
  another state.
* **The network** loses, repeats, delays and reorders packets.
* **A send fails** after the handler has set timers and changed state, and the
  failure comes back later as a command.
* **Ids are reused.** Two transactions may end up under one id; then an end can
  be announced for a transaction that has been replaced.
* **Sleeping and waking.** The timer thread reads the list, computes how long to
  sleep, and sleeps; requests, cancellations, spurious wake-ups and the stop of
  the provider fall between.
* **Lists edited while scanned** (`cancelRequest`, `minilist::remove`).
* **Two ends disagree.** A CANCEL crosses a 2xx, both hang up at once, a
  provisional response overtakes another, a request of the dialog fails where
  another was meant, an answer comes when the state for it has been left.
* **Shutdown** while calls and registrations go on, with peers that never
  answer and commands of the user in between.
* **Several dialogs for one identity**, with one flag and one expiry.
* **Sixteen bits for a sequence** that wraps: the receiver guesses the rest, and
  the replay window is shifted by what a packet says.
* **Two initiators.** Both ends of a ZRTP exchange send a Commit; packets are
  repeated, doubled and lost, and a timeout that was cancelled may still come,
  in a state that has no timer.
* **Threads that sleep in select** on a set built from a map that others change,
  are woken through a pipe, and are waited for by whom they may wait for.
* **Secrets kept by one end only**, when a call is lost between two saves.

`PROJECT.json` has each hazard with its line and its properties.

### What makes each component correct

* *Dispatcher and transaction layer*: no command reaches a transaction that is
  over; the end of a transaction is announced once, found, and the right
  transaction is removed; an error or response reaches the transaction it
  belongs to.
* *Transactions*: a dialog hears of the conclusion of its request once, and
  nothing after; a transaction that waits always has the timer that will end
  the wait; every wait ends.
* *TimeoutProvider*: no sleep beyond the next due time; deliveries in order of
  time and never early; each request is delivered or cancelled; other
  receivers' requests are left alone; stopping wakes the thread.
* *Call dialogs*: a call that is over is not shown, nor its media running; a
  call with one end left arises in known ways only; an INVITE gets one final
  answer; a dialog that is over hears that its transactions are.
* *Registrations*: what is shown as registered has a dialog that will renew it,
  unless the registrar has refused it.
* *Shutdown*: once begun it goes on, and ends, with or without answers.
* *Socket servers*: a change of the map, or a stop, wakes the sleeper; no socket
  is closed underneath a reader; the stop ends.
* *SRTP*: packets in order are taken, across any number of wraps, as long as no
  late packet misleads the receiver; one that was taken is not taken again; the
  context holds the latest.
* *ZRTP*: the ZRTP packets one end protects the other can read; both know the same secret
  afterwards; who waits for an answer repeats what it asked.


## 2. The modules

| Module | What it models |
|---|---|
| `SipTransaction` | the base: the variables, the queues, sending, timeouts, which transaction a command is offered to, creating one |
| `SipTransactionInviteClient` | `SipTransactionInviteClient.cxx`: one action per handler, named as there with the prefix `IC_` |
| `SipTransactionNonInviteClient` | `SipTransactionNonInviteClient.cxx`, `NC_` |
| `SipTransactionInviteServer` | `SipTransactionInviteServer.cxx` (`IS_`) and the UA variant, which removes a5 and adds a1001 (`ISUA_`) |
| `SipTransactionNonInviteServer` | `SipTransactionNonInviteServer.cxx`, `NS_` |
| `SipLayerTransaction` | composes the five with the dispatcher, the timer thread, the dialogs and the network; states the properties and the inductive invariant |
| `SipLayerTransactionProofs` | theorems about it: its inductive invariant and what follows from it alone |
| `SipTransactionProofs` | what a transaction owes its dialog: it is not left waiting, and nothing follows the conclusion of a request |
| `TimeoutProvider` | the provider in detail: list, lock, thread, stop |
| `TimeoutService` | what it promises; `TimeoutProvider` implements it |
| `TimeoutProviderProofs` | theorems about it |
| `SipDialogVoip` | `SipDialogVoip.cxx`: what the two dialogs of a call share, a1001 to a1303, and the contract of the transactions below |
| `SipDialogVoipClient`, `SipDialogVoipServer` | the caller's (a2001 to a2017) and the callee's dialog (a3001 to a3010) |
| `SipCall` | composes them with the dialog layer, the network and the ends of the transactions |
| `SipCallProofs` | theorems about it |
| `CallOutline` | the way of a call as the rest of the stack relies on it; `SipCall` implements it, `SipLayerDialog` builds on it |
| `SipLayerDialog` | the dialogs of the stack as the dispatcher sees them: its queue, the list of dialogs, their removal |
| `SipDialogRegister` | the register dialogs, several for an identity |
| `SipDialogManagement` | the management dialog: the shutdown and the operations |
| `SipStackShutdown` | composes the three with the user, peers and timers |
| `SipStackShutdownProofs` | theorems about it |
| `CryptoContext` | the index estimate, the replay check and the update, at any width |
| `SrtpStream` | a sender, a network and a receiver around it |
| `SrtpStreamProofs` | theorems about it |
| `ZRtp` | the data of a ZRTP engine and what it asks of its host: packets, secrets, keys, timers |
| `ZrtpStateClass` | `ZrtpStateClass.cxx`: an action for each state and packet (`ev`) and for each timeout (`tm`) |
| `ZrtpSession` | two engines with their hosts over a network, call after call |
| `ZrtpSessionProofs` | theorems about it |
| `SocketServer` | `SocketServer.cxx`: the methods in two halves, and the steps of the thread |
| `SipLayerTransport` | servers that listen, the manager, their handlers, and the dispatcher's thread, which connects and stops them |
| `SipLayerTransportProofs` | theorems about it |
| `MCServer`, `MCPeers`, `MCTimeoutProvider`, `MCCall`, `MCShutdown`, `MCSrtp`, `MCZrtp`, `MCTransport` | instances for TLC |

The parts meet at contracts. `SipTransaction` uses the TimeoutProvider as
`TimeoutService` promises it, except that time is left out. The dialogs of a
call use transactions as `SipLayerTransaction` shows them to be: a client
transaction concludes once, and nothing of it comes afterwards
(`ConclusionIsLast`). `SipStackShutdown` knows of a call what `CallOutline` says,
*early*, *up*, *ending*, *over*, *terminated*, and lets it take any step of that;
`SipCall` has the handlers, and implements the same outline
(`ImplementsOutline`): whatever state such a dialog gets into, and from
whatever other, the shutdown has been checked and proved with a call that does
so. `ZrtpSession` takes from SRTP that a packet
protected with a key is readable with that key only, and once.

### State and code: the transactions

| Variable | In the code |
|---|---|
| `class[t]`, `tid[t]`, `state[t]`, `last[t]` | the C++ class of a transaction object, its `getTransactionId()`, its current state, the class of `lastResponse` |
| `table` | `SipLayerTransaction::transactions` |
| `requests` | what the TimeoutProvider has pending for transactions |
| `expired` | the request it took off its list and has not delivered |
| `hiq`, `loq` | `high_prio_command_q`, `low_prio_command_q` |
| `out` | what the step handed to the network |
| `asked`, `told` | the dialogs' view: requests they were given and have not answered; requests of theirs whose conclusion they have heard |

One dispatched command is one step: `Dispatch` takes the command, offers it as
`SipLayerTransaction::handleCommand` does, and runs the whole handler with its
timeouts, sends and enqueued commands. That is how the code interleaves: the
dispatcher's thread is the only one that runs handlers, and it holds no lock
that another thread's step depends on meanwhile. The other threads' steps are
`TimerThread` (in two steps: off the list, and delivered), `TUStep` and
`Network`.

A machine's transitions are a table of rows, one for each
`new StateTransition` of `setUpStateMachine` (two where a handler takes either
of two commands), and `Fires` is the framework's search through it; the action
says what the handler does besides. No handler returns true in a state where
another transition takes the same command, so the order of the rows is not
kept.

### State and code: the dialogs

| Variable | In the code |
|---|---|
| `dstate`, `isTerminated`, `remoteTag`, `lastInvite` | a call dialog's current state, `dialogState`, the INVITE it keeps |
| `media`, `gui` | the media session runs; the last the user was told |
| `cl`, `sv`, `resp`, `timedOut` | the transaction of each request at either end, the responses given to it, that nobody answered |
| `rseqSeen`, `rseqNo`, `lastProvisional`, `resendTimer`, `resends` | reliable provisional responses at the two ends |
| `high`, `armed`, `running` | the high priority queue with what concerns dialogs, timeouts that are requested, `keepRunning` |
| `call[c]` | the state of a call's dialog, reduced by `PhaseOf` to what the rest of the stack can tell apart; *gone* when it is removed |
| `rstate`, `ident`, `waiting`, `registered`, `expires` | a register dialog, its identity, that a request of it is unanswered; the identity's flag and expiry |
| `refused` | history: of the identity's last requests one got an answer that the register dialog ignores, and no REGISTER was sent or accepted since |
| `mstate`, `pendingHangUps`, `pendingDeRegs` | the management dialog |

A handler is one action, named as in the code; what it sends, answers, cancels
and tells the user is part of it. `SipDialogVoip`'s handlers take the dialog
as parameter, because both ends run them.

### State and code: SRTP and ZRTP

| Variable | In the code |
|---|---|
| `sender`, `receiver` of `SrtpStream` | the next packet with the sender's roll-over counter; the receiver's `CryptoContext`: `roc`, `s_l`, the bits of `replay_window` |
| `sent`, `highest`, `inOrder`, `late` | history: what was sent, the latest that was taken, what was the latest when it was taken, what was taken behind a packet of a later cycle |
| `state`, `sentPacket` | the engine's state and the packet it resends |
| `pending`, `due`, `counter` | the bridge's timeouts at the TimeoutProvider, one it has taken off the list, resends since `startTimer` |
| `s0`, `sender`, `receiver` of `ZRtp` | the secret, and the keys of the crypto contexts that the sending and the receiving stream use for ZRTP packets |
| `zid` | the peer's record in the ZID file: two retained secrets |
| `lower` | which end has the smaller hvi |

A packet or a timeout is one step of an engine, although the RTP receiver's
thread and the timer's run the same engine without a lock: what two handlers do
at the same instant is beyond the model.

### State and code: the socket servers

| Variable | In the code |
|---|---|
| `at[t]`, `conn[t]` | where a thread is (a server's in `run()` or a handler, the dispatcher's in `sendMessage` or `stop()`), and the socket or server it is at |
| `sockets[s]`, `csMutex[s]`, `doStop[s]` | the keys of the map, the holder of the lock, the flag |
| `fdSignal[s]` | the pipe: empty, with bytes, without its reading end, closed, -1 |
| `watched[s]`, `ready[s]` | the `fd_set`; the part of it that select returned and the walk has not come to |
| `torn[s]` | the map has been changed since the thread may be walking it |
| `state[c]` | what has become of a socket |
| `manager`, `left`, `dead` | whether the manager is NULL, what the loops of `stop()` have still to do, what ended the process |

The methods of a server lock `csMutex`; its thread reads map and flag without.
So a method is two steps, the change and the signal, with the lock held in
between, and the thread's loop is a step for each of its reads: the flag, the
build of the set, select with the read of the pipe, each handler. A walk of a
map that is changed meanwhile is undefined, and may miss any of the sockets. The
end of `run()` is three steps: one end of the pipe closed, the other, the flags
set back.

### Abstractions

* A message is its kind and its id. The id's branch determines the pair of
  Call-ID and CSeq number (`CallOf`), by which `SipTransaction::handleCommand`
  accepts a packet. `OTHER` is any request but INVITE and ACK. Responses are
  1xx, 2xx, or 300 to 699.
* Time is left out of the transaction modules: a pending timeout may expire at
  any moment. That over-approximates every choice of timer values.
* `cancelTimeout` removes a timeout that is pending once. Of one pending several
  times it removes some of the requests, as `cancelRequest` does; which ones is
  left open. `TimeoutProvider` has the code's scan exactly.
* A send goes out, is dropped (no destination is found), or fails and enqueues
  a `transport_error`. `Unreliable` says whether the transport is UDP; it is
  the same for all transactions of an instance.
* The dialogs are a transaction user that answers the requests it was given, in
  any way and order, and makes requests with new ids. A CANCEL is an `OTHER`
  with the branch of the INVITE.
* A peer may send any of `PeerPackets` at any time, and responses to requests
  that were made. `PeerAssumption` says that nobody sends a *request* with a
  branch this stack made up.
* Objects are not collected: a freed transaction stays in state `freed`.
* `TimeoutProvider`: `requestTimeout` and `cancelRequest` hold the lock
  throughout and are one step each, with the due time computed before. A jump
  of the system clock is left out, and so is the time the thread takes between
  reading the clock and going to sleep.

* Calls: tags, routes, credentials and SDP are what a handler asks of them (is
  there a remote tag, is this PRACK the one waited for). A dialog transfers
  once, and sends one BYE. A call makes use of one scenario of `Scenarios`:
  reliable provisional responses, a transfer, a challenge, or a caller that says
  BYE in the early dialog. A request that no dialog takes goes to the default
  handler.
* Registrations: `Expires` is zero or not. Answers are 2xx, a challenge, 36x
  (anything else that is final), or a transport error. A renewal may come at
  any time after it was requested.
* Calls, as the dialog layer has them: any step of `CallOutline` at any time. A
  hang-up may be ignored in a call that is up, because a transfer may be being
  asked for (a1002 is registered in *incall*, *transferpending* and
  *transferstarted* only), and in an early one, which may not have handled its
  INVITE.
* Management: hang-ups are sent one for each call that is listed, and counted as
  the code does. The counts may be negative, as they may in the code.
* SRTP: a packet is its index, and its tag fits when the receiver has guessed
  the sender's roll-over counter. The width of a cycle, of the window and of an
  `int` are constants. An undefined shift gives any of the values a build can
  produce. `Faults` lets the network do what breaks the guess by design: a jump
  of half a cycle, or a first packet from a later cycle. In the code half a
  cycle is 32768 packets. Packets may always come late, also from before a wrap.
* ZRTP: a secret is the session it is from, which end is the initiator and which
  retained secrets went into it. The public values, hashes and signatures are
  those of that session, and the hvi of a Commit fits no other DHPart2. A packet
  is its kind, its sender and the key it is protected with. The bridge's send
  answers 1 always, so a send fails only when there was nothing to prepare
  (`MayRefuse`). The network doubles packets in the clear only; the replay list
  takes a protected one once. A `HelloACK` comes from another implementation
  (`Acknowledging`), because two of these engines never send the first one. The
  code has a crypto context for each SSRC: ZRTP packets have their own, and the
  model has those packets only. Media, its contexts, and the roll-over counters
  are left out (see "Known divergences"). The
  short authentication string and GoClear, which nobody sends, are left out. The
  next call begins when both engines are deleted, and what still travels to a
  deleted engine is dropped.
* Transport: a socket is a name. What comes from the net is any subset of what
  is selected on; a read gives a packet or an error (nothing changes), the end,
  or what is not SIP. `sendMessage` counts where it makes a connection; a
  server for datagrams only stops, as one whose accept fails does. `serversLock`
  is taken by the dispatcher's thread alone, and left out. `addSocket` with a
  manager that is NULL or being destroyed ends the process.

Left out because nothing in the repository reaches it: `createClientTransaction`
(no caller), `cancel_transaction` and its transition a1000 (no sender), a10 of
the INVITE client (its source never matches), a11 of the INVITE server (not
registered), a20 (its timer is never requested), `rel1xxProcessing` (its calls
are commented out), a9, a13 and a14 of the register dialog, b12, c12, d12 and
a30 of the management dialog (see "Known divergences").


## 3. Runs

Every passing run is exhaustive for its instance. Times are for two workers.

| Run | States | Shows |
|---|---|---|
| `peers` (`MCPeers.cfg`) | 66,448, 100 s | `TypeOK`, `IInv`, `NeverStranded`, `ConclusionIsLast`, `TerminationFindsTransaction`, and `WaitingEnds` under fairness, for an INVITE and a CANCEL of this stack on one branch and a peer's request of any method; UDP, the plain INVITE server |
| `server` (`MCServer.cfg`) | 69,393, 35 s | `TerminatedIsRemovedFirst`, `NeverStranded` for a peer's INVITE, its ACK and the ACK of a 2xx, all repeated at will; stream socket, the UA variant |
| `timeout_provider` (`MCTimeoutProvider.cfg`) | 149,275, 55 s | `IInv`, `NeverOversleeps`, `EarliestFirst`, `ImplementsService`, and `NobodyWaitsForEver` under fairness: two threads request and cancel, a third stops the provider |
| `call` (`MCCall.cfg`) | 357,211, 95 s | `LastWord`, `MediaStops`, `NoOrphanedCall`, `OneFinalAnswer`, `EndIsSignalled`, `ImplementsOutline` for a call in each of the four scenarios |
| `shutdown` (`MCShutdown.cfg`) | 772,406, 140 s | `ShutdownGoesOn`, `CallsKeepOutline`, and `ShutdownEnds` under fairness, with a call and a registration |
| `registration` (`MCRegistration.cfg`) | 356,426, 30 s | `RegistrationKeptAlive` for three dialogs of one identity |
| `srtp` (`MCSrtp.cfg`) | 416,808, 125 s | `HighestSequenceNumber`, `InOrderIsTaken`, `TakenOnce` for a stream that wraps |
| `zrtp` (`MCZrtp.cfg`) | 1,416,432, 90 s | `ZrtpIsReadable`, `SecureIsMutual`, `WaitIsTimed` for two calls |
| `transport` (`MCTransport.cfg`) | 79,583, 25 s | `IInv`, `SleepIsUpToDate`, `NotClosedUnderneath`, and `StopEnds` and `AddedIsWatched` under fairness: one server that listens, the manager, two connections |
| `abort`, `shutdown_lost`, `transport_join` | counterexamples | see "Findings" |

The properties:

* `ConclusionIsLast`: a dialog hears the final response or the transport error
  of a request once, and nothing of it afterwards. It takes a repeated 1xx, a
  repeated final response, a timer B or F that was taken off the list before
  it was cancelled, or a failed ACK to break it.
* `TerminationFindsTransaction`: for this stack's own requests the dispatcher
  finds the transaction whose end it is told, and finds it in `terminated`. For
  a peer's requests the same is false; see finding 1.
* `TerminatedIsRemovedFirst`: no packet and no transport error is looked up
  while a terminated transaction is in the table. It rests on both priorities.
* `NeverStranded`: a transaction in a state it leaves by a timeout has that
  timeout pending, off the list and about to be delivered, or queued. The
  non-INVITE client's *proceeding* is not among these states; see "Known
  divergences".
* `WaitingEnds`: such a state is left.
* `NeverOversleeps`, `EarliestFirst`, `NobodyWaitsForEver`: as named.
* `ImplementsService`: the provider refines `TimeoutService`: a request adds
  one wish for a timeout, a delivery or cancellation takes one or more of them
  away and touches no other timeout's, at most one is being delivered, and
  closing drops all. "One or more", because `minilist::remove` takes equal
  requests along and `cancelRequest` leaves some.
* `LastWord`: whoever ends a call, and however, the last its user knows is that
  it has ended. `MediaStops`: nor does its media run; the exception that is
  stated is a PRACK nobody answers.
* `NoOrphanedCall`: one side is in the call while the other is over only if a
  BYE is out, or the answer was crossed by a CANCEL, a timeout or the end of the
  resend timer. It is the list of the ways to a call with one end.
* `OneFinalAnswer`: a callee answers an INVITE once; the exception is the resend
  timer, which fires in any state.
* `EndIsSignalled`: a dialog in *termwait* without transactions has been sent
  `no_transactions`, although a handler may ask before it changes state, and
  the last transaction may end before that. Otherwise it stays for ever, as one
  dialog does, which is the exception that is stated: the callee's, when its
  user refuses the call after the resend timer has answered for it (see "Known
  divergences"), unless a CANCEL came as well, whose transaction is still to end.
* `ImplementsOutline`: each dialog of a call goes one way, from early over up and
  ending to terminated, and none of these twice, although the PRACK and the
  resend timer are wired in *anyState* and answers, CANCEL and BYE cross.
  `CallsKeepOutline`: so it is for every call of the stack, with hang-ups of the
  user and of the shutdown and the removal waiting in the queue while the peers
  go on: a hang-up that comes too late revives no call, and `removeDialog` finds
  its call terminated, and does so once.
* `ShutdownGoesOn`: in each phase of a shutdown the command or timeout that ends
  the phase is on its way. `ShutdownEnds`: so the dispatcher stops.
* `RegistrationKeptAlive`: an identity that is shown as registered has a dialog
  that has its renewal pending, or is at one: its REGISTER is unanswered, or the
  answer is queued and has a transition in *trying*, or the user is asked for a
  password. So it is although dialogs share the identity and a renewal may be
  taken off the list before it is cancelled. The exception that is stated is an
  answer that *trying* ignores, `refused` (see "Known divergences").
* `HighestSequenceNumber`: the receiver's context holds the latest packet it took,
  unless a packet of the cycle before was taken late, which leaves its sequence
  number there. `InOrderIsTaken`: a packet newer than the latest is taken,
  unless such a late packet misleads the receiver, which it does for up to half
  a cycle (see "Known divergences"). `TakenOnce`: one that was taken in order is
  not taken again, in the first cycle and short of the window's end, where the
  code forgets.
* `ZrtpIsReadable`: as soon as an end protects, the other's context for its ZRTP
  packets has that key. The two derive it in different steps, from different
  packets, each from its own record of retained secrets; it takes crossed
  Commits, a doubled packet, or a secret saved by one end only to break it. Media
  is protected with the same key, and not read before the other is in
  *SecureState* (see "Known divergences").
* `SecureIsMutual`: an end in *SecureState* knows that the other has saved the
  same retained secret: any packet that starts with a C is taken for the
  acknowledgement, so nothing but the acknowledgement may get there.
* `WaitIsTimed`: an initiator that waits has a timeout pending or being
  delivered, although `cancelTimer` and a new request may race with the timer's
  thread. With the bound on resends it is why an initiator's wait ends.
* `SleepIsUpToDate`: a thread that sleeps with an empty pipe sleeps on the
  sockets its server has, and has not been told to stop, unless a signal is
  about to be sent. The map is read without the lock, so it rests on the order:
  the change before the signal, the read of the pipe before those of flag and
  map.
* `NotClosedUnderneath`: what a thread selects on or reads from is open, although
  the stop closes sockets and handlers close their own.
* `StopEnds`: the stop of the servers ends, or it is stuck in the deadlock of
  finding 3, or a signal has failed, or a connection has come too late (see
  "Known divergences"). `AddedIsWatched`: a connection that was added is
  selected on, wherever the manager's thread is then, without anything coming
  from the net and without the five seconds of select.

### Bounds

* `Trans`: two or three objects. `Room` lets a request into a queue only while
  an object is left for it, so that creation never fails for want of one. Three
  are enough for two transactions under one id and a third that follows.
* `MaxCopies`: equal timeouts pending at once. Two where timer E doubles
  (`peers`), one elsewhere, where no timer is requested while pending.
* `MaxLow` is how long the low queue may get; `MaxHigh` is the length of the
  high queue below which the timer thread and the dialogs add to it. Handlers
  add without a bound. With 2 a command can wait behind another thread's
  command, the case the races need; with 1 in `peers` a command can still
  be queued behind those of the handler before.
* `MaxTime`, `MaxRequests`, `Delays`: three requests with delays 0 to 2 make
  two equal requests with another in front, three equal ones, which is what the
  scans of the list trip over, and requests that overtake others. `Hour` is longer than
  `MaxTime`, so a sleep of that length is one that does not end by itself.

* `GiveUp`: two firings of the resend timer stand for 64*T1.
* `MaxInputs`: two commands of the user or renewals. A shutdown and one more
  command before or behind it; in `registration`, two commands that make
  dialogs, or one with a renewal. Three dialogs are one more than the commands
  and the registration at the start can make.
* SRTP: cycles of ten (`SeqHalf` 5), four roll-over counters, a window of three,
  an `int` of two bits and twelve packets: the stream wraps once at least, and
  twice from most first numbers; the counter itself does not overflow. The
  window is smaller than half a cycle, as in the code, and wider than the `int`,
  so that every undefined shift occurs.
* ZRTP: one resend in place of 20 and 10, so that a timer fires, fires for the
  last time and is cancelled too late; two calls, for what one leaves to the
  next; one doubled packet, in the first call; `b` may acknowledge a Hello.
  `MayRefuse` is empty in the run, and the theorems hold for any.
* Transport: two connections, one to be removed while the other is added, or
  both found by the stop; one server beside the manager, since servers that
  listen meet only in the manager and in the order of the stop.

All runs have `CHECK_DEADLOCK FALSE`: in an instance the objects and requests
are used up, and an idle stack does nothing. The code's own waits are covered by
the liveness properties.

### Fairness

* `WF(Dispatch)`: the dispatcher's thread loops as long as the semaphore says
  there is a command.
* `WF(DeliverTimeout)`: the timer thread, with a request in hand, calls the
  receiver, which enqueues.
* `SF(ExpireLasting(t))`: a timeout that stays pending is due some day, and the
  provider delivers in order of time; that is `NobodyWaitsForEver`, checked for
  the provider on its own. Strong, because the bound `MaxHigh` and a delivery
  in progress disable the step now and then, in the model only or for a
  moment. It is asked only of the timeouts that end a wait, not of those that
  retransmit.
* Nothing is asked of the network or the dialogs.
* `SipStackShutdown`: `WF(Dispatcher)` and `WF(TimeIsUp(t))` for the timers of
  the management dialog, for the same reasons. Nothing of peers or the user.
* `SipLayerTransport`: weak fairness for each server's thread and for the
  dispatcher's in the middle of a send or of the stop. Nothing is asked of a
  select whose pipe is empty. A thread that waits for a lock gets it: what else
  is done with a lock ends as the connections are used up.
* ZRTP states no fairness. The responder's states have no timer, and what the
  network does with an initiator's resends is nobody's obligation.
* `TimeoutProvider`: `WF(Running)` and `WF(TimeIsUp)` for its thread and for the
  timed wait, `SF(Tick)` for the clock, which is not enabled in the instant
  between the check and the wait, however often the thread passes through it.


## 4. Proofs

Eight modules hold theorems. Each is about the specification the runs check, for
every value of the constants that the named assumptions of the modules allow.

### `SipLayerTransactionProofs`

For every number of transactions, any branches, calls and packets, any bounds,
both settings of `Unreliable` and `HandleAck`:

| Theorem | Statement |
|---|---|
| `Invariance` | `Spec => []IInv` |
| `TypeCorrect` | `Spec => []TypeOK` |
| `TerminatedRemoved` | `Spec => []TerminatedIsRemovedFirst` |
| `TerminationFinds` | `Spec => []TerminationFindsTransaction` |

`PeerAssumption` is the assumption that matters: no request comes from outside
with a branch of this stack's. It is used only for the part of `IInv` about
local keys.

`TerminationFindsTransaction` is not inductive: nothing in it says why the
announced transaction is still in the table, or why a second announcement
cannot be behind the first. `IInv` adds what that rests on:

* `AnnouncedOK`: a terminated transaction in the table has its announcement in
  the *high* queue. As what comes from the transport layer is in the low queue
  only (`QueuesOK`), such a command is at the head only when no announcement
  is outstanding: this is `TerminatedIsRemovedFirst`.
* `LocalOK`: a local key is given to at most one request in the queue, and to
  none while a transaction has it; a living transaction with it is in the
  table; it has at most one announcement, and if one, the transaction is in the
  table and terminated.
* `TableOK`, `ObjectsOK`: an entry is under its own id and alive or terminated;
  an object without a class is unborn.
* `LastOK`: a non-INVITE server transaction that may have to repeat a response
  has one (the assertion of a4 and a7 there).

The proof has one step per handler, but treats all handlers of the four
machines alike where they are: `HandlerStep(t)` says that one living
transaction changes state, that at most one word to the dialogs is queued, and
that an announcement is queued exactly on entering `terminated`. Four lemmas
show it of the machines' handlers, one shows that it keeps `IInv`. Creation,
removal, words to the dialogs, the timer thread, the dialogs and the network
follow, each with one step per conjunct.

### `SipTransactionProofs`

`NeverStrands` is `Spec => []NeverStranded`. Beside `IInv` it takes
`SInv`:

* `WaitsOK`: `NeverStranded` with the table `LastResort` written as a relation
  of class, state and timer.
* `OneExpired`: the timer thread has one expired timeout in hand at most. Were
  there two equal ones, the delivery of one would look like that of the other.
* A command in the queue that names an object is a timeout: nothing else can
  be taken for it by `OnItsWay`, and only a handler of that object takes it from
  the queue.

The proof has, for each handler, the pair of timers it cancels and requests:
a state that waits is entered with its timer requested (`Timeouts`), and a
handler that stays in the state does not cancel it. The steps in which a
timeout moves, from the list to the thread's hand and from there to the queue,
are the timer thread's; the step that takes it away is shown to leave the state
as well.

`ConcludesLast` is `Spec => []ConclusionIsLast`. What a dialog has been told says
nothing of what is queued behind it, so that `CInv` follows the conclusion
through the whole chain:

* In the queue nothing that a transaction says of a request is behind its
  conclusion (`NothingBehind`).
* What is concluded, in the queue or at the dialog, has a transaction object, and
  none of its objects is in a state that can still conclude (`Open`). That the
  object exists keeps the key from being used again (`LocalOK`).
* What is said to a dialog in the high queue is said by a transaction, and in
  the low queue it is `no_transactions` only.
* A transaction with a key of this stack's own is a client.

`SaysRight` states what a client's handler may say: nothing when the transaction
is not open, one word when it is, and with a conclusion it leaves the open
states. Two lemmas show it of the two client machines. Every other step says
nothing about a key, which the relation `Quiet` between the old queue and the
new expresses, and lemma `QuietKeeps` covers all of them.

### `SipCallProofs`

For any set of scenarios, in any combination, and any length of the resend
timer (`GiveUpAssumption`: at least one firing):

| Theorem | Statement |
|---|---|
| `Invariance` | `Spec => []IInv` |
| `TypeCorrect` | `Spec => []TypeOK` |
| `LastWordIsTrue` | `Spec => []LastWord` |
| `MediaIsStopped` | `Spec => []MediaStops` |
| `NobodyOrphaned` | `Spec => []NoOrphanedCall` |
| `AnsweredOnce` | `Spec => []OneFinalAnswer` |
| `EndSignalled` | `Spec => []EndIsSignalled` |
| `Implements` | `Spec => ImplementsOutline` |

None of the five invariants is inductive by itself, and `NoOrphanedCall` least of all.
That a dialog is over says nothing of how it got there, and the other may
come into the call afterwards. `IInv` says what each dialog has asked, what it was
answered, and where the other must then be:

* `TimerOK`: how many final answers there may be, by the state of the called
  party and by whether the resend timer has ended. `OneFinalAnswer` is what is
  left of it when the state is forgotten.
* `AskedOK`: a caller in *calling* has an INVITE open and has sent neither BYE
  nor REFER; the second INVITE follows a 401 to the first.
* `AnsweredOK`: what a request has been answered came from a server transaction,
  hence after it was sent; a 401 is the proxy's, to an INVITE the called party
  never saw; the called party gives no 2xx while it is early, and refuses only
  when it is over or the timer has ended.
* `ByeOK`: a BYE is only sent on the way out, and a caller in the call has had a
  2xx.
* `MediaOK`: the media of a caller in *calling* is the early media of a 183, to an
  INVITE that is not cancelled.
* `OrphanOK`: when one end is over, one of the reasons of `NoOrphanedCall` is there
  (`Excused`), or the other end has not got into the call and cannot any more, or
  it is on its way out.
* `LateOK`: the INVITE of a callee that has not answered waits, unless the resend
  timer has answered it, and no CANCEL has been accepted. With it a refusal that
  finds no transaction is known to be the exception of `EndIsSignalled`.
* `LastWord`, `MediaStops` and `EndIsSignalled` themselves.

One lemma for each of the five groups of steps shows that it keeps all but
`LateOK` and `EndIsSignalled`, with a step per action and in each a leaf per pair
of conjuncts. These two have arguments of their own. For `LateOK` only the
callee's steps matter (`CalledLate`), and they leave the exception as it is
(`LateStays`). For `EndIsSignalled` a step other than the end of transactions is
`Quiet`, as it ends none, leaves one when it enters *termwait* or is the
refusal that comes too late, and does not take back `no_transactions` there; the
end of transactions signals when it ends the last (`EndsSignal`).

`Implements` is the refinement of `CallOutline` under the mapping `phase`. From
its guard and `TypeOK` every handler takes its dialog `Onwards`, or leaves it;
`DialogMoves` turns that into a step of the outline.

The parts were model-checked before they were proved, with each scenario on its
own and with pairs.

### `SipStackShutdownProofs`

For any number of calls, registrations and identities, and any number of
commands of the user:

| Theorem | Statement |
|---|---|
| `TypeCorrect` | `Spec => []TypeOK` |
| `ShutdownNeverStuck` | `Spec => []ShutdownGoesOn` |
| `RegistrationKept` | `Spec => []RegistrationKeptAlive` |
| `CallsKept` | `Spec => CallsKeepOutline` |

The two in the middle are inductive together with `TypeOK`. `ShutdownGoesOn`
holds because each phase is entered with its timer requested, and because the
timer is dropped, or loses its meaning, only where the command for the next
phase is queued; `RegistrationKeptAlive` because every step that gives up a
renewal shows the identity as not registered, leaves a request of that dialog
unanswered, or is the answer that is ignored, which sets `refused`. An answer in
the queue is for the dialog that waited for it (`NotFor`), so that no other
dialog's step takes it away (`LeavesOthers`).

`CallsKeepOutline` needs to know what waits in the queue. A hang-up looks at the
call when it is dispatched; `removeDialog` does not, and rests on `RemovalOK`: a
`call_terminated` in the queue is the only one for its call, and the call is
terminated. No round of the dispatcher queues one (`DispatcherEnqueues`, in terms
of the commands `Plain`), and none leaves *terminated* but the removal itself
(`RemovalDispatch`).

### `SrtpStreamProofs`

For any width of the sequence numbers, the window and the `int`, and any number
of packets, over a network that loses, doubles and reorders as it likes:
`Invariance`, `HighestIsLatest` (`[]HighestSequenceNumber`), `InOrderAccepted`
(`[]InOrderIsTaken`) and `ReplayRefused` (`TakenOnce`). `Faults = {}` is assumed:
half a cycle is never missing at once, and the receiver hears of the stream in
its first cycle. `IInv` is `TypeOK /\ Follows`: the context has the roll-over
counter of the latest packet (`Holds`), its sequence number is that of the
latest packet or of a late one of the cycle before (`Fits`), and in the first
cycle every packet taken in order within the window is marked. The lemmas say
that the guess of the roll-over counter is right within half a cycle, unless the
late packet is half a cycle ahead (`GuessIsRight`), which packets can be late in
that way (`LateIsAdded`), and what a shift of the window does to a mark, the
undefined shifts included (`NewIsRecorded`).

### `ZrtpSessionProofs`

For any number of calls, resends and doubled packets, whatever cannot be
prepared (`MayRefuse`), and whichever ends acknowledge a Hello:

| Theorem | Statement |
|---|---|
| `Typed` | `Spec => [](TypeOK /\ KeptFits)`: a state that resends has kept the packet it resends |
| `WaitsAreTimed` | `Spec => []WaitIsTimed` |
| `Agreed` | `Spec => [](TypeInv /\ Agreement)` |
| `ZrtpStaysReadable` | `Spec => []ZrtpIsReadable` |
| `SecurityIsMutual` | `Spec => []SecureIsMutual` |

`ZrtpIsReadable` speaks of the keys in use; why they fit has to be said of every
earlier moment of the exchange, and that is `Agreement`:

* `SecretFits`: what the two ends know of the secret, by the pair of states
  they are in.
* `OfferedFits`: the initiator's secret is the one the responder will compute
  from the DHPart2 that travels.
* `PacketsFit`: what travels is in the clear or protected as its kind and the
  states of the ends demand, and is from this call.
* `ZrtpIsReadable`, and `SecureFits`, from which `SecureIsMutual` follows.

Almost every step agrees on nothing: it changes no secret and no key and sends
what an earlier step could have sent. Lemma `Quiet` deals with all of these at
once. `OfferAgrees`, `AnswerAgrees`, `ConfirmAgrees`, `AckAgrees` and
`SecureAgrees` are the five steps of the key agreement, the sending of
DHPart1, DHPart2, Confirm1, Confirm2 and of the acknowledgement.

### `SipLayerTransportProofs`

For any number of servers and connections: `Invariance` (`[]IInv`),
`TypeCorrect`, `WakesUp` (`[]SleepIsUpToDate`) and `StaysOpen`
(`[]NotClosedUnderneath`). `IInv` adds to the types:

* `SleepOK`: `SleepIsUpToDate`, with what it needs one step earlier: between
  the look at the flag and select, what is changed is announced. And a thread
  that runs has a pipe that keeps a byte.
* `SocketsOK`: a running thread's sockets are open, except the one it is about
  to remove; the set it sleeps on is part of its map, which nobody else makes
  smaller; the servers' maps have nothing in common.
* `AddingOK`: a connection that is about to be added is open, in no map, and
  nobody else's.
* `StoppingOK`: `stop()` closes, gives up and frees behind the end of the thread.

### `TimeoutProviderProofs`

For any number of threads, receivers, commands and requests, any delays, and a
list of any length: `Invariance` (`[]IInv`), `NeverOversleeping`
(`[]NeverOversleeps`), `InOrder` (`EarliestFirst`) and `Implements`
(`ImplementsService`, the refinement of `TimeoutService`). `IInv` adds to the
types:

* `Sorted(list)`: requests are in the order they are due. Without it the first
  request says nothing of the others.
* `SleepOK`: from the choice of `until` to the end of the sleep no request in
  the list is due earlier. Between the choice and the sleep the thread has the
  lock; whoever puts a request in later wakes it.
* `HandedOK`: only a thread that delivers has something in hand, which is
  `TimeoutService`'s guard of an expiry.

`PlaceProperties` shows that `requestTimeout` keeps the list sorted. What
`cancelRequest` and `remove` leave of a list is stated by `Leaves(l, w)`: a
sorted list of requests that were there, with fewer for `w` (or the old list)
and as many as before for every other timeout. `CancelledLeaves` and
`WithoutFirstLeaves` show it by induction over the rounds of the two loops,
`Scan` and `Kept`, which are recursive functions. The induction theorems of the
library take an operator; `Induction` here is about a set and follows from the
library's theorem that the natural numbers are well founded.

### Only model-checked

The liveness properties `WaitingEnds`, `NobodyWaitsForEver`, `ShutdownEnds`,
`StopEnds` and `AddedIsWatched`, and with them everything under fairness, which
is beyond the prover. Every safety property of a passing run is a theorem.


## 5. Findings

1. `abort`: an INVITE repeated behind its ACK is refused in *confirmed*, and a
   second transaction overwrites the first in the table. The end of the first
   frees the second; the end of the second, or a further announcement, finds
   nothing, and `transaction_terminated` dereferences null.
2. `shutdown_lost`: the header of the management dialog promises that every
   operation ends by a timer. The timers of the operations (b12, c12, d12) are
   awaited from the wrong source and never fire; an operation whose peer does
   not answer holds the dialog, and the command to shut down finds no
   transition there and is lost.
3. `transport_join`: `join()` waits for the thread with `csMutex` locked. When a
   connection is closed by the peer in that moment, the thread waits for the
   same lock in `removeSocket`, and the stop of the stack never ends.

### Known divergences

Met while modelling, and followed by the models, but with no run of their own:
the step is visible in the module named, or the lines are enough to see it.

Transactions:

* The comment says *confirmed* of the INVITE server absorbs ACKs; a11 is not
  registered, and a repeated ACK becomes a transaction that nobody answers.
* The transport error of an ACK names an id that is in no table. It is offered
  to every transaction (`SipLayerTransaction.cxx:195`) and ends the first that
  takes it, whichever call it belongs to. A second branch of this stack, of
  another call, in `MCPeers` shows it.
* A non-INVITE client that got a provisional response has no timer left to end
  it.
* A non-INVITE request repeated in *trying* goes to the dialogs again, because
  no transition takes it.
* a10 of the INVITE client, transport error in *completed* by the diagram, asks
  for the wrong source.

TimeoutProvider:

* `stopThread` wakes the thread without the lock; the wake-up is lost when the
  thread is about to wait.
* The thread returns with the lock held when a timeout is due at the stop
  (`TimeoutProvider.h:310`).
* `cancelRequest` skips an index after each removal: of several equal requests
  it leaves some.

Dialogs:

* `no_transactions` goes to the low queue, where the comment at
  `SipDialog.cxx:132` speaks of the high one.
* A CANCEL that crosses the 2xx leaves the callee in the call: *incall* ignores
  it, and the caller ignores the 2xx. Similarly a 2xx is not acknowledged in
  *termwait*, although the diagram at `SipDialogVoipClient.cxx:121` has a2017.
* A BYE in *ringing* (a3003) ends the callee's dialog and leaves the INVITE
  unanswered. A CANCEL in a state without a transition for it is answered by
  nobody, and its transaction stays.
* A refusal after the resend timer's 504: the INVITE's transaction is gone, so
  that the response is dropped (`SipLayerTransaction.cxx:179-211`), and a3005
  asks for transactions before the dialog is in *termwait*
  (`SipDialogVoipServer.cxx:393-397`, `SipDialog.cxx:119`). Nothing signals
  `no_transactions` any more, and the dialog stays. It is the exception of
  `EndIsSignalled` (`RefusedTooLate`).
* A PRACK nobody answers ends the call with the early media running
  (`SipDialogVoipClient.cxx:406`), the exception of `MediaStops`.
* An answer to a REGISTER other than 2xx, 401 and 407 leaves the dialog in
  *trying*, with no request and no timer, and the identity shown as it was
  (`SipDialogRegister.cxx:82` has it as a TODO): a renewal that is answered 503
  is the last. It is the exception of `RegistrationKeptAlive` (`refused`).
* A registration's success that crosses the command to withdraw is counted as a
  withdrawal (`SipDialogManagement.cxx:824`).
* b12, c12, d12 never fire, a30 is never reached, and registering all announces
  `unregister_all_done`.

Transport:

* The end of `run()` closes the pipe and resets `fdSignal` and `doStop` without
  the lock. A signal between the two closes raises SIGPIPE, which nothing
  handles; one after them throws, which ends a server's thread, or the
  dispatcher's in the middle of `stop()`.
* `stop()` gives the manager up before it joins the servers
  (`SipLayerTransport.cxx:407`). A server that has accepted a connection
  meanwhile hands it to null, or to an object that is being destroyed; `dead`
  is then "null".
* A handler that removes its socket erases the entry the thread's iterator
  stands on.
* `startServer`'s caller counts its tries with `ntries`, which is never
  decremented (`SipStackInternal.cxx:516`).

Presence (read, not modelled):

* The subscriber registers the timer of *retry_wait* in another state: it is
  never left, although the user is told that it tries again in five minutes.
* The presence server never requests the timer that removes a subscriber.

SRTP:

* A packet from before the wrap that comes late moves the highest sequence
  number back (`CryptoContext.cxx:398`). The packets in order are then put into
  the next cycle, and dropped, until they are within half a cycle of it. Without
  `~Misleads(p)` in `InOrderIsTaken` the run `srtp` shows it.
* The roll-over counter is masked off the index in the replay check (line 355),
  and the window is shifted by an undefined amount after a gap: from the second
  cycle, or behind the gap, a replay is taken. `TakenOnce` is stated short of
  that.

ZRTP:

* Media is protected before it can be read. `srtpSecretsReady` gives the sender's
  media its key together with its ZRTP packets
  (`ZrtpHostBridgeMinisip.cxx:221-231`), and the receiver's ZRTP packets only
  (275-277). The receiver makes the context of the media when it is in
  *SecureState* (`MediaStream.cxx:408-412`). What comes before that meets an empty
  context and is played as it came.
* `sendZrtp` protects with the context of the media (`MediaStream.cxx:565`), whose
  roll-over counter runs with the media: after a wrap the peer, which counts
  the ZRTP packets, cannot authenticate one.
* The empty context that is to switch off protection for the *receiver* is given
  to the sending stream (`ZrtpHostBridgeMinisip.cxx:321`). After an initiator
  has given up waiting for Confirm1, the user is told that the call is
  insecure, and it drops every packet that comes in the clear.
* A lost Confirm1 is not repeated. `ZrtpStateClass.cxx:686` says "DHPart2: -
  resend Confirm1 packet via SRTP", but the responder's receiver is keyed by
  then and drops the plain DHPart2 before the engine sees it
  (`MediaStream.cxx:379` and 413).
* A timeout taken off the list before it was cancelled is handled as an error in
  the states that have no timer, and puts them back to *Initial*.
* A responder's states have no timer: two ends that both acknowledged the
  other's Hello, and a responder whose initiator has gone, wait for ever.
* Which retained secrets match is decided by position
  (`ZRtp.cxx:964` and 1068), where the comment speaks of an intersection.
* The engine has no lock between the RTP receiver's thread and the timer's.
* `ZrtpHostBridgeMinisip::stop` deletes the engine and keeps the pointer
  (104-107), which the destructor deletes again; stopping before the start
  dereferences null, and so does `isSecureState` when the sender's SSRC is set
  before the start (`MediaStream.cxx:408`).
* `sendPacketSRTP` reads 52 bytes beyond the Conf2ACK it is given
  (`ZRtp.cxx:1231`).
* *AckDetected* and *WaitCommit* are not entered between two of these engines.


## 6. Not modelled, and the plan

Not modelled, with the reason:

* *Conference*: cannot run at this commit, because the call of
  `setConfCallback` is commented out (`Minisip.cxx:457`) and the callback that
  the dialogs use is null.
* *Push to talk*: includes `libmsip/SipDialogContainer.h` and
  `libmsip/SipTransactionUtils.h`, which the repository does not hold, and cannot
  be built at this commit.
* *Re-INVITE* (a1011 of the call dialogs): its result is undefined, as the
  function ends without a `return`.
* *Presence and file transfer*, so far: they repeat the pattern of the call dialogs.
* *Sound, video, codecs, DNS, STUN, ciphers and certificates, XML and
  configuration files, the user interfaces*: input and output, or data, with
  little control of their own. Parsing and composing of messages is abstracted
  to what the machines distinguish.

Next, in this order:

1. `SipLayerDialog`'s lock, which is released around each handler, with a
   second thread that reads the list.
2. The stop of the provider and of the dispatcher together: who may still
   request a timeout, with the lock that the provider's thread leaves behind.
3. MIKEY's small machine, against what the call dialogs ask of it.
4. Presence: the subscriber's and the server's dialogs with their timers.

Proofs next: the contract between the transactions and the dialogs (a client
transaction tells its dialog of provisional responses, then of one conclusion,
then nothing) as an abstract specification that `SipLayerTransaction`
implements.
