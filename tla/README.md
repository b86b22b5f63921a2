# A TLA+ model of vehicle-command

`vehicle-command` is the client library, command-line tools and HTTP proxy that send
end-to-end authenticated commands to Tesla vehicles. This directory holds TLA+ modules
translated from its Go source, TLC configurations that check them on small instances, and
TLAPS proofs for all instances. Paths below are relative to the repository.

1. [The system](#the-system): components, state, operations, interactions
2. [What is hard](#what-is-hard)
3. [Modules](#modules): what models what, and how
4. [Runs](#runs): what each one shows, with its bounds
5. [Fairness](#fairness)
6. [Proofs](#proofs)
7. [Disagreements found](#disagreements-found)
8. [What is not modelled](#what-is-not-modelled)

## The system

| Component | State | Operations | Correct when |
|---|---|---|---|
| Sliding window, `internal/authentication/window.go` | largest counter, 64-bit history, "used" flag | `updateSlidingWindow`, `SlidingWindow.Update` | a counter is accepted iff it is new and in reach |
| Verifier (vehicle side), `verifier.go`, `peer.go` | epoch id, counter, window, `timeZero` (a wall and a monotonic reading) | `Verify`, `SessionInfo`, `SignedSessionInfo`, `SetSessionInfo` | a command executes at most once and not after it expires, whatever the clocks do |
| Signer (client side), `signer.go` | epoch, counter, `setTime`, `timeZero` | `Encrypt`, `AuthorizeHMAC`, `UpdateSessionInfo`, export and import | no counter is used twice; it gets back in step after a desynchronisation |
| Dispatcher, `internal/dispatcher/` | sessions with their locks and ready signals, handlers by address, UUID and domain, the listener's `terminate` and `done` channels | `Start`, `Stop`, `Send`, `StartSessions`, `Cache`, `LoadCache`; the listener's `process` | one listener, which can be stopped; handshakes end and report the truth; a response reaches its request once |
| Vehicle, `pkg/vehicle/` | none beyond the dispatcher's | `Connect`, `StartSession`, `Send` with retries, the commands | success is never claimed wrongly; errors do not deny a command that may have run; retries end |
| Connectors, `pkg/connector/{ble,inet}/` | inbox, reassembly buffer; region host | `Send`, `Receive`, `Close`, `Wakeup` | messages are handed on whole and in order, or not at all; what is kept is bounded |
| HTTP proxy, `pkg/proxy/proxy.go` | lock of each VIN, unsupported VINs, host of each subject, session cache | `ServeHTTP`, `handleVehicleCommand`, `forwardRequest` | one command per vehicle at a time, signed in order; every request answered once, by one way |
| Session cache, `pkg/cache/cache.go`, with `pkg/cli/config.go` | sessions by VIN, bounded | `Update`, `GetEntry`, import and export | the newest session is found; the size stays bounded |
| Account, `pkg/account/` | host and token | `GetVehicle`, requests | the region host is recorded |

How they interact. A `Vehicle` owns one dispatcher and hands it protobuf payloads. The
dispatcher's `Send` (on the caller's goroutine) authorizes the payload with the Signer of the
domain's session, registers a handler and transmits through the connector; its listener (a
goroutine of its own) reads the connector's inbox, feeds session info to the Signer, decrypts
and passes each message to its handler's channel. Both sides share the session (under two
locks) and the handler table (under a third). The Verifier, which the repository uses in tests
and as the reference of the vehicle's behaviour, answers with session info when it refuses a
command, and the Signer resynchronises from it. The proxy creates a `Vehicle` per request and
serialises the requests of one VIN, so that they share the cached session one after the other.

## What is hard

- **Ordering and loss.** Commands, responses and session info may be lost, delayed, repeated
  and reordered, and every one of them moves a counter, a window or a clock estimate.
- **Clocks.** The Verifier has a monotonic clock that freezes while the process sleeps and a
  wall clock that anybody on the network can set; the Signer has an estimate made from a reply
  of unknown delay.
- **Restarts.** A client restarted from its cache has counters it already used; a vehicle that
  reboots begins a new epoch.
- **Goroutines.** Start, Stop, Send, the listener, handshake goroutines and the caller's
  contexts race; Go's `select` picks any case that is ready.
- **Failures in the middle.** An exchange may fail before or after the vehicle has acted, and the
  client retries at two levels: the same bytes again, or a new signature.
- **Locks.** `Stop` waits while it holds a lock; `authorize` retries without pause; the
  proxy's lock is a map of channels.
- **Edges.** Counter rollover, word-sized shifts, unsigned subtraction of times.

`PROJECT.json` lists each hazard at its line with the properties that cover it.

## Modules

| Module | Models | Notes |
|---|---|---|
| `WindowOps` | `updateSlidingWindow` | the word is the set of its bits that are 1, `ShiftLeft` drops those shifted out; `Represents` says what a counter and window stand for |
| `AntiReplay` | abstract: an exact anti-replay filter | no word or shift in sight |
| `SlidingWindow` | the type `SlidingWindow` | implements `AntiReplay` |
| `VerifierOps` | the Verifier's state `v`, the vehicle's `clock`, and the Verifier's code as operators on them | shared by the next and `SecureChannel` |
| `Verifier` | `verifier.go` as a state machine: one action per locked call, plus clocks | random source may fail, second may turn over during a call |
| `Signer` | `signer.go` as operators on its state | |
| `TimelyExecution` | abstract: what a session promises of the commands signed under it | no network, window, epoch or expiry time in sight |
| `SecureChannel` | a Signer, a Verifier and the dispatcher's adoption rule over an unreliable network | composes `Signer` and `VerifierOps`; implements `TimelyExecution` |
| `Lifecycle` | `Start`, `listen`, `Stop`, the test that `Send` begins with | |
| `SessionStart` | abstract: what a call of `StartSessions` promises | no goroutine, request, reply or channel in sight |
| `Handshake` | `StartSessions` down to the listener's three steps per reply | implements `SessionStart` |
| `SessionLock` | the two locks around a session, `authorize` | |
| `CommandCall` | abstract: what the caller of one command is promised (error.go) | no attempt, transmission, reply or timeout in sight |
| `Delivery` | one command: `Vehicle.Send` and its retries, `Dispatcher.Send`, the connectors' `Send`, the listener's routing, the vehicle and the network | uses what `Handshake`, `SessionLock` and `SecureChannel` show; implements `CommandCall` |
| `VinLock` | `lockVIN`, `unlockVIN` | |
| `Proxy` | `ServeHTTP`, `handleVehicleCommand`, `forwardRequest`, `SessionCache.Update` | extends `VinLock`; implements its safety specification |
| `Ble` | `rx` and `flush`: fragments to messages | next to `Delivery`, which takes messages as wholes |
| `MC*` | instances for TLC | values in the `.cfg` files |
| `*Proofs` | theorems | see [Proofs](#proofs) |

Modules whose theorems stand in one proof module have names for their specifications that differ
(`VerifierSpec`, `ChannelSpec`; `BleSpec` next to `Delivery`'s `Spec`).

Definitions keep the source's names where TLA+ allows (`UpdateSlidingWindow`,
`RotateEpochIfNeeded`, `AdjustClock`, `VerifySessionInfo`, `UpdateSessionInfo`); the `map` in
`PROJECT.json` gives each one's lines. Definitions commented "mutated form" are plausible bugs:
each replaces one definition to show that a property would notice.

**Sliding window.** The 64-bit word and the 32-bit counter become `WordSize` and `MaxCounter`;
the window size (32 in the code) is `WindowSize`, at most `WordSize`.

**Verifier.** `timeZero` is two readings, `zeroMono` and `zeroWall`, because Go's `time.Time`
holds both and arithmetic uses one or the other. Epoch identifiers are numbered in the order
they are drawn. A message carries the epoch its sender signed for (`tagEpoch`, 0 for a forgery)
next to the epoch in its field; a tag verifies iff the sender's epoch is the Verifier's.
`Verify` holds the lock throughout and is one action, but reads the clock more than once, so
the action has an "instant later" parameter. Time is in seconds, as the code's `timestamp` is.

**Secure channel.** `net` and `replies` keep every message ever sent, so delivering one again,
late, in another order or never needs no actions of its own. `since` says which requests belong
to the running client: a restarted client has no handlers for the earlier ones. The client's
clock is `clock.real`; the vehicle's process may sleep (`PassTime(0)`). `MaxLatency` is the
dispatcher's `maxLatency`. `restarted` and `wrapped` record what the properties exempt: a client
restarted from a cache signs with counters it has used, and so does one whose counter goes from
its maximum to 0, as `AuthorizeHMAC` lets it.

**Lifecycle.** Calls are numbered; the goroutine of the n-th call and the `terminate` channel it
makes are both `n`. `doneLock` is a holder, since `Stop` waits inside it; other critical
sections are single actions guarded by `doneLock = Nobody`. `done` is unbuffered, so the
farewell is one action of both sides (`Farewell`).

**Handshake.** A goroutine per domain with a program counter: `sending` (inside `conn.Send`),
`first` and `second` (the two selects of `tryStartSession`), `report` (blocked on `results`).
The listener takes a reply in three steps, `Receive`, `Update` and `Deliver`, as `process`
releases its locks between them. Transport errors, a missing private key and
`ErrNotConnected` all end an attempt in the same way and are one action.

**Session lock.** Each thread is a goroutine inside `Send` or a "keeper" that takes both locks
in turn (the listener's `checkForSessionUpdate` and `decrypt`; `Cache`). A critical section that
cannot block inside is one action guarded by the lock being free; the two that can (waiting for
`session.lock` with `sessionLock` held; the `default:` branch that never unlocks) hold their
lock in the state. A signature may fail before it takes a counter (`Encrypt`'s rollover) or after
(`extractMetadata` refuses the message's domain or expiry time); `authorize` retries both, so that
counters may be spent without pause (`RefuseToSign`). `wrapped` remembers that the counter has gone
from its maximum to 0.

**Delivery.** Attempts (signatures) and transmissions are told apart: the number of an attempt
stands for its counter, UUID and reply address. A reply is known by the transmission that
caused it and its place in the vehicle's answer, which together stand for the response counter.
Errors are the four combinations that the code's decisions tell apart (`ClassOf`,
`ClassOfOutcome`): worth a retry, perhaps executed, neither, and none. The four kinds of
command differ in what the vehicle answers and in how `readUntil`'s caller reads it. What it
answers (`Confirmations`, `Refusals`) is external: up to three messages from VCSEC, of which the
Fleet API returns the last (protocol.md:818-846). Replies that the documented vehicle does not send
are left out: one without a payload or with one that cannot be parsed (vcsec.go:35 and 42, the class
`maybe`, as `mtu exceeded` is), and `OPERATIONSTATUS_ERROR` without a fault (error.go:259; see
[Disagreements found](#disagreements-found)). A
failed exchange may or may not have reached the vehicle; `NotPassedOn` are the statuses by which
the server says it has not. `misjudged` holds the transmissions that the code declares harmless without knowing.

**VIN lock.** A request is an HTTP goroutine; its channel carries its name. `LoadOrStore` is one
action, the three steps of `unlockVIN` are three.

**Proxy.** A handler's place is `at`; every action that takes, waits for or releases the lock is
one of `VinLock`'s conjoined with what the handler does. A session is the number of the session
info it rests on and the counter last used: `SecureChannel` and `SessionLock` have what these
stand for. `Export` (the dispatcher's `Cache`) and `Store` (`SessionCache.Update`) are two steps,
as the cache's own lock covers only the second and requests for other vehicles come between.
Commands are of four kinds by what becomes of them.

**BLE.** The vehicle sends its messages one by one (`Transmit`); the link holds what has not arrived
(`air`). A byte has a value, which the code reads as a length when it is one, and, for the
properties only, its message, its place and the size of its frame. `bleInbox` is the connection's
`inbox` (`Delivery` has a variable of that name). The histories restart where the property does: at a
fragment that begins a frame after a pause of `rxTimeout`. `rx` runs in one goroutine; between
its rounds of `flush` the listener may empty the inbox.

## Runs

All runs finish within three minutes with two workers. Deadlock checking is off where the
bounds, or the program's own end, leave nothing to do.

| Run | Shows | Bounds, and why they are enough |
|---|---|---|
| `sliding_window` | fields tell the truth about accepted counters; refinement of `AntiReplay` | window 3, word 5, counters to 9: jumps within, at and beyond both window and word |
| `verifier_replay` | no message accepted twice; window right across epochs and failed rotations | window 2, word 3, counters to 5 = `MaxCounter`, so rollover happens; two epochs |
| `verifier_clock` | setting the wall clock never extends a command; sleep is corrected to one second; counterless messages can be replayed for a bounded time only | epoch 2 s, expiry at 1 or 2 s, times to 3 s, two epochs, messages with and without a counter (the latter refused once a second of the epoch has passed): expiry, the epoch's end, forced rotation, every setting and sleep, and the turn of a second during a call |
| `channel_resync` | of the commands with one epoch and counter at most one executes, and once; counters are not reused; current session info brings the client back in step | 3 requests, 1 s, 2 faults (a reboot or a restart each), replies learned within the second of their request, window 1 in word 1: enough for a straggler, a reply of an old epoch, and a counter signed by both lives of the client. Later replies are in `channel_time` and in the theorems |
| `channel_time` | nothing executes late; refinement of `TimelyExecution` | 2 requests, 3 s, one fault, replies up to a second late, commands that live 1 s: a delayed reply, a sleep and a restart each shift the estimate |
| `lifecycle` | one listener; each can be stopped; `Stop` and `Send` return | 2 clients, 4 calls: two starts racing a stop, and a start after it. (5 calls pass too, in a minute) |
| `handshake` | success means ready unless canceled; faults are not masked; handlers end with their attempt; nobody waits for ever; refinement of `SessionStart` | 2 domains, one with 2 attempts and good replies, one with a single attempt and bad ones, a queue of 1 that can be full. (2 attempts with good and faulty replies on both domains satisfy the first two as well, in two minutes) |
| `session_lock` | concurrent commands have distinct counters; nobody is locked out; senders end | 2 senders with every pair of methods, the listener, counters to 3 = `MaxCounter`, signatures that fail with the counter spent or not |
| `delivery` | success is true; executions beyond the first, and wrong failures, come only from exchanges wrongly declared harmless; no reply to the current attempt is dropped; the call returns; refinement of `CommandCall` | both connectors, all four kinds, 3 attempts, 3 transmissions in all, 2 repeated replies, a queue of 3 (10 in the code): a replay fault after a lost response, then a third signature; a late reply to an earlier attempt; a full answer (3 messages) with two of them repeated |
| `proxy` | one holder, exact map, no lost wakeup; one answer, one way; signatures in order; everyone answered | 3 requests for one vehicle, one of any kind and signed up to twice, two signed once; a cache of 1 contended by another vehicle, 2 saves of its own; 2 attempts at forwarding: a holder, a waiter woken and a newcomer that overtakes it, an entry saved, evicted and missed |
| `ble` | messages intact, none missing, buffer bounded | 3 messages of 1, 2 or (too long) 3 bytes, fragments up to 4 bytes, of which 2 late or lost, an inbox of 2: frames split inside the length, several frames in a fragment, lengths misread after a loss, a full inbox. Bytes have 4 values, so that a payload can be read as a length |

One further run, `delivery_denied`, expects a violation; see
[Disagreements found](#disagreements-found).

`MaxRequests`, `MaxEpoch`, `MaxFaults`, `MaxTime`, `MaxTries` with `tries`, `MaxCalls`,
`MaxTransmissions`, `MaxRepeats`, `maxSigned`, `MaxSaves`, `MaxMessages`, `MaxFragment`, and
`MaxAttempts` in `Delivery`, only bound the state space (`MaxAttempts` in `Proxy` is the code's own); `MaxCounter`, `EpochLength`, `WindowSize`, `WordSize` and `QueueSize` are
parameters of the program, made small.

`ExecutedOnce` compares not only deliveries of one message but any two commands with one epoch
and counter, which a restarted client does sign. A counter of 0 is none to the Verifier
(verifier.go:285): the message that `AuthorizeHMAC` signs as it wraps can be replayed for as long as
`ReplayTimeBounded` says, and `ExecutedOnce` exempts it. `ExecutedInTime` allows `Lifetime + 1`
seconds: `adjustClock` ignores a lag of up to a second. The estimate behind the expiry time adds
nothing to that, since a client takes a reply to be as old as its arrival: a delayed reply makes
commands expire earlier, not later. `RefusalTeaches` looks at every reply that may still be
learned from and asks what the client would sign next, so it needs no fairness; it does not ask
that of session info reported when the epoch is about to be replaced. The channel's
runs use GCM, the theorems any methods: HMAC differs only in its missing rollover test, see below.

## Fairness

- `Lifecycle`: weak fairness for a goroutine that can register or leave its loop, and for the
  returns of `Start`, `Stop` and `Send`. A goroutine that can run does. No fairness
  for calls, for contexts ending or for disconnection.
- `Handshake`: weak fairness for a goroutine's own steps and for collecting results. Strong
  fairness for ending a wait because the context is over or the session ready: Go's select
  picks at random among ready cases, so one that is ready again and again is picked.
  None for the vehicle's answers, deliveries, the listener, or the end of the context.
- `SessionLock`: strong fairness for taking locks (a Go mutex in starvation mode is handed to
  the longest waiter) and for seeing the context over (random select).
- `Delivery`: weak fairness for the caller once its context has ended. None for the end of the
  context, the vehicle, the network or the listener.
- `Proxy`: weak fairness for each handler's steps: whatever it waits for other than the lock ends
  with a context of its own, and a handler that can run does. None for a request to arrive
  or for giving up the wait for the lock. `EveryoneAnswered` needs no strong fairness only
  because requests are finite in number; under endless new requests for a VIN a waiter may be
  overtaken each time it wakes, and then ends with its context.
- `SlidingWindow`, `Verifier`, `SecureChannel`, `Ble`: safety only, no fairness.

## Proofs

TLAPS checks these for every value of the constants that satisfies the named assumptions.
No step is left unproved.

| Theorem | Says | Argument |
|---|---|---|
| `WindowOpsProofs` (lemmas) | `UpdateSlidingWindow` accepts exactly the new counters within reach and keeps `Represents` | cases of the code: ahead, equal, behind in reach, behind out of reach |
| `SlidingWindowProofs!WindowCorrect` | the fields describe the accepted counters | inductive with `TypeOK`; each step by the window lemmas |
| `SlidingWindowProofs!Refinement` | implements `AntiReplay` | the invariant says that `Acceptable` and the code's answer agree; steps map to `Accept` or `Refuse` |
| `VerifierProofs!CommandsExecuteAtMostOnce` | `NoReplay` | below |
| `VerifierProofs!WindowCorrect` | the window describes the epoch's commands | below |
| `VerifierProofs!ExpiryNeverExtended` | `NeverExtended` | `zeroMono` never exceeds the monotonic time at which the epoch began: the only assignment within an epoch moves it back |
| `VerifierProofs!SleepNeverExtends` | `SleepCorrected` | below |
| `VerifierProofs!ReplaysEnd` | `ReplayTimeBounded` | below |
| `VerifierProofs!CommandsExecuteOnce`, `CountersAreFresh` | `ExecutedOnce`, `CountersNotReused`, over the network | below |
| `VerifierProofs!CommandsExecuteInTime` | `ExecutedInTime` (an action property) | below |
| `VerifierProofs!ChannelRefinement` | `SecureChannel` implements `TimelyExecution` | a command is given when it is signed; an accepted one has an unspent key (`Executions`) and is in time (`ExecutionInTime`); every other step stutters or passes time |
| `VerifierProofs!RefusalsTeach` | `RefusalTeaches`, when `MaxLatency < Lifetime` | below |
| `LifecycleProofs!SingleListener`, `ListenersStoppable`, `StopStops` | one listener; each can be stopped; after `Stop` none, if no `Start` gave up | inductive: `terminate` names the one running goroutine whose channel is open; `doneLock` is held exactly while a `Stop` waits; a running goroutine that is not `terminate`'s is the one awaited |
| `ProxyProofs!MutualExclusion`, `MapExact`, `WakeupsKept` | `OneHolder`, `MapBounded`, `NoLostWakeup` | inductive: the map's entry names the owner, and who deletes or closes has loaded its own channel |
| `ProxyProofs!ProxyImplementsLock` | `Proxy` implements `VinLock`'s safety specification | each handler's step is an action of `VinLock` or leaves its variables alone |
| `ProxyProofs!ProxyLocks` | the same three, in the proxy | the above with `ProxyImplementsLock` |
| `ProxyProofs!OneAnswer` | `AnsweredOnce` | `AnswerInv`: where a handler is says how many answers and which ways there were, and a fallback is decided before anything was sent |
| `ProxyProofs!SignaturesInOrder` | `SignedInOrder` | below |
| `HandshakeProofs!SuccessHolds`, `FaultsSurface`, `HandlersEnd` | `SuccessUnlessCanceled`, `FaultNotMasked`, `HandlersFreed` | inductive: what a goroutine reports stays true (`ResultsTrue`), so what has been collected without a fault is successes and the caller's cancellations |
| `HandshakeProofs!StartRefinement` | `Handshake` implements `SessionStart` | the same invariant, and that a goroutine times out only with the caller (`Expired`); collecting the deciding result is the abstract answer, a goroutine's return with an error a domain's failure |
| `SessionLockProofs!NoSharedCounter` | `CountersDistinct` | inductive: until a signature wraps the counter, no command was signed with a counter still ahead |
| `DeliveryProofs!SuccessTrue`, `FailureTrue`, `FewExecutions` | `SuccessMeansExecuted`, `FailureExplained`, `ExecutedOnce` | below |
| `DeliveryProofs!CallRefinement` | `Delivery` implements `CommandCall` | the three above give the guards of the abstract steps; `CallerStep` and `VehicleStep` say which steps change what |
| `DeliveryProofs!QueueSuffices` | `NoReplyDropped`, when `3 <= QueueSize` and `MaxRepeats < QueueSize` | below |
| `DeliveryProofs!MessagesArriveIntact`, `MessagesAllArrive`, `ReassemblyBounded` | `MessagesIntact`, `NoneMissing`, `BufferBounded`, of `Ble` | below |
| `TypeCorrect` in five modules | the type invariants, for all values of the constants; no run repeats them | |

`NoReplay` is not inductive. A new epoch keeps the old window but sets the counter to 0, so the
strengthening says that while the counter is not pinned at its maximum it and the window
represent the set `Used` of counters accepted in this epoch; that every accepted pair's epoch
is at most the current one; and that at counter 0 no bit is ever within reach, so that the stale
bits of the old window are not read. A failed rotation pins the counter at its maximum, whereupon
each call first tries to rotate and accepts nothing until it succeeds.

`SleepCorrected` and `ReplayTimeBounded` are about what was true when something else happened, and
their invariants carry it along. `zeroWall` moves only with a rotation, so while the wall clock is
not set it is the wall time at which the epoch began (`WallTrue`), and `adjustClock` keeps the
monotonic reading within a second of the wall's: the timestamp lags real time by a second at most.
A message without a counter is first accepted with an expiry time at most
`maxSecondsWithoutCounter` ahead of the timestamp of that moment (`ShortLived`); `zeroMono` never
moves forward within an epoch, so when a later acceptance finds it unexpired, no more than that
has passed, and a second for the two readings of the clock.

The channel's invariant (`CInv`, the second half of `VerifierProofs`) relates three parties: the
client, the vehicle and what is on its way between them.

- *Executions.* The Verifier's invariant `Sound` holds of the counters that the executed commands
  carry (`Spent`): this is the operator lemma of `NoReplay` again, used for another machine. An
  accepted command's counter was not spent before, so no other command with it was executed
  (`OncePerKey`).
- *Counters.* Until the counter wraps or the client restarts, every command's counter is at
  most the Signer's (`CountersTaken`): `UpdateSessionInfo` never lowers it, whatever epoch it
  adopts. The next command's is above.
- *Times.* The vehicle's monotonic clock falls behind real time by sleep only, and its timestamp of
  the epoch's age behind the true age, `now - zeroWall`, by no more than that (`ClocksAgree`). A reply
  is at most a second out of date when it is made, and made after its request was issued
  (`Reported`). So the client, which takes a reply to be as old as its arrival, believes the epoch to
  have begun no earlier than it did, and at most `MaxLatency + 1` seconds later (`Estimated`); what it
  signs expires no later than `Lifetime` after its issue (`Expiring`); and what the Verifier accepts
  has not expired by a clock that is a second slow at most, which is `ExecutedInTime`.
- *Learning.* `RefusalTeaches` needs that the Signer adopts what is reported, or has nothing to learn
  from it. A Signer that was not restarted has its `setTime` from a reply, so it is no later than the
  vehicle's timestamp, and a reply that it will find too old reports a counter that it has passed
  (`Learned`). What it signs then is new to the Verifier and has not expired, since its estimate is
  late by the reply's latency and a second at most, which is where `MaxLatency < Lifetime` comes in.

That hypothesis is not an assumption of the module, because it is not always so: commands live 5 s
by default (session.go:16) and BLE allows replies 4 s (ble.go:36), the Internet connector 10 s
(inet.go:22). A client that learns from a reply that is older than its commands live signs one that
has expired already. `ChannelAssumption` asks that `Lifetime` is positive and that
`EpochLength + Lifetime < MaxCounter`, so that expiry times do not wrap around to 0, "never": in the
code 2^30 s and a context's deadline against 2^32.

`SignedInOrder` needs to know where a vehicle's up-to-date session is. `SessionInv` says that it
is in one place: with the request that works on it under the lock (`execute`, `save`), in
that request's export (`store`), or in the cache if it has an entry at all; that every other
copy is gone; and that the session info of a new handshake is newer than any before. That two
requests never work on it at once is the lock's `OneHolder`, and the proof carries
the lock's invariant along. The size of the cache plays no part, so any eviction will do.

What the caller is told about its command (`DeliveryProofs`) rests on three facts about the
messages. Each transmission reaches the vehicle at most once (`TransmissionsDiffer`); a reply
tells the truth about the request it answers (`RepliesTrue`); and the listener's replies to the
current attempt answer its last transmission (`RepliesCurrent`). So whatever the vehicle executed
or may yet execute was declared harmless by the code, is still being waited for, or is the reason
why the caller is not told of a failure (`Accounted`).

`NoReplyDropped` needs a count of the messages a handler may get, over any number of attempts and
transmissions. `QueueInv` has it in three parts. A request is answered by one message or by two or
three that are encrypted (`OneAnswer`). The handler has heard what is in its queue, so an encrypted
message is there once, and these are three at most (`QueueHeard`). A reply in plaintext passes the anti-replay
window unchecked as often as the network repeats it; but it is the only answer to the current
attempt, so that the copies still to come and the queue together are one more than the
repetitions (`PlainBudget`). Hence the two hypotheses, which are not assumptions of the module: the
code's queue holds 10 (receiver.go:11) and bears nine repetitions, and a network that repeats a
plaintext fault more often than that does make it drop one, which then says what the queue
says already. The run's queue of 3 with 2 repetitions is the tight case.

Three refinements state what the parts promise to their callers, each in a page without the
mechanism. `CommandCall`: the caller of a command is told once, and what the vehicle does before and
after agrees with it but for misjudged exchanges. `TimelyExecution`: what the vehicle executes was
signed, once for each epoch and counter, and in time; `Delivery` and `Proxy` take a vehicle to
behave so. `SessionStart`: the answer of `StartSessions` is final and is somebody's own. The
abstract variables are functions of the concrete ones (the number of executed requests, the set of
signed commands, the set of ready domains), so that each step is shown to be an abstract step or
to change none of them.

The messages of `Ble` are proved about without induction over the stream: its invariant says of
every byte to come where its frame ends, that the bytes up to there are the frame's, and that what
follows begins a frame of a later message (`Framed`). Losing bytes from the front, taking a frame
and appending one keep that (`RestFramed`, `FrameTaken`, `FrameAppended`). While rx is in step, the
buffer and the air together are whole frames (`InOrder`), so the length that `flush` reads is that
of a frame (`LengthRead`), and what it cuts off is one message (`FrameLeavesBuffer`). What has
arrived was handed on or is still in the buffer, the latter only while `rx` works on it (`Arrived`).

Assumptions (`ASSUME`, checked by TLC in every run that uses them): sizes are naturals with
`WindowSize <= WordSize`; limits are naturals; model values that stand for "nobody" are not in
the sets they are told apart from. The proofs assume nothing about cryptography beyond what the
modules state: a tag computed for one epoch does not verify for another.

Only model-checked: the liveness properties (`StopReturns`, `StartSessionsReturns`, `ReadyIsSeen`,
`KeepersGetThrough`, `SendersEnd`, `CallReturns`, `EveryoneAnswered`), as liveness under fairness
is beyond TLAPS. Every other property that a run checks is a theorem.

## Disagreements found

| Run | Property | What the code does |
|---|---|---|
| `delivery_denied` | `FailureMeansNotExecuted` | a command posted to the Fleet API may be executed and its response lost: `SendFleetAPICommand` (inet.go:110) declares every failed exchange harmless, and the caller is told by an error without `MayHaveSucceeded` that its command did not run. error.go:20 and connector.go:37 say that the client cannot tell. `FailureExplained` and `ExecutedOnce`, which allow for such exchanges and nothing else, pass |

Others were met in the code. Where a property comes near, it is stated so that it excludes the
case by name, and passes:

- **A restored clock estimate counts as a report.** `ExportSessionInfo` stores the client's own
  estimate of the vehicle's time; after a restart `UpdateSessionInfo` (signer.go:103) discards
  session info of an earlier time, although nobody reported the later one. protocol.md:727
  allows that only against "a previously authenticated session info message".
  `RefusalTeaches` is about clients that were not restarted, and about any client of a vehicle
  whose process never slept.
- **A late Start.** A `Start` whose context ends before its goroutine registers, then a `Stop`: the
  goroutine registers afterwards (dispatcher.go:334) and listens on. vehicle.go:41 says that Stop
  stops "the goroutine launched by Start". `StopAfterReady` excludes it with `late`, and is proved.
- **A canceled handshake reported as success.** `StartSessions` (dispatcher.go:148) overwrites a
  `Canceled` result by a later nil, although it promises the first error (dispatcher.go:130).
  `SuccessUnlessCanceled` excludes a caller that cancels, and is proved.
- **HMAC without rollover test.** `AuthorizeHMAC` (signer.go:188) wraps the counter to 0 after
  2^32 - 1 commands in an epoch (`SpendCounter` in `SessionLock`); `CountersDistinct` excludes what follows (`wrapped`).
- **Counters without commands.** `authorize` (session.go:88) retries a message that cannot be signed
  until the caller's context ends; each try has taken a counter by then (signer.go:174, 188). The
  counters that are used stay distinct (`CountersDistinct`).
- **A lock kept.** `authorize` (session.go:83) returns with the session's lock held for a method it
  does not know (`UnknownMethod`). No caller in the repository passes one; `MethodsKnown` excludes
  it from the liveness properties.
- **A refused handshake may succeed.** The ready signal of an authenticated `KEY_NOT_ON_WHITELIST`
  session info (kind `refused` in `Handshake`) races its error.
- **The region may go back.** Requests forwarded at once record the server each was redirected to
  (proxy.go:367) in any order. It costs a further redirection.
- **The fallback is for handshakes only.** With a cached session `StartSession` makes no exchange, so
  a vehicle that has stopped speaking the protocol answers 422 to the command itself and the
  caller gets an error; only a failed handshake marks the VIN and forwards (proxy.go:476).
  `Proxy` takes a vehicle to speak the protocol always or never.
- **The cache is not quite LRU.** cache.go:20 says that a session counts as used when it authorizes a
  command; `CreatedAt`, which decides, is the time of the export (dispatcher.go:505).
- **An imported cache may have no map.** `Import` (cache.go:34) of JSON without `vehicles` leaves a nil
  map that `Update` then writes to.
- **An error status for legacy clients ends a command.** A command status of `OPERATIONSTATUS_ERROR`
  without a signed message status ends the command with `ErrUnknown` (vcsec.go:56).
  protocol.md:836 says that it is sent for legacy clients, and that new ones should discard it and
  wait for the more specific error that follows. `Delivery` does as the code does (`bare` in
  `ClassOf`): the command is reported as failed either way, without the reason, so that the
  properties about success and failure hold.
- **An error status read as success.** `GetError` (error.go:259) returns nil for
  `OPERATIONSTATUS_ERROR` when there is no fault, though it promises nil only for a message that "did
  not contain an error" (error.go:230). By protocol.md:745 a vehicle that reports an error sets the
  fault, so `Delivery`'s never sends such a reply and `SuccessMeansExecuted` does not see it.
- **Long answers over Bluetooth.** connector.go:25 says that connectors must support responses of
  100000 bytes; `flush` discards frames of more than 1024 (ble.go:77). `Ble` has that as
  `maxBLEMessageSize`.

## What is not modelled

- **Generated code** (`pkg/protocol/protobuf`): 29000 of the repository's 40400 lines.
- **Command builders and tables** (`actions.go`, `charge.go`, `climate.go`, `state.go`,
  `pkg/proxy/command.go`, `cmd/tesla-control/commands.go`): they turn arguments into messages and have no
  state; what becomes of a command by its kind is in `Proxy` and `Delivery`. With the generated code
  they are most of the repository, so that the modelled part, though it is nearly all of the
  code that keeps state or waits, is a small share of its lines.
- **Cryptography and serialisation**: tags verify only for what they were computed over.
- **Platform and files**: the Bluetooth stack, key rings, flags, prompts, JSON; wording and logs.
- **LoadCache during a handshake**: the interface permits it, no caller does it.
- **Two processes on one cache file**: the last to save wins; `SecureChannel` has one client at a
  time, restarted from what it saved.
- **Server addresses**: which server a request starts at and who remembers it. Redirections are steps
  of `Delivery` and `Proxy`.
- **`Wakeup`'s polling** (inet.go) and the data races around a closed `Connection`.
- **Delivery over a connection that closes**: the error is there (`closed`), the goroutine that
  closes it is not.
