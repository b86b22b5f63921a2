---------------------------- MODULE SecureChannel ----------------------------
(***************************************************************************)
(* A client and a vehicle keeping in step over an unreliable network: the  *)
(* Signer of signer.go, the Verifier of verifier.go, and between them the  *)
(* dispatcher's rules for adopting session info (dispatcher.go             *)
(* checkForSessionUpdate, session.go processHello).                        *)
(*                                                                         *)
(* The network keeps every message ever sent, so that any of them may be   *)
(* lost (never delivered), delayed, reordered or delivered twice.  The     *)
(* client may be restarted from a cached session and the vehicle may       *)
(* reboot.  Verifier considers what is left out here: settings of the wall *)
(* clock, a failing random source, and forged messages.                    *)
(***************************************************************************)
EXTENDS VerifierOps

CONSTANTS
  Lifetime,     \* how long a command may stay unexecuted, in seconds
  MaxLatency,   \* Dispatcher.maxLatency, in seconds
  Methods,      \* the authentication methods in use: "GCM", "HMAC"
  MaxRequests,  \* bound: the number of requests the client sends
  MaxFaults     \* bound: the number of vehicle reboots and client restarts together

ASSUME ChannelAssumption ==
  /\ Lifetime \in Nat \ {0} /\ MaxLatency \in Nat
  /\ EpochLength + Lifetime < MaxCounter
  /\ Methods \subseteq {"GCM", "HMAC"}
  /\ MaxRequests \in Nat /\ MaxFaults \in Nat

S == INSTANCE Signer

NoSession == [epoch |-> NoEpoch, counter |-> 0, setTime |-> 0, timeZero |-> 0]
NothingSaved == [info |-> S!SessionInfoOf(NoEpoch, 0, 0), createdAt |-> 0]

VARIABLES
  s,          \* the client's Signer, or NoSession
  sent,       \* how many requests were sent; a request's number is its UUID
  since,      \* the requests up to this one were sent before the client restarted
  net,        \* every request sent: [uuid, command, issued], command = {} for a handshake
  replies,    \* every reply with session info: [uuid, info]
  saved,      \* the cached session
  executed,   \* history: how often each request's command was executed
  restarted,  \* history: the client was restarted
  wrapped,    \* history: a counter went from MaxCounter to 0
  faults      \* the number of reboots and restarts

clientVars == <<s, sent, since, net, saved, restarted, wrapped>>
vehicleVars == <<v, replies, executed>>
channelVars == <<clock, clientVars, vehicleVars, faults>>

Uuids == 1 .. MaxRequests
now == clock.real   \* what the client's monotonic clock shows

-----------------------------------------------------------------------------
(* The client.                                                              *)

Post(command) ==
  /\ sent < MaxRequests
  /\ sent' = sent + 1
  /\ net' = net \cup {[uuid |-> sent + 1, command |-> command, issued |-> now]}

\* RequestSessionInfo.
SendHello ==
  /\ Post({})
  /\ UNCHANGED <<clock, vehicleVars, s, since, saved, restarted, wrapped, faults>>

CommandFrom(signer) ==
  [flaw |-> "none", epoch |-> signer.epoch, tagEpoch |-> signer.epoch,
   counter |-> S!NextCounter(signer), expiresAt |-> S!ExpiresAt(signer, Lifetime, now)]

\* Send with authorization; a counter is used up even when the message is refused.
SendCommand(method) ==
  /\ s # NoSession
  /\ method = "GCM" => S!CanEncrypt(s)
  /\ s' = [s EXCEPT !.counter = S!NextCounter(s)]
  /\ IF S!CanSign(s, Lifetime, now)
       THEN Post({CommandFrom(s)})
       ELSE UNCHANGED <<sent, net>>
  /\ wrapped' = (wrapped \/ s.counter = MaxCounter)
  /\ UNCHANGED <<clock, vehicleVars, since, saved, restarted, faults>>

(***************************************************************************)
(* checkForSessionUpdate and processHello: session info is adopted when    *)
(* this client has a handler for the request it answers and the reply took *)
(* at most maxLatency.  A handler that was closed early is a reply that    *)
(* is never learned from.                                                  *)
(***************************************************************************)
Learnable(reply) ==
  \E r \in net : r.uuid = reply.uuid /\ r.uuid > since /\ now <= r.issued + MaxLatency

Resynchronised(info) ==
  IF s = NoSession THEN S!NewSigner(info, now) ELSE S!UpdateSessionInfo(s, info, now)

Learn(reply) ==
  /\ Learnable(reply)
  /\ s' = Resynchronised(reply.info)
  /\ UNCHANGED <<clock, vehicleVars, sent, since, net, saved, restarted, wrapped, faults>>

\* Dispatcher.Cache.
Save ==
  /\ s # NoSession
  /\ saved' = S!Export(s, now)
  /\ UNCHANGED <<clock, vehicleVars, s, sent, since, net, restarted, wrapped, faults>>

\* The client is replaced by one that loads the cached session (LoadCache).
Restart ==
  /\ faults < MaxFaults
  /\ saved # NothingSaved
  /\ faults' = faults + 1 /\ restarted' = TRUE
  /\ s' = S!Import(saved, now)
  /\ since' = sent
  /\ UNCHANGED <<clock, vehicleVars, sent, net, saved, wrapped>>
-----------------------------------------------------------------------------
(* The vehicle.                                                             *)

InfoFaults ==   \* signatureError: the reply carries session info
  {"INCORRECT_EPOCH", "TIME_EXPIRED", "BAD_PARAMETER", "TIME_TO_LIVE_TOO_LONG",
   "INVALID_SIGNATURE", "INVALID_TOKEN_OR_COUNTER"}

\* SetSessionInfo and signatureError report the state that v' leaves behind.
ReplyWithInfo(uuid) ==
  replies' = replies \cup
    {[uuid |-> uuid, info |-> S!SessionInfoOf(v'.epoch, v'.counter, Timestamp(v', clock))]}

ReceiveHello(r) ==
  /\ r.command = {}
  /\ v' = AdjustClock(v, clock, TRUE).ver
  /\ v'.epoch <= MaxEpoch
  /\ ReplyWithInfo(r.uuid)
  /\ UNCHANGED <<clock, clientVars, executed, faults>>

ReceiveCommand(r, m) ==
  LET a == Answer(v, m, clock, clock, TRUE) IN
  /\ v' = a.ver
  /\ v'.epoch <= MaxEpoch
  /\ executed' = IF a.result = Accepted THEN [executed EXCEPT ![r.uuid] = @ + 1] ELSE executed
  /\ IF a.result \in InfoFaults THEN ReplyWithInfo(r.uuid) ELSE UNCHANGED replies
  /\ UNCHANGED <<clock, clientVars, faults>>

\* A reboot calls NewVerifier: a new epoch with an empty window.
Reboot ==
  /\ v.epoch < MaxEpoch /\ faults < MaxFaults
  /\ faults' = faults + 1
  /\ v' = [epoch |-> v.epoch + 1, counter |-> 0, window |-> {},
           zeroMono |-> clock.mono, zeroWall |-> clock.wall]
  /\ UNCHANGED <<clock, clientVars, replies, executed>>

\* The vehicle's process runs, or sleeps with its monotonic clock stopped.
PassTime(awake) ==
  /\ now < MaxTime
  /\ clock' = [mono |-> clock.mono + awake, wall |-> clock.wall + 1, real |-> clock.real + 1]
  /\ UNCHANGED <<clientVars, vehicleVars, faults>>
-----------------------------------------------------------------------------
ChannelInit ==
  /\ clock = [mono |-> 0, wall |-> 0, real |-> 0]
  /\ v = [epoch |-> 1, counter |-> 0, window |-> {}, zeroMono |-> 0, zeroWall |-> 0]
  /\ s = NoSession
  /\ sent = 0 /\ since = 0 /\ net = {} /\ replies = {}
  /\ saved = NothingSaved
  /\ executed = [u \in Uuids |-> 0]
  /\ restarted = FALSE /\ wrapped = FALSE /\ faults = 0

ChannelNext ==
  \/ SendHello
  \/ \E method \in Methods : SendCommand(method)
  \/ \E reply \in replies : Learn(reply)
  \/ Save
  \/ Restart
  \/ \E r \in net : ReceiveHello(r) \/ \E m \in r.command : ReceiveCommand(r, m)
  \/ Reboot
  \/ \E awake \in {0, 1} : PassTime(awake)

ChannelSpec == ChannelInit /\ [][ChannelNext]_channelVars
-----------------------------------------------------------------------------
(***************************************************************************)
(* Every command is executed at most once, over loss, duplication,         *)
(* reordering, reboots and clients restarted with counters already used;   *)
(* and of the commands that share an epoch and counter, at most one is.    *)
(* (A counter of 0, which an HMAC signature that wraps produces, is none:  *)
(* such a message can be replayed for a while.)                            *)
(***************************************************************************)
ExecutedOnce ==
  \A r1, r2 \in net : \A m1 \in r1.command, m2 \in r2.command :
    m1.tagEpoch = m2.tagEpoch /\ m1.counter = m2.counter /\ m1.counter # 0 =>
      /\ executed[r1.uuid] <= 1
      /\ r1.uuid # r2.uuid => executed[r1.uuid] + executed[r2.uuid] <= 1

(***************************************************************************)
(* A client that is not restarted never signs two commands with one epoch  *)
(* and counter until the counter wraps, although delayed session info may  *)
(* take it back to an earlier epoch it has already used counters in.       *)
(***************************************************************************)
CountersNotReused ==
  ~restarted /\ ~wrapped =>
    \A r1, r2 \in net : \A m1 \in r1.command, m2 \in r2.command :
      m1.tagEpoch = m2.tagEpoch /\ m1.counter = m2.counter => r1.uuid = r2.uuid

(***************************************************************************)
(* Just executed: no command is executed more than Lifetime seconds of     *)
(* real time after the client issued it, plus the second of slack          *)
(* adjustClock allows, however late the session info behind its expiry     *)
(* time was and however long the vehicle's process slept.                  *)
(***************************************************************************)
ExecutedInTime ==
  [][\A r \in net :
       executed'[r.uuid] # executed[r.uuid] => now - r.issued <= Lifetime + 1]_channelVars

(***************************************************************************)
(* The channel implements TimelyExecution.  An order is a command that the *)
(* client has signed, its key the epoch and counter it was signed with;    *)
(* one with counter 0 may be repeated.  What is executed at all was signed *)
(* by the client, under a number of its own and at the time of its issue.  *)
(***************************************************************************)
Orders ==
  UNION {{[number |-> r.uuid, key |-> <<m.tagEpoch, m.counter>>, at |-> r.issued] :
            m \in r.command} : r \in net}

Timely ==
  INSTANCE TimelyExecution WITH
    Numbers <- Uuids, Weak <- Nat \X {0}, Grace <- Lifetime + 1,
    time <- now, orders <- Orders, times <- executed
ImplementsTimelyExecution == Timely!Spec

InStep(signer) ==
  signer.counter < MaxCounter /\ S!CanSign(signer, Lifetime, now) =>
    Answer(v, CommandFrom(signer), clock, clock, TRUE).result = Accepted

(***************************************************************************)
(* "The client MUST update its session state if none of the above are      *)
(* true" (pkg/protocol/protocol.md:730), so as to "automatically recover": *)
(* when a reply reports the epoch and counter the Verifier is at, and the  *)
(* epoch is not over, a client that takes it in signs a command that the   *)
(* Verifier accepts when it is delivered at once.                          *)
(***************************************************************************)
ReplyTeaches ==
  AdjustClock(v, clock, TRUE).ver.epoch = v.epoch =>
    \A reply \in replies :
      Learnable(reply) /\ reply.info.epoch = v.epoch /\ reply.info.counter = v.counter
        => InStep(Resynchronised(reply.info))

(***************************************************************************)
(* The same of a client that was not restarted, whatever clocks, old       *)
(* epochs and stale replies did to it; and of one that was, when the       *)
(* vehicle's process never slept.  (A restarted client takes its own       *)
(* estimate of the vehicle's clock for a time the vehicle has reported,    *)
(* and discards replies that report an earlier one.)                       *)
(***************************************************************************)
RefusalTeaches ==
  ~wrapped /\ (~restarted \/ clock.mono = clock.real) => ReplyTeaches
=============================================================================
