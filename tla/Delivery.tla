------------------------------ MODULE Delivery -------------------------------
(***************************************************************************)
(* One command on its way from the application to the vehicle and back:    *)
(* Vehicle.Send and getVCSECResult (pkg/vehicle), which sign the command   *)
(* anew for every attempt; Dispatcher.Send below them, which transmits the *)
(* same bytes again; the connector; and the listener, which matches        *)
(* replies to the handler of an attempt.  At stake is what the caller is   *)
(* told (pkg/protocol/error.go): that the command succeeded, that it       *)
(* failed, or that it may have succeeded.                                  *)
(*                                                                         *)
(* Sessions are ready (Handshake, SessionLock) and the vehicle refuses a   *)
(* counter it has accepted (Verifier, SecureChannel).  An attempt's number *)
(* stands for its counter, for its UUID and for the random address it uses *)
(* with the security controller (VCSEC).                                   *)
(***************************************************************************)
EXTENDS Naturals, Sequences, FiniteSets

CONSTANTS
  Links,             \* the connectors in use: "ble", "fleet"
  QueueSize,         \* receiverBufferSize: replies a handler holds
  MaxAttempts,       \* bound: how often the command is signed
  MaxTransmissions,  \* bound: how often bytes are handed to the connector
  MaxRepeats         \* bound: how many replies the network repeats

ASSUME DeliveryAssumption ==
  /\ Links \subseteq {"ble", "fleet"}
  /\ QueueSize \in Nat /\ MaxAttempts \in Nat
  /\ MaxTransmissions \in Nat /\ MaxRepeats \in Nat

VARIABLES
  job,       \* the connector in use and the kind of command
  pc,        \* where the caller is
  over,      \* the caller's context has ended
  attempt,   \* how often the command was signed
  tx,        \* how often bytes were handed to the connector
  wire,      \* copies of requests that may still reach the vehicle
  accepted,  \* the vehicle: the attempts whose counter it has used up
  executed,  \* the vehicle: the requests it has executed
  http,      \* answers of the vehicle that the Fleet API has yet to return
  inbox,     \* replies that the connector holds for the listener
  queue,     \* the replies in the current attempt's handler
  heard,     \* the handler's anti-replay window: response counters it has seen
  result,    \* what the caller is told
  misjudged, \* history: the transmissions declared harmless that the vehicle may have taken
  dropped,   \* history: a handler was full when a reply for it came
  repeats    \* how many replies were repeated

caller == <<pc, attempt, tx, queue, heard, result, misjudged>>
network == <<wire, http, inbox, repeats>>
vehicle == <<accepted, executed>>
vars == <<job, over, caller, network, vehicle, dropped>>

Jobs == [link : Links, kind : {"infotainment", "rke", "whitelist", "info"}]

-----------------------------------------------------------------------------
(* Replies and errors.                                                      *)

(***************************************************************************)
(* What the vehicle answers when it executes the command and when it does  *)
(* not.  VCSEC answers in up to three messages, of which the Fleet API     *)
(* returns the last (protocol.md:818-846).  Those before the last tell a   *)
(* command status: OK ("status"), or an error with ("error") or without    *)
(* ("bare") a signed message status; or nothing ("empty").                 *)
(***************************************************************************)
Confirmations(kind) ==
  CASE kind = "infotainment" -> {<<"done">>, <<"mtu exceeded">>}
    [] kind = "rke"          -> {<<"status", "status", "empty">>, <<"status", "empty">>, <<"empty">>}
    [] kind = "whitelist"    -> {<<"status", "empty", "whitelisted">>, <<"empty", "whitelisted">>}
    [] kind = "info"         -> {<<"answer">>}

Refusals(kind) ==
  CASE kind = "infotainment" -> {<<"nominal">>, <<"busy">>}
    [] kind = "rke"          -> {<<"status", "error", "nominal">>, <<"error", "nominal">>,
                                 <<"bare", "nominal">>, <<"wait">>}
    [] kind = "whitelist"    -> {<<"status", "empty", "denied">>, <<"empty", "denied">>, <<"wait">>}
    [] kind = "info"         -> {<<"wait">>}

\* Message faults, which travel in plaintext, as everything does without a session.
Faults == {"busy", "replayed", "mtu exceeded"}
Encrypted(what) == job.kind # "info" /\ what \notin Faults

\* Mutated form of OfEmpty: an empty message ends every VCSEC command.
EmptyMeansDone(kind) == "ok"

\* An empty message, without a command status: dropped during whitelist operations.
OfEmpty(kind) == IF kind = "whitelist" THEN "more" ELSE "ok"

(***************************************************************************)
(* The classes of errors: "retry" for Temporary and not MayHaveSucceeded,  *)
(* "maybe" for MayHaveSucceeded, "final" for the others.  A reply that is  *)
(* no error either ends the command well or is followed by "more".         *)
(* ErrUnknown, for an error status that has no signed message status, is   *)
(* among the others, although a client should wait for the error that      *)
(* follows (protocol.md:836-838).                                          *)
(***************************************************************************)
ClassOf(kind, what) ==
  CASE what \in {"busy", "wait", "replayed"}         -> "retry"
    [] what = "mtu exceeded"                         -> "maybe"
    [] what \in {"nominal", "denied", "bare"}        -> "final"
    [] what \in {"status", "error"}                  -> "more"
    [] what = "empty"                                -> OfEmpty(kind)
    [] OTHER                                         -> "ok"

(***************************************************************************)
(* How a Fleet API exchange fails: no response, one that cannot be read or *)
(* parsed, the HTTP statuses ("offline" is a 408 that says so), a full     *)
(* inbox, a Connection closed meanwhile.                                   *)
(***************************************************************************)
Statuses == {"408", "offline", "421", "422", "4xx", "503", "5xx"}
Outcomes == Statuses \cup {"no response", "unreadable", "unparsable", "full", "closed"}

ClassOfOutcome(o) ==
  CASE o \in {"no response", "408", "421"}                   -> "retry"
    [] o \in {"unreadable", "unparsable", "5xx", "full"}     -> "maybe"
    [] o \in {"offline", "422", "4xx", "503", "closed"}      -> "final"

\* The server knows which requests it has not passed on.
NotPassedOn == {"offline", "421", "422", "4xx", "503"}
Misjudges(o) == ClassOfOutcome(o) # "maybe" /\ o \notin NotPassedOn
-----------------------------------------------------------------------------
Init ==
  /\ job \in Jobs
  /\ pc = "sign" /\ over = FALSE
  /\ attempt = 0 /\ tx = 0
  /\ wire = {} /\ http = {} /\ inbox = <<>> /\ repeats = 0
  /\ accepted = {} /\ executed = {}
  /\ queue = <<>> /\ heard = {}
  /\ result = "pending"
  /\ misjudged = {} /\ dropped = FALSE

Goto(from, to) == pc = from /\ pc' = to

\* The handler is closed whenever an attempt ends.
CloseHandler == queue' = <<>> /\ heard' = {}
HandlerOpen == pc \in {"transmit", "exchange", "pause", "await"}

\* The attempt ends with an error, or for good with a result.
Fail(from, class) ==
  /\ CloseHandler
  /\ Goto(from, IF class = "retry" THEN "backoff" ELSE "done")
  /\ result' = CASE class = "retry" -> result
                 [] class = "maybe" -> "maybe"
                 [] class = "final" -> "failed"
                 [] class = "ok"    -> "ok"

\* getReceiver: authorize with a fresh counter, then createHandler.
Sign ==
  /\ Goto("sign", "transmit")
  /\ attempt' = attempt + 1
  /\ CloseHandler
  /\ UNCHANGED <<job, over, tx, result, misjudged, network, vehicle, dropped>>

\* authorize sees that the context has ended.
SignOver ==
  /\ over /\ job.kind # "info"
  /\ Fail("sign", "final")
  /\ UNCHANGED <<job, over, attempt, tx, misjudged, network, vehicle, dropped>>

Copy == [attempt |-> attempt, tx |-> tx + 1]

\* The BLE connector writes the request, block by block.
Write ==
  /\ job.link = "ble"
  /\ Goto("transmit", "await")
  /\ tx' = tx + 1 /\ wire' = wire \cup {Copy}
  /\ UNCHANGED <<job, over, attempt, queue, heard, result, misjudged, http, inbox, repeats, vehicle, dropped>>

\* A write fails: the error is of no class, so the command is over; the last
\* block may have got through.
WriteFails ==
  /\ job.link = "ble"
  /\ Fail("transmit", "final")
  /\ tx' = tx + 1 /\ wire' \in {wire, wire \cup {Copy}}
  /\ misjudged' = misjudged \cup {tx'}
  /\ UNCHANGED <<job, over, attempt, http, inbox, repeats, vehicle, dropped>>

\* The Internet connector posts the request and waits for the response.
Post ==
  /\ job.link = "fleet"
  /\ Goto("transmit", "exchange")
  /\ tx' = tx + 1 /\ wire' = wire \cup {Copy}
  /\ UNCHANGED <<job, over, attempt, queue, heard, result, misjudged, http, inbox, repeats, vehicle, dropped>>

Exchange ==
  /\ Goto("exchange", "await")
  /\ \E r \in http : r.tx = tx /\ inbox' = Append(inbox, r) /\ http' = http \ {r}
  /\ UNCHANGED <<job, over, attempt, tx, queue, heard, result, misjudged, wire, repeats, vehicle, dropped>>

\* Dispatcher.Send keeps the handler and pauses before it transmits again.
ExchangeFails(o) ==
  LET copy == [attempt |-> attempt, tx |-> tx] IN
  /\ o \in NotPassedOn => copy \in wire
  /\ o \in {"full", "closed"} => \E r \in http : r.tx = tx
  /\ wire' = IF o \in NotPassedOn THEN wire \ {copy} ELSE wire
  /\ misjudged' = misjudged \cup (IF Misjudges(o) THEN {tx} ELSE {})
  /\ IF ClassOfOutcome(o) = "retry"
       THEN Goto("exchange", "pause") /\ UNCHANGED <<queue, heard, result>>
       ELSE Fail("exchange", ClassOfOutcome(o))
  /\ UNCHANGED <<job, over, attempt, tx, http, inbox, repeats, vehicle, dropped>>

\* RetryInterval has passed: the same bytes again.
Retransmit ==
  /\ tx < MaxTransmissions
  /\ Goto("pause", "transmit")
  /\ UNCHANGED <<job, over, attempt, tx, queue, heard, result, misjudged, network, vehicle, dropped>>

\* Mutated form of PauseOver: the pause does not watch the context.
PauseUnwatched == FALSE

PauseOver ==
  /\ over
  /\ Fail("pause", "retry")
  /\ UNCHANGED <<job, over, attempt, tx, misjudged, network, vehicle, dropped>>
-----------------------------------------------------------------------------
(* Waiting for the reply: trySend, readUntil.                               *)

TakeReply ==
  /\ queue # <<>>
  /\ LET class == ClassOf(job.kind, Head(queue).what) IN
       IF class = "more"
         THEN Goto("await", "await") /\ queue' = Tail(queue) /\ UNCHANGED <<heard, result>>
         ELSE Fail("await", class)
  /\ UNCHANGED <<job, over, attempt, tx, misjudged, network, vehicle, dropped>>

\* Mutated form of AwaitOver: the error says that the command did not succeed.
AwaitOverDenies ==
  /\ over
  /\ Fail("await", "retry")
  /\ UNCHANGED <<job, over, attempt, tx, misjudged, network, vehicle, dropped>>

AwaitOver ==
  /\ over
  /\ Fail("await", "maybe")
  /\ UNCHANGED <<job, over, attempt, tx, misjudged, network, vehicle, dropped>>

\* The error was temporary: another attempt after RetryInterval, ...
Again ==
  /\ attempt < MaxAttempts /\ tx < MaxTransmissions
  /\ Goto("backoff", "sign")
  /\ UNCHANGED <<job, over, attempt, tx, queue, heard, result, misjudged, network, vehicle, dropped>>

\* ... unless the context ends: its error, which is of no class, is all that is returned.
BackoffOver ==
  /\ over
  /\ Fail("backoff", "final")
  /\ UNCHANGED <<job, over, attempt, tx, misjudged, network, vehicle, dropped>>
-----------------------------------------------------------------------------
(* The listener: Dispatcher.process.                                        *)

\* Mutated forms: the handler's key is the same for every attempt; response
\* counters are not checked.
HasSomeHandler(r) == HandlerOpen
NeverReplayed(r) == FALSE

HasHandler(r) == HandlerOpen /\ r.attempt = attempt
Replayed(r) == Encrypted(r.what) /\ <<r.tx, r.seq>> \in heard

Route ==
  LET r == Head(inbox) IN
  /\ inbox # <<>>
  /\ inbox' = Tail(inbox)
  /\ IF HasHandler(r) /\ ~Replayed(r)
       THEN /\ heard' = heard \cup {<<r.tx, r.seq>>}
            /\ IF Len(queue) < QueueSize
                 THEN queue' = Append(queue, r) /\ UNCHANGED dropped
                 ELSE dropped' = TRUE /\ UNCHANGED queue
       ELSE UNCHANGED <<queue, heard, dropped>>
  /\ UNCHANGED <<job, over, pc, attempt, tx, result, misjudged, wire, http, repeats, vehicle>>
-----------------------------------------------------------------------------
(* The vehicle and the network.                                             *)

\* The answer's messages: over the Fleet API the last one comes back with the response.
Reply(copy, whats) ==
  LET r(i) == [attempt |-> copy.attempt, tx |-> copy.tx, seq |-> i, what |-> whats[i]] IN
  IF job.link = "fleet"
    THEN http' = http \cup {r(Len(whats))} /\ UNCHANGED inbox
    ELSE inbox' = inbox \o [i \in DOMAIN whats |-> r(i)] /\ UNCHANGED http

Execute(copy) ==
  /\ copy.attempt \notin accepted
  /\ accepted' = accepted \cup {copy.attempt}
  /\ executed' = executed \cup {copy}
  /\ \E whats \in Confirmations(job.kind) : Reply(copy, whats)

Refuse(copy) ==
  /\ copy.attempt \notin accepted
  /\ accepted' \in {accepted, accepted \cup {copy.attempt}}
  /\ \E whats \in Refusals(job.kind) : Reply(copy, whats)
  /\ UNCHANGED executed

RefuseReplay(copy) ==
  /\ copy.attempt \in accepted
  /\ Reply(copy, <<"replayed">>)
  /\ UNCHANGED vehicle

Take(copy) ==
  /\ copy \in wire
  /\ wire' = wire \ {copy}
  /\ Execute(copy) \/ Refuse(copy) \/ RefuseReplay(copy)
  /\ UNCHANGED <<job, over, caller, repeats, dropped>>

\* A message of the vehicle is lost on its way to the listener.
Lose ==
  /\ inbox # <<>> /\ inbox' = Tail(inbox)
  /\ UNCHANGED <<job, over, caller, wire, http, repeats, vehicle, dropped>>

\* Or it comes twice.
Repeat ==
  /\ inbox # <<>> /\ repeats < MaxRepeats
  /\ inbox' = Append(inbox, Head(inbox)) /\ repeats' = repeats + 1
  /\ UNCHANGED <<job, over, caller, wire, http, vehicle, dropped>>

EndContext ==
  /\ pc # "done" /\ ~over /\ over' = TRUE
  /\ UNCHANGED <<job, caller, network, vehicle, dropped>>
-----------------------------------------------------------------------------
Caller ==
  \/ Sign \/ SignOver \/ Write \/ WriteFails \/ Post
  \/ Exchange \/ \E o \in Outcomes : ExchangeFails(o)
  \/ Retransmit \/ PauseOver \/ TakeReply \/ AwaitOver \/ Again \/ BackoffOver

Next ==
  \/ Caller \/ Route
  \/ \E copy \in wire : Take(copy)
  \/ Lose \/ Repeat \/ EndContext

(***************************************************************************)
(* Once its context has ended the caller gets on: every wait it makes      *)
(* watches the context.  Nothing makes the context end or the vehicle      *)
(* answer.                                                                 *)
(***************************************************************************)
Spec == Init /\ [][Next]_vars /\ WF_vars(over /\ Caller)
-----------------------------------------------------------------------------
(***************************************************************************)
(* Success is never claimed wrongly: when the caller is told that the      *)
(* command succeeded, the vehicle executed the very attempt that was being *)
(* waited for, whatever late or repeated replies to earlier attempts came. *)
(***************************************************************************)
SuccessMeansExecuted == result = "ok" => \E copy \in executed : copy.attempt = attempt

(***************************************************************************)
(* The retries never make the vehicle execute the command twice, except    *)
(* that each exchange which was wrongly declared harmless may add one      *)
(* execution.                                                              *)
(***************************************************************************)
ExecutedOnce == Cardinality(executed) <= 1 + Cardinality(misjudged)

(***************************************************************************)
(* Failure is claimed wrongly only after such an exchange: a context that  *)
(* ends while a reply is awaited always leaves the outcome open.           *)
(***************************************************************************)
FailureExplained == result = "failed" /\ executed # {} => misjudged # {}

(***************************************************************************)
(* "if a client times out while waiting for a response, then the client    *)
(* cannot tell if the command was received" (error.go:20-22): an error     *)
(* without MayHaveSucceeded means that the command was not executed.       *)
(***************************************************************************)
FailureMeansNotExecuted == result = "failed" => executed = {}

(***************************************************************************)
(* The handler's queue suffices (dispatcher.go:310): repeated, late and    *)
(* superfluous messages never make it drop a reply to its own attempt.     *)
(***************************************************************************)
NoReplyDropped == ~dropped

(***************************************************************************)
(* What the caller is told, taken with what the vehicle does before and    *)
(* after: the call keeps the promise of CommandCall.  It returns once, for *)
(* good, and whatever requests are still on their way then are executed    *)
(* only as its answer allows.                                              *)
(***************************************************************************)
Call ==
  INSTANCE CommandCall WITH runs <- Cardinality(executed), risked <- Cardinality(misjudged)
ImplementsCommandCall == Call!Spec

(***************************************************************************)
(* Every call returns once its context has ended, wherever it is.          *)
(***************************************************************************)
CallReturns == over ~> pc = "done"
=============================================================================
