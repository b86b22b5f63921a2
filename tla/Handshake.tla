------------------------------ MODULE Handshake ------------------------------
(***************************************************************************)
(* Starting sessions with several domains of a vehicle                     *)
(* (internal/dispatcher/dispatcher.go StartSessions, StartSession,         *)
(* tryStartSession, process, checkForSessionUpdate; session.go             *)
(* processHello).                                                          *)
(*                                                                         *)
(* StartSessions runs one goroutine per domain and collects their results  *)
(* from an unbuffered channel.  Each goroutine sends session info          *)
(* requests, one attempt after the other, and waits for the session's      *)
(* ready signal, a reply, its retry timer or its context.  The listener    *)
(* goroutine handles one reply at a time in three steps, between which     *)
(* everybody else runs: it looks the attempt's handler up, updates the     *)
(* session, and passes the reply on to the handler.                        *)
(*                                                                         *)
(* The network may lose, delay, reorder and duplicate replies.             *)
(***************************************************************************)
EXTENDS Naturals, Sequences, FiniteSets

CONSTANTS
  Domains,      \* the vehicle's domains
  kinds,        \* the kinds of reply each domain sends
  QueueSize,    \* receiverBufferSize
  MaxTries,     \* bound: the number of attempts per domain
  tries         \* bound: the number of attempts of each domain

(***************************************************************************)
(* "info" carries session info that is accepted; "useless" neither session *)
(* info that is accepted (its tag is wrong, or it took too long) nor an    *)
(* error; "fault" an error; "refused" an error, the status                 *)
(* KEY_NOT_ON_WHITELIST, in session info that is itself authentic.         *)
(***************************************************************************)
AllKinds == {"info", "useless", "fault", "refused"}
Authentic == {"info", "refused"}
Errors == {"fault", "refused"}

ASSUME HandshakeAssumption ==
  /\ IsFiniteSet(Domains) /\ Domains # {}
  /\ kinds \in [Domains -> SUBSET AllKinds]
  /\ QueueSize \in Nat \ {0}
  /\ MaxTries \in Nat \ {0}
  /\ tries \in [Domains -> 1 .. MaxTries]

VARIABLES
  context,    \* the caller's context: live, canceled or expired
  main,       \* StartSessions: collecting, or returned with an error
  collected,  \* the domains whose result StartSessions has received
  session,    \* each domain's session: none, new (no key material) or ready
  pc,         \* where each domain's goroutine is
  result,     \* what each goroutine returned
  try,        \* the number of each goroutine's attempt
  handlers,   \* the attempts <<domain, try>> with a registered handler
  inbox,      \* the replies in the channel of each domain's current handler
  requests,   \* the attempts whose request reached the vehicle
  air,        \* the replies on the network: [attempt, kind]
  listener    \* the reply the listener is processing, and how far it is

vars == <<context, main, collected, session, pc, result, try,
          handlers, inbox, requests, air, listener>>
mainVars == <<main, collected>>
workerVars == <<pc, result, try>>

Attempts == Domains \X (1 .. MaxTries)
Replies == [attempt : Attempts, kind : AllKinds]
Idle == [stage |-> "idle"]
Results == {"nil", "canceled", "expired"} \cup Errors

TypeOK ==
  /\ context \in {"live", "canceled", "expired"}
  /\ main \in {"collecting"} \cup Results
  /\ collected \subseteq Domains
  /\ session \in [Domains -> {"none", "new", "ready"}]
  /\ pc \in [Domains -> {"start", "request", "sending", "first", "second", "report", "done"}]
  /\ result \in [Domains -> Results]
  /\ try \in [Domains -> 0 .. MaxTries]
  /\ handlers \subseteq Attempts
  /\ inbox \in [Domains -> Seq(AllKinds)] /\ \A d \in Domains : Len(inbox[d]) <= QueueSize
  /\ requests \subseteq Attempts
  /\ air \subseteq Replies
  /\ listener = Idle \/ listener \in [stage : {"update", "deliver"}, reply : Replies]

\* Earlier calls may have left sessions behind that are ready, or that never became so.
Init ==
  /\ context = "live"
  /\ main = "collecting" /\ collected = {}
  /\ session \in [Domains -> {"none", "new", "ready"}]
  /\ pc = [d \in Domains |-> "start"]
  /\ result = [d \in Domains |-> "nil"]
  /\ try = [d \in Domains |-> 0]
  /\ handlers = {}
  /\ inbox = [d \in Domains |-> <<>>]
  /\ requests = {} /\ air = {}
  /\ listener = Idle

Goto(d, from, to) == pc[d] = from /\ pc' = [pc EXCEPT ![d] = to]
-----------------------------------------------------------------------------
(* The goroutine of domain d.                                               *)

Current(d) == <<d, try[d]>>

\* The goroutine returns e; the deferred recv.Close() has run.
Return(d, from, e) ==
  /\ Goto(d, from, "report")
  /\ result' = [result EXCEPT ![d] = e]
  /\ handlers' = handlers \ {Current(d)}
  /\ UNCHANGED <<context, mainVars, session, try, inbox, requests, air, listener>>

\* StartSession: a session that is ready needs no handshake.
Begin(d) ==
  /\ session' = [session EXCEPT ![d] = IF @ = "none" THEN "new" ELSE @]
  /\ Goto(d, "start", IF session[d] = "ready" THEN "report" ELSE "request")
  /\ UNCHANGED <<context, mainVars, result, try, handlers, inbox, requests, air, listener>>

\* tryStartSession: the handler is registered before the request is sent.
Request(d) ==
  /\ try[d] < tries[d]
  /\ Goto(d, "request", "sending")
  /\ try' = [try EXCEPT ![d] = @ + 1]
  /\ handlers' = handlers \cup {<<d, try[d] + 1>>}
  /\ inbox' = [inbox EXCEPT ![d] = <<>>]
  /\ UNCHANGED <<context, mainVars, session, result, requests, air, listener>>

\* The request reaches the vehicle, even if conn.Send should report an error.
Transmit(d) ==
  /\ pc[d] = "sending"
  /\ requests' = requests \cup {Current(d)}
  /\ UNCHANGED <<context, mainVars, session, workerVars, handlers, inbox, air, listener>>

Sent(d) ==
  /\ Goto(d, "sending", "first")
  /\ UNCHANGED <<context, mainVars, session, result, try, handlers, inbox, requests, air, listener>>

\* conn.Send fails for good.  (ErrNotConnected and a missing key end the attempt alike.)
SendFails(d) == Return(d, "sending", "fault")

\* Mutated form of ContextOver: aggregateContext is not derived from the caller's.
ContextNotDerived == main # "collecting"

\* aggregateContext ends with the caller's context, or when StartSessions returns.
ContextOver == context # "live" \/ main # "collecting"

\* Mutated form of GiveUp: it does not say how the context ended.
GiveUpVaguely(d, from) == ContextOver /\ Return(d, from, "canceled")

GiveUp(d, from) ==
  /\ ContextOver
  /\ Return(d, from, IF context = "expired" THEN "expired" ELSE "canceled")

\* Mutated form of SeeReady: after a reply, only the timer and the context are waited for.
SeeReadyFirstOnly(d, from) ==
  from = "first" /\ session[d] = "ready" /\ Return(d, from, "nil")

\* The ready signal, once closed, can be received in either wait.
SeeReady(d, from) == session[d] = "ready" /\ Return(d, from, "nil")

\* Mutated form of Retry: the handler of the attempt is not closed.
RetryLeavesHandler(d, from) ==
  /\ try[d] < tries[d]
  /\ Goto(d, from, "request")
  /\ UNCHANGED <<context, mainVars, session, result, try, handlers, inbox, requests, air, listener>>

\* The retry timer ends the attempt.
Retry(d, from) ==
  /\ try[d] < tries[d]
  /\ Goto(d, from, "request")
  /\ handlers' = handlers \ {Current(d)}
  /\ UNCHANGED <<context, mainVars, session, result, try, inbox, requests, air, listener>>

TakeReply(d) ==
  /\ inbox[d] # <<>>
  /\ IF Head(inbox[d]) \in Errors
       THEN Return(d, "first", Head(inbox[d]))
       ELSE /\ Goto(d, "first", "second")
            /\ inbox' = [inbox EXCEPT ![d] = Tail(@)]
            /\ UNCHANGED <<context, mainVars, session, result, try, handlers, requests, air, listener>>

Waiting == {"first", "second"}
-----------------------------------------------------------------------------
(* StartSessions receives the next result.  Only a result that is neither   *)
(* nil nor a cancellation makes it return early; otherwise it returns the   *)
(* last result.                                                             *)

\* Mutated forms of Collect: any error makes it return; a timeout counts as a cancellation.
CollectAnyError(d) ==
  /\ main = "collecting"
  /\ Goto(d, "report", "done")
  /\ collected' = collected \cup {d}
  /\ main' = IF result[d] # "nil" \/ collected' = Domains THEN result[d] ELSE "collecting"
  /\ UNCHANGED <<context, session, result, try, handlers, inbox, requests, air, listener>>

CollectToleratesTimeout(d) ==
  /\ main = "collecting"
  /\ Goto(d, "report", "done")
  /\ collected' = collected \cup {d}
  /\ main' = IF result[d] \in Errors \/ collected' = Domains THEN result[d] ELSE "collecting"
  /\ UNCHANGED <<context, session, result, try, handlers, inbox, requests, air, listener>>

Collect(d) ==
  /\ main = "collecting"
  /\ Goto(d, "report", "done")
  /\ collected' = collected \cup {d}
  /\ main' = IF result[d] \notin {"nil", "canceled"} \/ collected' = Domains
               THEN result[d] ELSE "collecting"
  /\ UNCHANGED <<context, session, result, try, handlers, inbox, requests, air, listener>>
-----------------------------------------------------------------------------
(* The vehicle and the network.                                             *)

Answer(a, kind) ==
  /\ a \in requests
  /\ [attempt |-> a, kind |-> kind] \notin air
  /\ air' = air \cup {[attempt |-> a, kind |-> kind]}
  /\ UNCHANGED <<context, mainVars, session, workerVars, handlers, inbox, requests, listener>>

EndContext(how) ==
  /\ context = "live"
  /\ context' = how
  /\ UNCHANGED <<mainVars, session, workerVars, handlers, inbox, requests, air, listener>>
-----------------------------------------------------------------------------
(* The listener.                                                            *)

\* process: a reply without a handler is dropped.
Receive(reply) ==
  /\ listener = Idle
  /\ reply.attempt \in handlers
  /\ listener' = [stage |-> "update", reply |-> reply]
  /\ UNCHANGED <<context, mainVars, session, workerVars, handlers, inbox, requests, air>>

\* checkForSessionUpdate and processHello: the ready signal is closed.
Update ==
  /\ listener.stage = "update"
  /\ listener' = [listener EXCEPT !.stage = "deliver"]
  /\ session' = IF listener.reply.kind \in Authentic
                  THEN [session EXCEPT ![listener.reply.attempt[1]] = "ready"]
                  ELSE session
  /\ UNCHANGED <<context, mainVars, workerVars, handlers, inbox, requests, air>>

\* The reply goes into the handler's channel; a channel that is full or that
\* nobody reads any more makes no difference to the listener.
Deliver ==
  LET d == listener.reply.attempt[1] IN
  /\ listener.stage = "deliver"
  /\ listener' = Idle
  /\ inbox' = IF listener.reply.attempt = Current(d) /\ Len(inbox[d]) < QueueSize
                THEN [inbox EXCEPT ![d] = Append(@, listener.reply.kind)]
                ELSE inbox
  /\ UNCHANGED <<context, mainVars, session, workerVars, handlers, requests, air>>
-----------------------------------------------------------------------------
Step(d) == Begin(d) \/ Request(d) \/ Sent(d) \/ Collect(d)
GiveUpAnywhere(d) == \E w \in Waiting \cup {"sending"} : GiveUp(d, w)
SeeReadyAnywhere(d) == \E w \in Waiting : SeeReady(d, w)

Next ==
  \/ \E d \in Domains :
       \/ Step(d) \/ Transmit(d) \/ SendFails(d) \/ TakeReply(d)
       \/ GiveUpAnywhere(d) \/ SeeReadyAnywhere(d)
       \/ \E w \in Waiting : Retry(d, w)
  \/ \E a \in requests : \E kind \in kinds[a[1]] : Answer(a, kind)
  \/ \E how \in {"canceled", "expired"} : EndContext(how)
  \/ \E reply \in air : Receive(reply)
  \/ Update
  \/ Deliver

(***************************************************************************)
(* Goroutines that can run do.  A goroutine that can give up, or can see   *)
(* that its session is ready, again and again does so at last: the select  *)
(* chooses at random among the cases that are ready, and the retry timer   *)
(* needs time.  Nothing forces the vehicle to answer, the network to       *)
(* deliver or the context to end.                                          *)
(***************************************************************************)
Spec ==
  /\ Init /\ [][Next]_vars
  /\ \A d \in Domains : WF_vars(Step(d)) /\ SF_vars(GiveUpAnywhere(d) \/ SeeReadyAnywhere(d))
-----------------------------------------------------------------------------
(***************************************************************************)
(* "StartSessions starts sessions with the provided vehicle domains"       *)
(* (dispatcher.go:127): when it returns no error, every session is ready.  *)
(***************************************************************************)
SuccessMeansReady == main = "nil" => \A d \in Domains : session[d] = "ready"

\* The same when the caller did not cancel meanwhile.  (When it did, a Canceled result
\* followed by nil makes StartSessions return nil with a session missing:
\* dispatcher.go:148 keeps the last result only.)
SuccessUnlessCanceled == context # "canceled" => SuccessMeansReady

(***************************************************************************)
(* An error hides no worse one: "we don't want to return the Canceled      *)
(* error if ErrProtocolNotSupported is present" (dispatcher.go:149), and   *)
(* StartSessions returns before all goroutines have only for an error that *)
(* is not the consequence of its own return.                               *)
(***************************************************************************)
FaultNotMasked ==
  /\ main = "canceled" => \A d \in Domains : result[d] \in {"nil", "canceled"}
  /\ main \in {"nil", "canceled"} => collected = Domains

(***************************************************************************)
(* Both at once, and what becomes of the call afterwards: StartSessions    *)
(* implements SessionStart.  Its answer is final and somebody's own: a     *)
(* timeout only when the caller's context expired, an error only when a    *)
(* domain failed with it; and no session that was ready is taken back.     *)
(***************************************************************************)
ReadyDomains == {d \in Domains : session[d] = "ready"}
Failures == {<<d, result[d]>> : d \in {e \in Domains : result[e] \in Errors}}
told == IF main = "collecting" THEN "pending" ELSE main

Start == INSTANCE SessionStart WITH ready <- ReadyDomains, failed <- Failures
ImplementsSessionStart == Start!Spec

(***************************************************************************)
(* A goroutine's handlers are gone when it stops waiting for a reply, so   *)
(* late replies to earlier attempts find none.                             *)
(***************************************************************************)
HandlersFreed ==
  handlers = {Current(d) : d \in {e \in Domains : pc[e] \in {"sending"} \cup Waiting}}

(***************************************************************************)
(* StartSessions returns when its context ends, however its goroutines are *)
(* placed.                                                                 *)
(***************************************************************************)
StartSessionsReturns == context # "live" ~> main # "collecting"

(***************************************************************************)
(* A goroutine whose session becomes ready leaves its wait, whichever      *)
(* attempt the session info answered and whether or not the reply itself   *)
(* was delivered.                                                          *)
(***************************************************************************)
ReadyIsSeen ==
  \A d \in Domains : (session[d] = "ready" /\ pc[d] \in Waiting) ~> pc[d] \in {"report", "done"}
=============================================================================
