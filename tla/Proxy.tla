-------------------------------- MODULE Proxy --------------------------------
(***************************************************************************)
(* What becomes of a vehicle command that the HTTP proxy receives          *)
(* (pkg/proxy/proxy.go ServeHTTP, handleVehicleCommand, forwardRequest):   *)
(* it is signed and sent over a session with the vehicle while its VIN is  *)
(* locked, or forwarded unchanged to the REST API, with the lock           *)
(* (the vehicle does not speak the protocol) or without it (the command    *)
(* has no signed form, or the VIN is known not to speak the protocol).     *)
(* Sessions outlive requests in the cache of pkg/cache/cache.go.           *)
(*                                                                         *)
(* The lock is VinLock's: every step either is one of its actions or       *)
(* leaves its variables alone.  Which regional server a request is sent to *)
(* first (domainForSubject) is left out.                                   *)
(***************************************************************************)
EXTENDS VinLock, Naturals, FiniteSets

CONSTANTS
  kinds,        \* the kinds of command each request may carry
  MaxEntries,   \* SessionCache.MaxEntries; 0 for no limit
  MaxAttempts,  \* how often forwardRequest tries
  maxSigned,    \* bound: how often each request's command is signed
  MaxSaves      \* bound: how often sessions of vehicles outside the model are saved

(***************************************************************************)
(* "invalid": refused before a vehicle is loaded (method, parameters,      *)
(* unknown or not implemented); "rest": the command has no signed form;    *)
(* "wake": wake_up, which needs no session; "signed": all others.          *)
(***************************************************************************)
Kinds == {"invalid", "rest", "wake", "signed"}

ASSUME ProxyAssumption ==
  /\ kinds \in [Requests -> SUBSET Kinds]
  /\ MaxEntries \in Nat /\ MaxAttempts \in Nat \ {0} /\ MaxSaves \in Nat
  /\ maxSigned \in [Requests -> Nat]

VARIABLES
  kind,         \* the kind of command each request carries
  at,           \* where each request's handler is
  result,       \* what handleVehicleCommand returns, if it is one of two errors
  attempts,     \* how often forwardRequest has been redirected
  answers,      \* how many answers were written to each request
  ways,         \* how each request's command was sent towards the vehicle
  unsupported,  \* Proxy.unsupported
  session,      \* the session each request's Vehicle holds
  saved,        \* what Cache has exported for each request
  cache,        \* Proxy.sessions
  infos,        \* how many times each vehicle's session was set up or resynchronised
  saves,        \* how many times sessions were exported: the clock behind CreatedAt
  tries,        \* how often each request's command was signed
  last          \* history: the session as of the latest signature for each vehicle

handlerVars == <<kind, at, result, attempts, answers, ways, unsupported>>
sessionVars == <<session, saved, cache, infos, saves, tries, last>>
proxyVars == <<vars, handlerVars, sessionVars>>

\* A session: the session info it rests on, the counter last used and, cached, its age.
NoSession == [info |-> 0, counter |-> 0, createdAt |-> 0]

ProxyInit ==
  /\ Init
  /\ kind \in {f \in [Requests -> Kinds] : \A r \in Requests : f[r] \in kinds[r]}
  /\ at = [r \in Requests |-> "new"]
  /\ result = [r \in Requests |-> "none"]
  /\ attempts = [r \in Requests |-> 0]
  /\ answers = [r \in Requests |-> 0]
  /\ ways = [r \in Requests |-> {}]
  /\ unsupported = {}
  /\ session = [r \in Requests |-> NoSession]
  /\ saved = [r \in Requests |-> NoSession]
  /\ cache = [v \in Vins |-> NoSession]
  /\ infos = [v \in Vins |-> 0] /\ saves = 0
  /\ tries = [r \in Requests |-> 0]
  /\ last = [v \in Vins |-> NoSession]

Move(r, from, to) == at[r] = from /\ at' = [at EXCEPT ![r] = to]

Answer(r, from, to) == Move(r, from, to) /\ answers' = [answers EXCEPT ![r] = @ + 1]

Send(r, way) == ways' = [ways EXCEPT ![r] = @ \cup {way}]
-----------------------------------------------------------------------------
(* Locking and unlocking.                                                   *)

\* ServeHTTP: a VIN known not to speak the protocol is not locked.
Receive(r) ==
  /\ IF vinOf[r] \in unsupported
       THEN Move(r, "new", "forward") /\ UNCHANGED vars
       ELSE Move(r, "new", "lock") /\ Arrive(r)
  /\ UNCHANGED <<kind, result, attempts, answers, ways, unsupported, sessionVars>>

Wait(r) == at[r] = "lock" /\ (Queue(r) \/ Wake(r)) /\ UNCHANGED <<handlerVars, sessionVars>>

Enter(r) ==
  /\ Claim(r)
  /\ Move(r, "lock", "load")
  /\ UNCHANGED <<kind, result, attempts, answers, ways, unsupported, sessionVars>>

\* The context ends before the lock is free.
Abandon(r) ==
  /\ GiveUp(r)
  /\ Answer(r, "lock", "done")
  /\ UNCHANGED <<kind, result, attempts, ways, unsupported, sessionVars>>

Release(r) ==
  /\ at[r] = "release"
  /\ Unlock(r) \/ Delete(r)
  /\ UNCHANGED <<handlerVars, sessionVars>>

\* Mutated form of FallsBack: an unsupported vehicle falls back here as well.
FallsBackTwice(r) == result[r] \in {"useREST", "unsupported"}

FallsBack(r) == result[r] = "useREST"

\* unlockVIN ends, and with it handleVehicleCommand: its Vehicle is gone, and
\* ServeHTTP looks at the error.
Leave(r) ==
  /\ Close(r)
  /\ Move(r, "release", IF FallsBack(r) THEN "forward" ELSE "done")
  /\ session' = [session EXCEPT ![r] = NoSession]
  /\ tries' = [tries EXCEPT ![r] = 0]
  /\ result' = [result EXCEPT ![r] = "none"]
  /\ UNCHANGED <<kind, attempts, answers, ways, unsupported, saved, cache, infos, saves, last>>
-----------------------------------------------------------------------------
(* handleVehicleCommand, with the lock held.                                *)

\* loadVehicleAndCommandFromRequest finds that it cannot sign this command.
Extract(r) ==
  /\ \/ kind[r] = "invalid" /\ Answer(r, "load", "release") /\ UNCHANGED result
     \/ /\ kind[r] = "rest"
        /\ Move(r, "load", "release")
        /\ result' = [result EXCEPT ![r] = "useREST"]
        /\ UNCHANGED answers
  /\ UNCHANGED <<vars, kind, attempts, ways, unsupported, sessionVars>>

\* NewVehicle takes the session from the cache, and the connection opens.
Load(r) ==
  /\ kind[r] \in {"wake", "signed"}
  /\ Move(r, "load", IF kind[r] = "wake" THEN "wake" ELSE "session")
  /\ session' = [session EXCEPT ![r] = cache[vinOf[r]]]
  /\ UNCHANGED <<vars, kind, result, attempts, answers, ways, unsupported,
                 saved, cache, infos, saves, tries, last>>

\* The vehicle cannot be loaded or connected to; StartSession fails.
LoadFails(r) ==
  /\ \/ kind[r] \in {"wake", "signed"} /\ Answer(r, "load", "release")
     \/ session[r] = NoSession /\ Answer(r, "session", "release")
  /\ UNCHANGED <<vars, kind, result, attempts, ways, unsupported, sessionVars>>

\* Session info from the vehicle: a session like none before.  (SecureChannel has the
\* counters and epochs it carries, and what becomes of late ones.)
SetUp(r) ==
  /\ infos' = [infos EXCEPT ![vinOf[r]] = @ + 1]
  /\ session' = [session EXCEPT ![r] = [NoSession EXCEPT !.info = infos'[vinOf[r]]]]

\* StartSession: a session from the cache is ready, another takes a handshake.
StartSession(r) ==
  /\ Move(r, "session", "execute")
  /\ IF session[r] # NoSession
       THEN UNCHANGED <<session, infos>>
       ELSE vinOf[r] \notin unsupported /\ SetUp(r)
  /\ UNCHANGED <<vars, kind, result, attempts, answers, ways, unsupported,
                 saved, cache, saves, tries, last>>

\* ErrProtocolNotSupported: the request is forwarded before the lock is released.
\* (A vehicle either speaks the protocol or it does not.)
NotSupported(r) ==
  /\ session[r] = NoSession /\ infos[vinOf[r]] = 0
  /\ Move(r, "session", "forward")
  /\ result' = [result EXCEPT ![r] = "unsupported"]
  /\ unsupported' = unsupported \cup {vinOf[r]}
  /\ UNCHANGED <<vars, kind, attempts, answers, ways, sessionVars>>

Used(s) == [s EXCEPT !.counter = @ + 1]

\* The command is signed with the next counter and sent; Vehicle.Send does so again
\* when the vehicle refuses it for now.
Sign(r) ==
  /\ at[r] = "execute" /\ tries[r] < maxSigned[r]
  /\ tries' = [tries EXCEPT ![r] = @ + 1]
  /\ session' = [session EXCEPT ![r] = Used(@)]
  /\ last' = [last EXCEPT ![vinOf[r]] = session'[r]]
  /\ Send(r, "session")
  /\ UNCHANGED <<vars, kind, at, result, attempts, answers, unsupported,
                 saved, cache, infos, saves>>

\* A refusal carries session info that the dispatcher takes in.
Refresh(r) ==
  /\ at[r] = "execute" /\ tries[r] \in 1 .. maxSigned[r] - 1 /\ session[r].counter > 0
  /\ SetUp(r)
  /\ UNCHANGED <<vars, handlerVars, saved, cache, saves, tries, last>>

\* Execute returns: the command succeeded, failed or ran out of time, perhaps unsent.
Executed(r) ==
  /\ Answer(r, "execute", "save")
  /\ UNCHANGED <<vars, kind, result, attempts, ways, unsupported, sessionVars>>

\* wake_up is a REST call of its own.
WakeUp(r) ==
  /\ Answer(r, "wake", "release")
  /\ Send(r, "wake_up")
  /\ UNCHANGED <<vars, kind, result, attempts, unsupported, sessionVars>>
-----------------------------------------------------------------------------
(* The deferred UpdateCachedSessions.                                       *)

\* Mutated form of Export: the lock is released before the sessions are saved.
ExportUnlocked(r) ==
  /\ Move(r, "save", "store")
  /\ pc' = [pc EXCEPT ![r] = "close"]
  /\ vinLock' = [vinLock EXCEPT ![vinOf[r]] = None]
  /\ waitOn' = [waitOn EXCEPT ![r] = r]
  /\ saves' = saves + 1
  /\ saved' = [saved EXCEPT ![r] = [session[r] EXCEPT !.createdAt = saves']]
  /\ UNCHANGED <<closed, kind, result, attempts, answers, ways, unsupported,
                 session, cache, infos, tries, last>>

\* Dispatcher.Cache exports the sessions and notes the time.
Export(r) ==
  /\ Move(r, "save", "store")
  /\ saves' = saves + 1
  /\ saved' = [saved EXCEPT ![r] = [session[r] EXCEPT !.createdAt = saves']]
  /\ UNCHANGED <<vars, kind, result, attempts, answers, ways, unsupported,
                 session, cache, infos, tries, last>>

\* SessionCache.Update's eviction: one entry too many, and the one exported first goes.
Oldest(c, v) ==
  c[v] # NoSession /\ \A u \in Vins : c[u] # NoSession => c[v].createdAt <= c[u].createdAt

Trimmed(c) ==
  IF MaxEntries > 0 /\ Cardinality({v \in Vins : c[v] # NoSession}) > MaxEntries
    THEN [v \in Vins |-> IF Oldest(c, v) THEN NoSession ELSE c[v]]
    ELSE c

Store(r) ==
  /\ Move(r, "store", "release")
  /\ cache' = Trimmed([cache EXCEPT ![vinOf[r]] = saved[r]])
  /\ saved' = [saved EXCEPT ![r] = NoSession]
  /\ UNCHANGED <<vars, kind, result, attempts, answers, ways, unsupported,
                 session, infos, saves, tries, last>>

\* A request for a vehicle that no request of the model is for saves its sessions.
OtherSaved(v) ==
  /\ \A r \in Requests : vinOf[r] # v
  /\ saves < MaxSaves
  /\ saves' = saves + 1
  /\ cache' = Trimmed([cache EXCEPT ![v] = [info |-> 1, counter |-> 1, createdAt |-> saves']])
  /\ UNCHANGED <<vars, handlerVars, session, saved, infos, tries, last>>
-----------------------------------------------------------------------------
(* forwardRequest; what follows depends on whether the lock is held.        *)

\* The answer of forwardRequest: the lock is released next, if it is held.
Relay(r) ==
  /\ \E from \in {"forward", "pause"} :
       Answer(r, from, IF pc[r] = "held" THEN "release" ELSE "done")
  /\ attempts' = [attempts EXCEPT ![r] = 0]

\* The server answers, or the exchange fails (502, 504).
Forwarded(r) ==
  /\ at[r] = "forward"
  /\ Relay(r)
  /\ Send(r, "REST")
  /\ UNCHANGED <<vars, kind, result, unsupported, sessionVars>>

\* 421 with the name of the right server: the next attempt goes there.
Redirected(r) ==
  /\ attempts[r] + 1 < MaxAttempts
  /\ Move(r, "forward", "pause")
  /\ attempts' = [attempts EXCEPT ![r] = @ + 1]
  /\ UNCHANGED <<vars, kind, result, answers, ways, unsupported, sessionVars>>

\* The request was redirected too often, or in a way that cannot be followed;
\* or its context ends in the pause.
ForwardFails(r) == Relay(r) /\ UNCHANGED <<vars, kind, result, ways, unsupported, sessionVars>>

\* A second passes.
Resume(r) ==
  /\ Move(r, "pause", "forward")
  /\ UNCHANGED <<vars, kind, result, attempts, answers, ways, unsupported, sessionVars>>
-----------------------------------------------------------------------------
HandlerStep(r) ==
  \/ Wait(r) \/ Enter(r) \/ Release(r) \/ Leave(r)
  \/ Extract(r) \/ Load(r) \/ LoadFails(r)
  \/ StartSession(r) \/ NotSupported(r) \/ Sign(r) \/ Refresh(r) \/ Executed(r) \/ WakeUp(r)
  \/ Export(r) \/ Store(r)
  \/ Forwarded(r) \/ Redirected(r) \/ ForwardFails(r) \/ Resume(r)

ProxyNext ==
  \/ \E r \in Requests : Receive(r) \/ HandlerStep(r) \/ Abandon(r)
  \/ \E v \in Vins : OtherSaved(v)

(***************************************************************************)
(* Every handler that can run does, because every wait in it ends with a   *)
(* context of its own.  Nothing forces a request to come, or the context   *)
(* of one that waits for the lock to end.                                  *)
(***************************************************************************)
ProxySpec == ProxyInit /\ [][ProxyNext]_proxyVars /\ \A r \in Requests : WF_proxyVars(HandlerStep(r))
-----------------------------------------------------------------------------
(***************************************************************************)
(* Whatever path a request takes (refused, signed, forwarded with the lock *)
(* or after it, redirected, timed out), exactly one answer is written to   *)
(* it, and its command reaches the vehicle by one way at most: a command   *)
(* that was sent over a session is never forwarded as well.                *)
(***************************************************************************)
AnsweredOnce ==
  \A r \in Requests :
    /\ answers[r] <= 1
    /\ at[r] = "done" => answers[r] = 1
    /\ Cardinality(ways[r]) <= 1

\* Of two signatures, the one made with newer session info or a higher counter.
Newer(x, y) == x.info > y.info \/ (x.info = y.info /\ x.counter > y.counter)

(***************************************************************************)
(* "VCSEC commands fail if they arrive out of order" (proxy.go:450): the   *)
(* commands for one vehicle are signed in order.  No request ever signs    *)
(* with a counter that another has used, although each works on a copy of  *)
(* the cached session, entries are evicted, and sessions are saved one     *)
(* after the other and with the ages they had when exported.               *)
(***************************************************************************)
SignedInOrder ==
  [][\A r \in Requests :
       tries'[r] > tries[r] => Newer(session'[r], last[vinOf[r]])]_proxyVars

(***************************************************************************)
(* In the end every request that was received is answered and its handler  *)
(* done, although it may have to wait for a lock whose holder is busy with *)
(* the forwarding of another request.                                      *)
(***************************************************************************)
EveryoneAnswered == <>[](\A r \in Requests : at[r] \in {"new", "done"})
=============================================================================
