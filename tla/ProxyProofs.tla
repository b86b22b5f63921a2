----------------------------- MODULE ProxyProofs -----------------------------
(***************************************************************************)
(* Theorems about the proxy, for any number of requests, of vehicles and   *)
(* of entries in the cache: first about the lock alone, as VinLock         *)
(* specifies it, then about what handlers do under it.  What holds of the  *)
(* lock holds of the proxy, because the proxy implements VinLock's safety  *)
(* specification: the locking of every request is VinLock's.               *)
(***************************************************************************)
EXTENDS Proxy, FiniteSetTheorems, TLAPS

-----------------------------------------------------------------------------
(* The lock alone.                                                          *)

(***************************************************************************)
(* A request that is unlocking has loaded its own channel.  Together with  *)
(* MapBounded this makes the other invariants inductive.                   *)
(***************************************************************************)
LoadedOwn == \A r \in Requests : pc[r] \in {"delete", "close"} => waitOn[r] = r

IInv == TypeOK /\ MapBounded /\ OneHolder /\ LoadedOwn /\ NoLostWakeup

LEMMA InitIInv == Init => IInv
BY VinLockAssumption
   DEF Init, IInv, TypeOK, Locations, MapBounded, OneHolder, LoadedOwn, NoLostWakeup, Owns

LEMMA StepIInv == IInv /\ [Next]_vars => IInv'
<1> SUFFICES ASSUME IInv, [Next]_vars PROVE IInv'
  OBVIOUS
<1> USE VinLockAssumption DEF IInv
<1>1. ASSUME NEW r \in Requests, Arrive(r) PROVE IInv'
  BY <1>1 DEF Arrive, Goto, TypeOK, Locations, MapBounded, OneHolder, LoadedOwn, NoLostWakeup, Owns
<1>2. ASSUME NEW r \in Requests, Claim(r) PROVE IInv'
  <2>1. TypeOK'
    BY <1>2 DEF Claim, Goto, TypeOK, Locations
  <2>2. MapBounded'
    BY <1>2 DEF Claim, Goto, TypeOK, MapBounded, Owns
  <2>3. OneHolder'
    BY <1>2 DEF Claim, Goto, TypeOK, MapBounded, OneHolder, Owns
  <2>4. LoadedOwn' /\ NoLostWakeup'
    BY <1>2 DEF Claim, Goto, TypeOK, LoadedOwn, NoLostWakeup
  <2> QED BY <2>1, <2>2, <2>3, <2>4
<1>3. ASSUME NEW r \in Requests, Queue(r) PROVE IInv'
  <2>1. TypeOK' /\ MapBounded' /\ OneHolder' /\ LoadedOwn'
    BY <1>3 DEF Queue, Goto, TypeOK, Locations, MapBounded, OneHolder, LoadedOwn, Owns
  <2>2. vinLock[vinOf[r]] \in Requests /\ pc[vinLock[vinOf[r]]] \in {"held", "delete"}
    BY <1>3 DEF Queue, TypeOK, MapBounded, Owns
  <2>3. NoLostWakeup'
    BY <1>3, <2>2 DEF Queue, Goto, TypeOK, NoLostWakeup
  <2> QED BY <2>1, <2>3
<1>4. ASSUME NEW r \in Requests, Wake(r) PROVE IInv'
  BY <1>4 DEF Wake, Goto, TypeOK, Locations, MapBounded, OneHolder, LoadedOwn, NoLostWakeup, Owns
<1>5. ASSUME NEW r \in Requests, GiveUp(r) PROVE IInv'
  BY <1>5 DEF GiveUp, Goto, TypeOK, Locations, MapBounded, OneHolder, LoadedOwn, NoLostWakeup, Owns
<1>6. ASSUME NEW r \in Requests, Unlock(r) PROVE IInv'
  <2>1. vinLock[vinOf[r]] = r /\ r # None
    BY <1>6 DEF Unlock, Goto, MapBounded, Owns
  <2>2. /\ pc[r] = "held" /\ pc' = [pc EXCEPT ![r] = "delete"]
        /\ waitOn' = [waitOn EXCEPT ![r] = r]
        /\ UNCHANGED <<vinLock, closed>>
    BY <1>6, <2>1 DEF Unlock, Goto
  <2>3. TypeOK' /\ MapBounded' /\ OneHolder'
    BY <2>2 DEF TypeOK, Locations, MapBounded, OneHolder, Owns
  <2>4. LoadedOwn' /\ NoLostWakeup'
    BY <2>2 DEF TypeOK, LoadedOwn, NoLostWakeup
  <2> QED BY <2>3, <2>4
<1>7. ASSUME NEW r \in Requests, Delete(r) PROVE IInv'
  <2>1. TypeOK' /\ LoadedOwn' /\ NoLostWakeup'
    BY <1>7 DEF Delete, Goto, TypeOK, Locations, LoadedOwn, NoLostWakeup
  <2>2. MapBounded' /\ OneHolder'
    BY <1>7 DEF Delete, Goto, TypeOK, MapBounded, OneHolder, Owns
  <2> QED BY <2>1, <2>2
<1>8. ASSUME NEW r \in Requests, Close(r) PROVE IInv'
  <2>1. waitOn[r] = r
    BY <1>8 DEF Close, Goto, LoadedOwn
  <2>2. TypeOK' /\ MapBounded' /\ OneHolder' /\ LoadedOwn'
    BY <1>8, <2>1 DEF Close, Goto, TypeOK, Locations, MapBounded, OneHolder, LoadedOwn, Owns
  <2>3. NoLostWakeup'
    BY <1>8, <2>1 DEF Close, Goto, TypeOK, NoLostWakeup
  <2> QED BY <2>2, <2>3
<1>9. CASE UNCHANGED vars
  BY <1>9 DEF vars, TypeOK, MapBounded, OneHolder, LoadedOwn, NoLostWakeup, Owns
<1> QED BY <1>1, <1>2, <1>3, <1>4, <1>5, <1>6, <1>7, <1>8, <1>9 DEF Next, Step

LEMMA Invariance == Spec => []IInv
BY InitIInv, StepIInv, PTL DEF Spec

(* Any number of requests for any number of vehicles: no two of them ever   *)
(* hold the lock of one vehicle, and unlockVIN never panics.                *)
THEOREM MutualExclusion == Spec => []OneHolder
<1>1. IInv => OneHolder
  BY DEF IInv
<1> QED BY <1>1, Invariance, PTL

(* The map has an entry for exactly the vehicles whose lock is owned.       *)
THEOREM MapExact == Spec => []MapBounded
<1>1. IInv => MapBounded
  BY DEF IInv
<1> QED BY <1>1, Invariance, PTL

(* No request waits on a channel that nobody will close.                    *)
THEOREM WakeupsKept == Spec => []NoLostWakeup
<1>1. IInv => NoLostWakeup
  BY DEF IInv
<1> QED BY <1>1, Invariance, PTL
-----------------------------------------------------------------------------
(* The proxy implements the lock.                                           *)

LockSpec == Init /\ [][Next]_vars

LEMMA LockStep == [ProxyNext]_proxyVars => [Next]_vars
<1> SUFFICES ASSUME [ProxyNext]_proxyVars PROVE [Next]_vars
  OBVIOUS
<1>1. ASSUME NEW r \in Requests, Receive(r) PROVE Arrive(r) \/ UNCHANGED vars
  BY <1>1 DEF Receive
<1>2. ASSUME NEW r \in Requests, HandlerStep(r) PROVE Step(r) \/ UNCHANGED vars
  <2>1. CASE Wait(r) \/ Enter(r) \/ Release(r) \/ Leave(r)
    BY <2>1 DEF Wait, Enter, Release, Leave, Step
  <2>2. CASE Extract(r) \/ Load(r) \/ LoadFails(r) \/ StartSession(r) \/ NotSupported(r)
    BY <2>2 DEF Extract, Load, LoadFails, StartSession, NotSupported
  <2>3. CASE Sign(r) \/ Refresh(r) \/ Executed(r) \/ WakeUp(r) \/ Export(r) \/ Store(r)
    BY <2>3 DEF Sign, Refresh, Executed, WakeUp, Export, Store
  <2>4. CASE Forwarded(r) \/ Redirected(r) \/ ForwardFails(r) \/ Resume(r)
    BY <2>4 DEF Forwarded, Redirected, ForwardFails, Resume
  <2> QED BY <1>2, <2>1, <2>2, <2>3, <2>4 DEF HandlerStep
<1>3. ASSUME NEW r \in Requests, Abandon(r) PROVE GiveUp(r)
  BY <1>3 DEF Abandon
<1>4. ASSUME NEW v \in Vins, OtherSaved(v) PROVE UNCHANGED vars
  BY <1>4 DEF OtherSaved
<1>5. CASE UNCHANGED proxyVars
  BY <1>5 DEF proxyVars
<1> QED BY <1>1, <1>2, <1>3, <1>4, <1>5 DEF ProxyNext, Next

(* The locking of the requests that the proxy handles is an execution of    *)
(* VinLock: no handler ever touches the lock in another way.                *)
THEOREM ProxyImplementsLock == ProxySpec => LockSpec
<1>1. ProxyInit => Init
  BY DEF ProxyInit
<1> QED BY <1>1, LockStep, PTL DEF ProxySpec, LockSpec

LEMMA LockInvariance == ProxySpec => []IInv
<1>1. ProxyInit => IInv
  BY InitIInv DEF ProxyInit
<1>2. IInv /\ [ProxyNext]_proxyVars => IInv'
  BY LockStep, StepIInv
<1> QED BY <1>1, <1>2, PTL DEF ProxySpec

(* In the proxy, too, two handlers never hold the lock of one vehicle at    *)
(* once, the map is exact, and whoever waits will be woken.                 *)
THEOREM ProxyLocks == ProxySpec => [](OneHolder /\ MapBounded /\ NoLostWakeup)
<1>1. IInv => OneHolder /\ MapBounded /\ NoLostWakeup
  BY DEF IInv
<1> QED BY <1>1, LockInvariance, PTL
-----------------------------------------------------------------------------
(* Answers.                                                                 *)

Stages == {"new", "lock", "load", "session", "execute", "save", "store", "wake",
           "forward", "pause", "release", "done"}
Ways == {"session", "wake_up", "REST"}
Results == {"none", "useREST", "unsupported"}

AnswerTypeOK ==
  /\ at \in [Requests -> Stages]
  /\ result \in [Requests -> Results]
  /\ answers \in [Requests -> Nat]
  /\ ways \in [Requests -> SUBSET Ways]

\* A request that waits for handleVehicleCommand to return, to be forwarded then.
ToForward(r) == at[r] = "release" /\ result[r] = "useREST"
Answered(r) == at[r] \in {"save", "store", "done"} \/ (at[r] = "release" /\ ~ToForward(r))

(***************************************************************************)
(* A request has been answered when its handler has the deferred calls     *)
(* left at most, unless it is to be forwarded; a command that was sent     *)
(* some way is not in a stage from which it could be sent another.         *)
(***************************************************************************)
AnswerInv ==
  /\ AnswerTypeOK
  /\ \A r \in Requests :
       /\ answers[r] = IF Answered(r) THEN 1 ELSE 0
       /\ result[r] = "useREST" => at[r] = "release"
       /\ IF at[r] \in {"execute", "save", "store"}
            THEN ways[r] \subseteq {"session"}
            ELSE IF Answered(r) THEN \E way \in Ways : ways[r] \subseteq {way}
                 ELSE ways[r] = {}

LEMMA InitAnswerInv == ProxyInit => AnswerInv
BY DEF ProxyInit, AnswerInv, AnswerTypeOK, Stages, Ways, Results, Answered, ToForward

LEMMA StepAnswerInv == AnswerInv /\ [ProxyNext]_proxyVars => AnswerInv'
<1> SUFFICES ASSUME AnswerInv, [ProxyNext]_proxyVars PROVE AnswerInv'
  OBVIOUS
<1> USE DEF AnswerInv, AnswerTypeOK, Stages, Ways, Results, Answered, ToForward, Move, handlerVars
<1>1. ASSUME NEW r \in Requests, Receive(r) PROVE AnswerInv'
  BY <1>1 DEF Receive
<1>2. ASSUME NEW r \in Requests, Wait(r) \/ Release(r) \/ Refresh(r) PROVE AnswerInv'
  BY <1>2 DEF Wait, Release, Refresh
<1>3. ASSUME NEW r \in Requests, Enter(r) \/ Abandon(r) PROVE AnswerInv'
  BY <1>3 DEF Enter, Abandon, Answer
<1>4. ASSUME NEW r \in Requests, Leave(r) PROVE AnswerInv'
  BY <1>4 DEF Leave, FallsBack
<1>5. ASSUME NEW r \in Requests, Extract(r) PROVE AnswerInv'
  BY <1>5 DEF Extract, Answer
<1>6. ASSUME NEW r \in Requests, Load(r) \/ LoadFails(r) PROVE AnswerInv'
  BY <1>6 DEF Load, LoadFails, Answer
<1>7. ASSUME NEW r \in Requests, StartSession(r) \/ NotSupported(r) PROVE AnswerInv'
  BY <1>7 DEF StartSession, NotSupported
<1>8. ASSUME NEW r \in Requests, Sign(r) PROVE AnswerInv'
  BY <1>8 DEF Sign, Send
<1>9. ASSUME NEW r \in Requests, Executed(r) \/ WakeUp(r) PROVE AnswerInv'
  BY <1>9 DEF Executed, WakeUp, Answer, Send
<1>10. ASSUME NEW r \in Requests, Export(r) \/ Store(r) PROVE AnswerInv'
  BY <1>10 DEF Export, Store
<1>11. ASSUME NEW r \in Requests, Forwarded(r) \/ ForwardFails(r) PROVE AnswerInv'
  BY <1>11 DEF Forwarded, ForwardFails, Relay, Answer, Send
<1>12. ASSUME NEW r \in Requests, Redirected(r) \/ Resume(r) PROVE AnswerInv'
  BY <1>12 DEF Redirected, Resume
<1>13. ASSUME NEW v \in Vins, OtherSaved(v) PROVE AnswerInv'
  BY <1>13 DEF OtherSaved
<1>14. CASE UNCHANGED proxyVars
  BY <1>14 DEF proxyVars
<1> QED
  BY <1>1, <1>2, <1>3, <1>4, <1>5, <1>6, <1>7, <1>8, <1>9, <1>10, <1>11, <1>12, <1>13, <1>14
     DEF ProxyNext, HandlerStep

(* However many requests, redirections and retries: each request is         *)
(* answered exactly once, and its command is sent by one way at most.       *)
THEOREM OneAnswer == ProxySpec => []AnsweredOnce
<1>1. AnswerInv => AnsweredOnce
  <2> SUFFICES ASSUME AnswerInv, NEW r \in Requests
               PROVE /\ answers[r] <= 1
                     /\ at[r] = "done" => answers[r] = 1
                     /\ Cardinality(ways[r]) <= 1
    BY DEF AnsweredOnce
  <2>1. answers[r] <= 1 /\ (at[r] = "done" => answers[r] = 1)
    BY DEF AnswerInv, Answered, ToForward
  <2>2. PICK way : ways[r] \subseteq {way}
    BY DEF AnswerInv, AnswerTypeOK
  <2>3. Cardinality(ways[r]) <= Cardinality({way})
    BY <2>2, FS_Singleton, FS_Subset
  <2>4. Cardinality({way}) = 1
    BY FS_Singleton
  <2>5. Cardinality(ways[r]) <= 1
    BY <2>3, <2>4
  <2> QED BY <2>1, <2>5
<1> QED BY <1>1, InitAnswerInv, StepAnswerInv, PTL DEF ProxySpec
-----------------------------------------------------------------------------
(* Signatures.                                                              *)

Sessions == [info : Nat, counter : Nat, createdAt : Nat]

SessionTypeOK ==
  /\ session \in [Requests -> Sessions]
  /\ saved \in [Requests -> Sessions]
  /\ cache \in [Vins -> Sessions]
  /\ last \in [Vins -> Sessions]
  /\ infos \in [Vins -> Nat]
  /\ saves \in Nat
  /\ tries \in [Requests -> Nat]

\* What is signed with x next is newer than y.
UpToDate(x, y) == x.info > y.info \/ (x.info = y.info /\ x.counter >= y.counter)

Working(r) == at[r] \in {"load", "session", "wake", "execute", "save", "store"}

\* r holds the current session of its vehicle, or what it has exported of it.
Carries(r) == at[r] \in {"execute", "save", "store"}

Current(x, v) == UpToDate(x, last[v]) /\ x.info <= infos[v]

(***************************************************************************)
(* Wherever a session is from which a command may still be signed, it is   *)
(* up to date: with the request that holds the lock, with what that        *)
(* request has exported, and, while no request carries it, in the cache.   *)
(* A cached session may only be out of date while its vehicle is locked.   *)
(***************************************************************************)
SessionInv ==
  /\ SessionTypeOK
  /\ at \in [Requests -> Stages]
  /\ \A r \in Requests : Working(r) => pc[r] = "held"
  /\ \A v \in Vins : last[v].info <= infos[v]
  /\ \A r \in Requests :
       /\ at[r] \in {"execute", "save"} => Current(session[r], vinOf[r])
       /\ at[r] = "session" /\ session[r] # NoSession => Current(session[r], vinOf[r])
       /\ at[r] = "store" => Current(saved[r], vinOf[r])
  /\ \A r \in Requests :
       LET v == vinOf[r] IN
       cache[v] # NoSession =>
         Current(cache[v], v) \/ \E s \in Requests : vinOf[s] = v /\ Carries(s)

LEMMA TrimmedType ==
  ASSUME NEW c \in [Vins -> Sessions]
  PROVE  /\ Trimmed(c) \in [Vins -> Sessions]
         /\ \A v \in Vins : Trimmed(c)[v] \in {c[v], NoSession}
<1>1. NoSession \in Sessions
  BY DEF NoSession, Sessions
<1> QED BY <1>1 DEF Trimmed

LEMMA UsedIsNewer ==
  ASSUME NEW s \in Sessions
  PROVE  /\ Used(s) \in Sessions
         /\ Used(s).info = s.info /\ Used(s).counter = s.counter + 1
BY DEF Used, Sessions

(* Fresh session info makes a request's session newer than every signature. *)
LEMMA SetUpFresh ==
  ASSUME SessionInv, NEW r \in Requests, SetUp(r), saved' = saved, cache' = cache,
         saves' = saves, tries' = tries, last' = last
  PROVE  /\ SessionTypeOK'
         /\ Current(session[r], vinOf[r])'
         /\ last'[vinOf[r]].info <= infos'[vinOf[r]]
         /\ \A s \in Requests \ {r} : session'[s] = session[s]
         /\ \A u \in Vins \ {vinOf[r]} : infos'[u] = infos[u]
<1> USE VinLockAssumption DEF SessionInv, SessionTypeOK
<1>1. infos' = [infos EXCEPT ![vinOf[r]] = @ + 1]
  BY DEF SetUp
<1> DEFINE fresh == [NoSession EXCEPT !.info = infos[vinOf[r]] + 1]
<1>2. session' = [session EXCEPT ![r] = fresh]
  BY <1>1 DEF SetUp
<1>3. fresh \in Sessions /\ fresh.info = infos[vinOf[r]] + 1
  BY DEF NoSession, Sessions
<1> HIDE DEF fresh
<1>4. SessionTypeOK'
  BY <1>1, <1>2, <1>3
<1>5. last[vinOf[r]].info <= infos[vinOf[r]] /\ last[vinOf[r]].info \in Nat
  BY DEF Sessions
<1>6. Current(session[r], vinOf[r])' /\ last'[vinOf[r]].info <= infos'[vinOf[r]]
  BY <1>1, <1>2, <1>3, <1>5 DEF Current, UpToDate
<1> QED BY <1>1, <1>2, <1>4, <1>6

LEMMA OneWorker ==
  ASSUME IInv, SessionInv, NEW r \in Requests, NEW s \in Requests,
         Working(r), Working(s), vinOf[r] = vinOf[s]
  PROVE  r = s
BY DEF IInv, OneHolder, Owns, SessionInv

LEMMA InitSessionInv == ProxyInit => SessionInv
BY VinLockAssumption
   DEF ProxyInit, SessionInv, SessionTypeOK, Sessions, NoSession, Stages, Working, Carries,
       Current, UpToDate

(* A step of the request that has the lock of a vehicle disturbs nothing of *)
(* the others.                                                              *)
LEMMA WorkerStep ==
  ASSUME IInv, SessionInv, NEW r \in Requests, Working(r), pc' = pc,
         SessionTypeOK', at' \in [Requests -> Stages],
         \A s \in Requests \ {r} :
           at'[s] = at[s] /\ session'[s] = session[s] /\ saved'[s] = saved[s],
         \A u \in Vins \ {vinOf[r]} :
           infos'[u] = infos[u] /\ last'[u] = last[u] /\ cache'[u] \in {cache[u], NoSession},
         last'[vinOf[r]].info <= infos'[vinOf[r]],
         at'[r] \in {"execute", "save"} => Current(session[r], vinOf[r])',
         at'[r] = "session" /\ session'[r] # NoSession => Current(session[r], vinOf[r])',
         at'[r] = "store" => Current(saved[r], vinOf[r])',
         cache'[vinOf[r]] # NoSession => Current(cache[vinOf[r]], vinOf[r])' \/ Carries(r)'
  PROVE  SessionInv'
<1> DEFINE v == vinOf[r]
<1>1. v \in Vins /\ \A s \in Requests : vinOf[s] \in Vins
  BY VinLockAssumption
<1>2. ASSUME NEW s \in Requests, s # r, Working(s) PROVE vinOf[s] # v
  BY <1>2, OneWorker
<1>3. \A s \in Requests : Working(s)' => pc'[s] = "held"
  BY DEF SessionInv, Working
<1>4. \A u \in Vins : last'[u].info <= infos'[u]
  BY DEF SessionInv
<1>5. ASSUME NEW s \in Requests
      PROVE  /\ at'[s] \in {"execute", "save"} => Current(session[s], vinOf[s])'
             /\ at'[s] = "session" /\ session'[s] # NoSession => Current(session[s], vinOf[s])'
             /\ at'[s] = "store" => Current(saved[s], vinOf[s])'
  <2>1. CASE s = r
    BY <2>1
  <2>2. CASE s # r /\ Working(s)
    <3>1. vinOf[s] # v /\ vinOf[s] \in Vins
      BY <1>1, <1>2, <2>2
    <3>2. /\ at'[s] = at[s] /\ session'[s] = session[s] /\ saved'[s] = saved[s]
          /\ infos'[vinOf[s]] = infos[vinOf[s]] /\ last'[vinOf[s]] = last[vinOf[s]]
      BY <2>2, <3>1
    <3> QED BY <3>2 DEF SessionInv, Current, UpToDate
  <2>3. CASE s # r /\ ~Working(s)
    BY <2>3 DEF Working
  <2> QED BY <2>1, <2>2, <2>3
<1>6. ASSUME NEW s \in Requests, cache'[vinOf[s]] # NoSession
      PROVE  \/ Current(cache[vinOf[s]], vinOf[s])'
             \/ \E q \in Requests : vinOf[q] = vinOf[s] /\ Carries(q)'
  <2>1. CASE vinOf[s] = v
    BY <1>6, <2>1
  <2>2. CASE vinOf[s] # v
    <3>1. /\ infos'[vinOf[s]] = infos[vinOf[s]] /\ last'[vinOf[s]] = last[vinOf[s]]
          /\ cache'[vinOf[s]] = cache[vinOf[s]]
      BY <1>1, <1>6, <2>2
    <3>2. CASE Current(cache[vinOf[s]], vinOf[s])
      BY <3>1, <3>2 DEF Current, UpToDate
    <3>3. ASSUME NEW q \in Requests, vinOf[q] = vinOf[s], Carries(q) PROVE Carries(q)'
      BY <2>2, <3>3 DEF Carries
    <3> QED BY <1>6, <3>1, <3>2, <3>3 DEF SessionInv
  <2> QED BY <2>1, <2>2
<1> QED BY <1>3, <1>4, <1>5, <1>6 DEF SessionInv

LEMMA StepSessionInv == IInv /\ IInv' /\ SessionInv /\ [ProxyNext]_proxyVars => SessionInv'
<1> SUFFICES ASSUME IInv, IInv', SessionInv, [ProxyNext]_proxyVars PROVE SessionInv'
  OBVIOUS
<1> USE VinLockAssumption
    DEF SessionInv, SessionTypeOK, Stages, Working, Carries, Move, handlerVars, sessionVars
<1>1. ASSUME NEW r \in Requests, Receive(r) PROVE SessionInv'
  <2>1. CASE vinOf[r] \in unsupported
    BY <1>1, <2>1 DEF Receive, vars, Current, UpToDate
  <2>2. CASE vinOf[r] \notin unsupported
    <3>1. /\ at[r] = "new" /\ at' = [at EXCEPT ![r] = "lock"]
          /\ pc' = [pc EXCEPT ![r] = "try"]
          /\ UNCHANGED <<session, saved, cache, infos, saves, tries, last>>
      BY <1>1, <2>2 DEF Receive, Arrive, Goto
    <3>2. pc \in [Requests -> Locations]
      BY DEF IInv, TypeOK
    <3> QED BY <3>1, <3>2 DEF Current, UpToDate
  <2> QED BY <2>1, <2>2
<1>2. ASSUME NEW r \in Requests, Wait(r) \/ Release(r) PROVE SessionInv'
  <2>1. pc \in [Requests -> Locations]
    BY DEF IInv, TypeOK
  <2>2. CASE Wait(r)
    BY <2>1, <2>2 DEF Wait, Queue, Wake, Goto, Current, UpToDate
  <2>3. CASE Release(r)
    BY <2>1, <2>3 DEF Release, Unlock, Delete, Goto, Current, UpToDate
  <2> QED BY <1>2, <2>2, <2>3
<1>3. ASSUME NEW r \in Requests, Enter(r) PROVE SessionInv'
  BY <1>3 DEF Enter, Claim, Goto, Current, UpToDate, IInv, TypeOK
<1>4. ASSUME NEW r \in Requests, Abandon(r) PROVE SessionInv'
  BY <1>4 DEF Abandon, GiveUp, Goto, Answer, Current, UpToDate, IInv, TypeOK
<1>5. ASSUME NEW r \in Requests, Leave(r) PROVE SessionInv'
  <2>1. Close(r) /\ at[r] = "release" /\ at'[r] \in {"forward", "done"}
        /\ at' = [at EXCEPT ![r] = at'[r]]
    BY <1>5 DEF Leave
  <2>2. NoSession \in Sessions
    BY DEF NoSession, Sessions
  <2>3. SessionTypeOK'
    BY <1>5, <2>2 DEF Leave
  <2> QED BY <1>5, <2>1, <2>3 DEF Leave, Close, Goto, Current, UpToDate, IInv, TypeOK
<1>6. ASSUME NEW r \in Requests, Extract(r) \/ LoadFails(r) PROVE SessionInv'
  BY <1>6 DEF Extract, LoadFails, Answer, vars, Current, UpToDate
<1>7. ASSUME NEW r \in Requests, Load(r) PROVE SessionInv'
  <2>1. SessionTypeOK' /\ at' \in [Requests -> Stages]
    BY <1>7 DEF Load
  <2>2. ASSUME cache[vinOf[r]] # NoSession PROVE Current(cache[vinOf[r]], vinOf[r])
    <3>1. ASSUME NEW s \in Requests, vinOf[s] = vinOf[r], Carries(s) PROVE FALSE
      BY <1>7, <3>1, OneWorker DEF Load
    <3> QED BY <2>2, <3>1
  <2> QED BY <1>7, <2>1, <2>2 DEF Load, vars, Current, UpToDate
<1>8. ASSUME NEW r \in Requests, StartSession(r) PROVE SessionInv'
  <2> DEFINE v == vinOf[r]
  <2>1. CASE session[r] # NoSession
    BY <1>8, <2>1 DEF StartSession, vars, Current, UpToDate
  <2>2. CASE session[r] = NoSession
    <3>1. SetUp(r)
      BY <1>8, <2>2 DEF StartSession
    <3>2. /\ at[r] = "session" /\ at' = [at EXCEPT ![r] = "execute"]
          /\ UNCHANGED <<pc, saved, cache, saves, tries, last>>
      BY <1>8 DEF StartSession, vars
    <3>3. /\ SessionTypeOK'
          /\ Current(session[r], vinOf[r])'
          /\ last'[vinOf[r]].info <= infos'[vinOf[r]]
          /\ \A s \in Requests \ {r} : session'[s] = session[s]
          /\ \A u \in Vins \ {vinOf[r]} : infos'[u] = infos[u]
      BY <3>1, <3>2, SetUpFresh
    <3>4. at'[r] = "execute" /\ at' \in [Requests -> Stages]
      BY <3>2
    <3>5. /\ \A s \in Requests \ {r} :
               at'[s] = at[s] /\ session'[s] = session[s] /\ saved'[s] = saved[s]
          /\ \A u \in Vins \ {vinOf[r]} :
               infos'[u] = infos[u] /\ last'[u] = last[u] /\ cache'[u] \in {cache[u], NoSession}
      BY <3>2, <3>3
    <3>6. Working(r) /\ Carries(r)' /\ pc' = pc
      BY <3>2, <3>4
    <3> HIDE DEF SessionInv, SessionTypeOK, Working, Carries
    <3> QED BY <3>3, <3>4, <3>5, <3>6, WorkerStep
  <2> QED BY <2>1, <2>2
<1>9. ASSUME NEW r \in Requests, NotSupported(r) PROVE SessionInv'
  BY <1>9 DEF NotSupported, vars, Current, UpToDate
<1>10. ASSUME NEW r \in Requests, Executed(r) \/ WakeUp(r) PROVE SessionInv'
  BY <1>10 DEF Executed, WakeUp, Answer, vars, Current, UpToDate
<1>11. ASSUME NEW r \in Requests, Sign(r) PROVE SessionInv'
  <2>1. /\ at[r] = "execute" /\ tries' = [tries EXCEPT ![r] = @ + 1]
        /\ session' = [session EXCEPT ![r] = Used(@)]
        /\ last' = [last EXCEPT ![vinOf[r]] = Used(session[r])]
        /\ UNCHANGED <<pc, at, saved, cache, infos, saves>>
    BY <1>11 DEF Sign, vars
  <2>2. Used(session[r]) \in Sessions /\ Used(session[r]).info = session[r].info
    BY UsedIsNewer
  <2>3. SessionTypeOK' /\ at' \in [Requests -> Stages]
    BY <2>1, <2>2
  <2>4. Current(session[r], vinOf[r])
    BY <2>1
  <2>5. Current(session[r], vinOf[r])' /\ last'[vinOf[r]].info <= infos'[vinOf[r]]
    BY <2>1, <2>2, <2>4 DEF Current, UpToDate, Sessions
  <2> QED BY <2>1, <2>3, <2>5, WorkerStep
<1>12. ASSUME NEW r \in Requests, Refresh(r) PROVE SessionInv'
  <2>1. /\ at[r] = "execute" /\ SetUp(r)
        /\ UNCHANGED <<pc, at, saved, cache, saves, tries, last>>
    BY <1>12 DEF Refresh, vars
  <2> QED BY <2>1, SetUpFresh, WorkerStep
<1>13. ASSUME NEW r \in Requests, Export(r) PROVE SessionInv'
  <2>1. /\ at[r] = "save" /\ at' = [at EXCEPT ![r] = "store"] /\ saves' = saves + 1
        /\ saved' = [saved EXCEPT ![r] = [session[r] EXCEPT !.createdAt = saves + 1]]
        /\ UNCHANGED <<pc, session, cache, infos, tries, last>>
    BY <1>13 DEF Export, vars
  <2> DEFINE copy == [session[r] EXCEPT !.createdAt = saves + 1]
  <2>2. copy \in Sessions /\ copy.info = session[r].info /\ copy.counter = session[r].counter
    <3>1. session[r] \in Sessions /\ saves + 1 \in Nat
      OBVIOUS
    <3> QED BY <3>1 DEF Sessions
  <2> HIDE DEF copy
  <2>3. SessionTypeOK' /\ at' \in [Requests -> Stages]
    BY <2>1, <2>2 DEF copy
  <2>4. Current(saved[r], vinOf[r])'
    BY <2>1, <2>2 DEF Current, UpToDate, copy
  <2>5. at'[r] = "store" /\ \A s \in Requests \ {r} : at'[s] = at[s] /\ saved'[s] = saved[s]
    BY <2>1
  <2> QED BY <2>1, <2>3, <2>4, <2>5, WorkerStep
<1>14. ASSUME NEW r \in Requests, Store(r) PROVE SessionInv'
  <2> DEFINE c == [cache EXCEPT ![vinOf[r]] = saved[r]]
  <2>1. /\ at[r] = "store" /\ at' = [at EXCEPT ![r] = "release"] /\ cache' = Trimmed(c)
        /\ saved' = [saved EXCEPT ![r] = NoSession]
        /\ UNCHANGED <<pc, session, infos, saves, tries, last>>
    BY <1>14 DEF Store, vars
  <2>2. c \in [Vins -> Sessions] /\ NoSession \in Sessions
    BY DEF NoSession, Sessions
  <2>3. cache' \in [Vins -> Sessions] /\ \A u \in Vins : cache'[u] \in {c[u], NoSession}
    <3> HIDE DEF c
    <3> QED BY <2>1, <2>2, TrimmedType
  <2>4. SessionTypeOK' /\ at' \in [Requests -> Stages]
    BY <2>1, <2>2, <2>3
  <2>5. cache'[vinOf[r]] # NoSession => Current(cache[vinOf[r]], vinOf[r])'
    BY <2>1, <2>3 DEF Current, UpToDate
  <2>6. /\ at'[r] = "release"
        /\ \A s \in Requests \ {r} : at'[s] = at[s] /\ saved'[s] = saved[s]
        /\ \A u \in Vins \ {vinOf[r]} : cache'[u] \in {cache[u], NoSession}
    BY <2>1, <2>3
  <2> HIDE DEF c
  <2> QED BY <2>1, <2>4, <2>5, <2>6, WorkerStep
<1>15. ASSUME NEW r \in Requests, Forwarded(r) \/ ForwardFails(r) PROVE SessionInv'
  <2>1. /\ at[r] \in {"forward", "pause"} /\ at'[r] \in {"release", "done"}
        /\ at' = [at EXCEPT ![r] = at'[r]]
        /\ UNCHANGED <<pc, session, saved, cache, infos, saves, tries, last>>
    BY <1>15 DEF Forwarded, ForwardFails, Relay, Answer, vars
  <2> QED BY <2>1 DEF Current, UpToDate
<1>16. ASSUME NEW r \in Requests, Redirected(r) \/ Resume(r) PROVE SessionInv'
  <2>1. /\ at[r] \in {"forward", "pause"} /\ at'[r] \in {"forward", "pause"}
        /\ at' = [at EXCEPT ![r] = at'[r]]
        /\ UNCHANGED <<pc, session, saved, cache, infos, saves, tries, last>>
    BY <1>16 DEF Redirected, Resume, vars
  <2> QED BY <2>1 DEF Current, UpToDate
<1>17. ASSUME NEW v \in Vins, OtherSaved(v) PROVE SessionInv'
  <2> DEFINE new == [info |-> 1, counter |-> 1, createdAt |-> saves + 1]
             c == [cache EXCEPT ![v] = new]
  <2>1. /\ \A r \in Requests : vinOf[r] # v
        /\ cache' = Trimmed(c) /\ saves' = saves + 1
        /\ UNCHANGED <<pc, at, session, saved, infos, tries, last>>
    BY <1>17 DEF OtherSaved, vars
  <2>2. c \in [Vins -> Sessions]
    BY DEF Sessions
  <2>3. cache' \in [Vins -> Sessions] /\ \A u \in Vins : cache'[u] \in {c[u], NoSession}
    <3> HIDE DEF c
    <3> QED BY <2>1, <2>2, TrimmedType
  <2>4. \A r \in Requests : cache'[vinOf[r]] \in {cache[vinOf[r]], NoSession}
    BY <2>1, <2>3
  <2> HIDE DEF c
  <2>5. SessionTypeOK' /\ at' \in [Requests -> Stages]
    BY <2>1, <2>3
  <2>6. \A r \in Requests : Working(r)' => pc'[r] = "held"
    BY <2>1
  <2>7. \A u \in Vins : last'[u].info <= infos'[u]
    BY <2>1
  <2>8. ASSUME NEW r \in Requests, cache'[vinOf[r]] # NoSession
        PROVE  \/ Current(cache[vinOf[r]], vinOf[r])'
               \/ \E s \in Requests : vinOf[s] = vinOf[r] /\ Carries(s)'
    <3>1. cache'[vinOf[r]] = cache[vinOf[r]]
      BY <2>4, <2>8
    <3> QED BY <2>1, <2>8, <3>1 DEF Current, UpToDate
  <2> QED BY <2>1, <2>5, <2>6, <2>7, <2>8 DEF Current, UpToDate
<1>18. CASE UNCHANGED proxyVars
  BY <1>18 DEF proxyVars, vars, Current, UpToDate
<1> QED
  BY <1>1, <1>2, <1>3, <1>4, <1>5, <1>6, <1>7, <1>8, <1>9, <1>10, <1>11, <1>12, <1>13,
     <1>14, <1>15, <1>16, <1>17, <1>18
     DEF ProxyNext, HandlerStep

(* No request signs with a counter that another has used, whatever becomes  *)
(* of the copies of the session in the cache.                               *)
THEOREM SignaturesInOrder == ProxySpec => SignedInOrder
<1> DEFINE Signs(r) == tries'[r] > tries[r]
           InOrder == \A r \in Requests : Signs(r) => Newer(session'[r], last[vinOf[r]])
<1>1. ASSUME SessionInv, [ProxyNext]_proxyVars PROVE InOrder
  <2>0. tries \in [Requests -> Nat]
    BY <1>1 DEF SessionInv, SessionTypeOK
  <2>1. ASSUME NEW r \in Requests, Sign(r) PROVE InOrder
    <3>1. /\ at[r] = "execute" /\ tries' = [tries EXCEPT ![r] = @ + 1]
          /\ session' = [session EXCEPT ![r] = Used(@)]
      BY <2>1 DEF Sign
    <3>2. session[r] \in Sessions /\ last[vinOf[r]] \in Sessions /\ Current(session[r], vinOf[r])
      BY <1>1, <3>1, VinLockAssumption DEF SessionInv, SessionTypeOK
    <3>3. Newer(Used(session[r]), last[vinOf[r]])
      BY <3>2, UsedIsNewer DEF Current, UpToDate, Newer, Sessions
    <3>4. session'[r] = Used(session[r])
      BY <1>1, <3>1 DEF SessionInv, SessionTypeOK
    <3>5. \A s \in Requests : s # r => ~Signs(s)
      BY <2>0, <3>1
    <3> QED BY <3>3, <3>4, <3>5
  <2>2. ASSUME NEW r \in Requests, Leave(r) PROVE InOrder
    <3>1. tries' = [tries EXCEPT ![r] = 0]
      BY <2>2 DEF Leave
    <3>2. \A s \in Requests : ~Signs(s)
      BY <2>0, <3>1
    <3> QED BY <3>2
  <2>3. ASSUME UNCHANGED tries PROVE InOrder
    <3>1. \A s \in Requests : ~Signs(s)
      BY <2>0, <2>3
    <3> QED BY <3>1
  <2>4. ASSUME NEW r \in Requests,
               Receive(r) \/ (HandlerStep(r) /\ ~Sign(r) /\ ~Leave(r)) \/ Abandon(r)
        PROVE  UNCHANGED tries
    BY <2>4 DEF sessionVars, Receive, HandlerStep, Wait, Enter, Release, Extract, Load, LoadFails,
       StartSession, NotSupported, Refresh, Executed, WakeUp, Export, Store, Forwarded,
       Redirected, ForwardFails, Resume, Abandon
  <2>5. ASSUME NEW v \in Vins, OtherSaved(v) PROVE UNCHANGED tries
    BY <2>5 DEF OtherSaved
  <2>6. CASE UNCHANGED proxyVars
    BY <2>6, <2>3 DEF proxyVars, sessionVars
  <2> QED BY <1>1, <2>1, <2>2, <2>3, <2>4, <2>5, <2>6 DEF ProxyNext, HandlerStep
<1>2. ProxySpec => []SessionInv
  BY InitSessionInv, StepSessionInv, LockInvariance, PTL DEF ProxySpec
<1> QED BY <1>1, <1>2, PTL DEF ProxySpec, SignedInOrder
=============================================================================
