--------------------------- MODULE HandshakeProofs ---------------------------
(***************************************************************************)
(* Theorems about starting sessions, for any number of domains and of      *)
(* attempts, any replies and any size of the handlers' queues.             *)
(***************************************************************************)
EXTENDS Handshake, TLAPS

Stopped(d) == pc[d] \in {"report", "done"}

(***************************************************************************)
(* What a goroutine reports is true for good: success means a session that *)
(* stays ready, a cancellation that the caller cancelled or that           *)
(* StartSessions has returned.  So what StartSessions has received while   *)
(* it collects, or when it ends without a fault, are successes and the     *)
(* caller's cancellations.                                                 *)
(***************************************************************************)
ResultsTrue ==
  /\ collected = {d \in Domains : pc[d] = "done"}
  /\ \A d \in Domains :
       /\ Stopped(d) /\ result[d] = "nil" => session[d] = "ready"
       /\ Stopped(d) /\ result[d] = "canceled" => context = "canceled" \/ main # "collecting"
       /\ pc[d] = "done" /\ result[d] = "canceled" => context = "canceled"
       /\ pc[d] = "done" /\ main \in {"collecting", "nil", "canceled"} => result[d] \in {"nil", "canceled"}
  /\ main \in {"nil", "canceled"} => collected = Domains

\* A goroutine that has not stopped has no result yet.
Unreported == \A d \in Domains : ~Stopped(d) => result[d] = "nil"

IInv == TypeOK /\ ResultsTrue /\ Unreported /\ HandlersFreed

LEMMA InitIInv == Init => IInv
<1> SUFFICES ASSUME Init PROVE IInv
  OBVIOUS
<1>1. TypeOK
  BY HandshakeAssumption DEF Init, TypeOK, Results, Errors, Idle
<1>2. ResultsTrue /\ Unreported
  BY DEF Init, ResultsTrue, Stopped, Unreported
<1>3. HandlersFreed
  BY DEF Init, HandlersFreed, Waiting
<1> QED BY <1>1, <1>2, <1>3 DEF IInv
-----------------------------------------------------------------------------
\* A goroutine that stops waiting: what its result has to be.
LEMMA ReturnStep ==
  ASSUME IInv, NEW d \in Domains, NEW from \in {"sending", "first", "second"}, NEW e \in Results,
         Return(d, from, e),
         e = "nil" => session[d] = "ready",
         e = "canceled" => context = "canceled" \/ main # "collecting"
  PROVE  IInv'
<1> USE DEF IInv
<1>1. TypeOK'
  BY DEF Return, Goto, TypeOK, mainVars
<1>2. ResultsTrue' /\ Unreported'
  BY DEF Return, Goto, TypeOK, mainVars, ResultsTrue, Stopped, Unreported
<1>3. HandlersFreed'
  BY DEF Return, Goto, TypeOK, HandlersFreed, Waiting, Current
<1> QED BY <1>1, <1>2, <1>3

LEMMA StepIInv == IInv /\ [Next]_vars => IInv'
<1> SUFFICES ASSUME IInv, [Next]_vars PROVE IInv'
  OBVIOUS
<1> USE HandshakeAssumption DEF IInv, mainVars, workerVars
<1>1. ASSUME NEW d \in Domains, Begin(d) PROVE IInv'
  <2>1. TypeOK'
    BY <1>1 DEF Begin, Goto, TypeOK
  <2>2. ResultsTrue' /\ Unreported'
    <3>1. /\ pc[d] = "start"
          /\ pc' = [pc EXCEPT ![d] = IF session[d] = "ready" THEN "report" ELSE "request"]
          /\ session' = [session EXCEPT ![d] = IF session[d] = "none" THEN "new" ELSE session[d]]
          /\ UNCHANGED <<context, main, collected, result>>
      BY <1>1 DEF Begin, Goto
    <3>2. /\ pc \in [Domains -> {"start", "request", "sending", "first", "second", "report", "done"}]
          /\ session \in [Domains -> {"none", "new", "ready"}] /\ result[d] \in Results
      BY DEF TypeOK
    <3>3. \A f \in Domains : session[f] = "ready" => session'[f] = "ready"
      BY <3>1, <3>2
    <3>4. \A f \in Domains : f # d => pc'[f] = pc[f]
      BY <3>1, <3>2
    <3>5. pc'[d] \in {"report", "request"} /\ (pc'[d] = "report" => session[d] = "ready")
      BY <3>1, <3>2
    <3>6. result[d] = "nil"
      BY <3>1 DEF Unreported, Stopped
    <3> QED BY <3>1, <3>3, <3>4, <3>5, <3>6 DEF ResultsTrue, Stopped, Unreported
  <2>3. HandlersFreed'
    BY <1>1 DEF Begin, Goto, TypeOK, HandlersFreed, Waiting, Current
  <2> QED BY <2>1, <2>2, <2>3
<1>2. ASSUME NEW d \in Domains, Request(d) PROVE IInv'
  <2>1. TypeOK'
    <3>1. try[d] + 1 \in 1 .. MaxTries /\ try' = [try EXCEPT ![d] = try[d] + 1]
      BY <1>2 DEF Request, TypeOK
    <3>2. <<d, try[d] + 1>> \in Attempts
      BY <3>1 DEF Attempts
    <3>3. handlers' \subseteq Attempts
      BY <1>2, <3>2 DEF Request, TypeOK
    <3>4. inbox' = [inbox EXCEPT ![d] = <<>>] /\ <<>> \in Seq(AllKinds) /\ Len(<<>>) <= QueueSize
      BY <1>2 DEF Request
    <3>5. inbox' \in [Domains -> Seq(AllKinds)] /\ \A f \in Domains : Len(inbox'[f]) <= QueueSize
      BY <3>4 DEF TypeOK
    <3> QED BY <1>2, <3>1, <3>3, <3>5 DEF Request, Goto, TypeOK
  <2>2. ResultsTrue' /\ Unreported'
    BY <1>2 DEF Request, Goto, TypeOK, ResultsTrue, Stopped, Unreported
  <2>3. HandlersFreed'
    BY <1>2 DEF Request, Goto, TypeOK, HandlersFreed, Waiting, Current
  <2> QED BY <2>1, <2>2, <2>3
<1>3. ASSUME NEW d \in Domains, Sent(d) PROVE IInv'
  <2>1. TypeOK'
    BY <1>3 DEF Sent, Goto, TypeOK
  <2>2. ResultsTrue' /\ Unreported'
    BY <1>3 DEF Sent, Goto, TypeOK, ResultsTrue, Stopped, Unreported
  <2>3. HandlersFreed'
    BY <1>3 DEF Sent, Goto, TypeOK, HandlersFreed, Waiting, Current
  <2> QED BY <2>1, <2>2, <2>3
<1>4. ASSUME NEW d \in Domains, Collect(d) PROVE IInv'
  <2>1. TypeOK'
    BY <1>4 DEF Collect, Goto, TypeOK
  <2>2. ResultsTrue' /\ Unreported'
    <3>1. /\ main = "collecting" /\ pc[d] = "report" /\ pc' = [pc EXCEPT ![d] = "done"]
          /\ collected' = collected \cup {d}
          /\ main' = IF result[d] \notin {"nil", "canceled"} \/ collected' = Domains
                       THEN result[d] ELSE "collecting"
          /\ UNCHANGED <<context, session, result>>
      BY <1>4 DEF Collect, Goto
    <3>2. collected' = {f \in Domains : pc'[f] = "done"}
      BY <3>1 DEF TypeOK, ResultsTrue
    <3>3. \A f \in Domains : pc'[f] = (IF f = d THEN "done" ELSE pc[f])
      BY <3>1 DEF TypeOK
    <3>4. result[d] = "canceled" => context = "canceled"
      BY <3>1 DEF ResultsTrue, Stopped, Unreported
    <3>5. main' \in {"nil", "canceled"} => collected' = Domains
      BY <3>1
    <3>6. main' \in {"collecting", "nil", "canceled"} => result[d] \in {"nil", "canceled"}
      BY <3>1 DEF TypeOK, Results, Errors
    <3> QED BY <3>1, <3>2, <3>3, <3>4, <3>5, <3>6 DEF ResultsTrue, Stopped, Unreported
  <2>3. HandlersFreed'
    BY <1>4 DEF Collect, Goto, TypeOK, HandlersFreed, Waiting, Current
  <2> QED BY <2>1, <2>2, <2>3
<1>5. ASSUME NEW d \in Domains, Transmit(d) PROVE IInv'
  <2>1. TypeOK'
    <3>1. Current(d) \in Attempts
      BY <1>5 DEF Transmit, TypeOK, HandlersFreed
    <3> QED BY <1>5, <3>1 DEF Transmit, TypeOK
  <2>2. ResultsTrue' /\ Unreported' /\ HandlersFreed'
    BY <1>5 DEF Transmit, ResultsTrue, Stopped, Unreported, HandlersFreed, Current
  <2> QED BY <2>1, <2>2
<1>6. ASSUME NEW d \in Domains, SendFails(d) PROVE IInv'
  BY <1>6, ReturnStep DEF SendFails, Results, Errors
<1>7. ASSUME NEW d \in Domains, NEW w \in {"sending", "first", "second"}, GiveUp(d, w) PROVE IInv'
  <2> DEFINE e == IF context = "expired" THEN "expired" ELSE "canceled"
  <2>1. Return(d, w, e) /\ e \in Results
    BY <1>7 DEF GiveUp, Results
  <2>2. e = "canceled" => context = "canceled" \/ main # "collecting"
    BY <1>7 DEF GiveUp, ContextOver, TypeOK
  <2> QED BY <2>1, <2>2, ReturnStep
<1>8. ASSUME NEW d \in Domains, NEW w \in Waiting, SeeReady(d, w) PROVE IInv'
  BY <1>8, ReturnStep DEF SeeReady, Waiting, Results
<1>9. ASSUME NEW d \in Domains, TakeReply(d) PROVE IInv'
  <2>1. CASE Head(inbox[d]) \in Errors
    BY <1>9, <2>1, ReturnStep DEF TakeReply, Results, Errors
  <2>2. CASE Head(inbox[d]) \notin Errors
    <3>1. /\ inbox[d] # <<>> /\ inbox' = [inbox EXCEPT ![d] = Tail(@)]
          /\ pc[d] = "first" /\ pc' = [pc EXCEPT ![d] = "second"]
          /\ UNCHANGED <<context, main, collected, session, result, try, handlers, requests, air, listener>>
      BY <1>9, <2>2 DEF TakeReply, Goto
    <3>2. Tail(inbox[d]) \in Seq(AllKinds) /\ Len(Tail(inbox[d])) <= QueueSize
      BY <3>1 DEF TypeOK
    <3>3. TypeOK'
      BY <3>1, <3>2 DEF TypeOK
    <3>4. ResultsTrue' /\ Unreported'
      BY <3>1 DEF TypeOK, ResultsTrue, Stopped, Unreported
    <3>5. HandlersFreed'
      BY <3>1 DEF TypeOK, HandlersFreed, Waiting, Current
    <3> QED BY <3>3, <3>4, <3>5
  <2> QED BY <2>1, <2>2
<1>10. ASSUME NEW d \in Domains, NEW w \in Waiting, Retry(d, w) PROVE IInv'
  <2>1. TypeOK'
    BY <1>10 DEF Retry, Goto, TypeOK
  <2>2. ResultsTrue' /\ Unreported'
    BY <1>10 DEF Retry, Goto, TypeOK, ResultsTrue, Stopped, Unreported, Waiting
  <2>3. HandlersFreed'
    BY <1>10 DEF Retry, Goto, TypeOK, HandlersFreed, Waiting, Current
  <2> QED BY <2>1, <2>2, <2>3
<1>11. ASSUME NEW a \in requests, NEW kind \in kinds[a[1]], Answer(a, kind) PROVE IInv'
  <2>1. a \in Attempts /\ kind \in AllKinds
    BY DEF TypeOK, Attempts
  <2>2. TypeOK'
    BY <1>11, <2>1 DEF Answer, TypeOK, Replies
  <2>3. ResultsTrue' /\ Unreported' /\ HandlersFreed'
    BY <1>11 DEF Answer, ResultsTrue, Stopped, Unreported, HandlersFreed, Current
  <2> QED BY <2>2, <2>3
<1>12. ASSUME NEW how \in {"canceled", "expired"}, EndContext(how) PROVE IInv'
  BY <1>12 DEF EndContext, TypeOK, ResultsTrue, Stopped, Unreported, HandlersFreed, Current
<1>13. ASSUME NEW reply \in air, Receive(reply) PROVE IInv'
  <2>1. TypeOK'
    BY <1>13 DEF Receive, TypeOK
  <2>2. ResultsTrue' /\ Unreported' /\ HandlersFreed'
    BY <1>13 DEF Receive, ResultsTrue, Stopped, Unreported, HandlersFreed, Current
  <2> QED BY <2>1, <2>2
<1>14. CASE Update
  <2>1. listener \in [stage : {"update", "deliver"}, reply : Replies]
    BY <1>14 DEF Update, TypeOK, Idle
  <2>2. TypeOK'
    BY <1>14, <2>1 DEF Update, TypeOK
  <2>3. ResultsTrue' /\ Unreported' /\ HandlersFreed'
    BY <1>14 DEF Update, TypeOK, ResultsTrue, Stopped, Unreported, HandlersFreed, Current
  <2> QED BY <2>2, <2>3
<1>15. CASE Deliver
  <2> DEFINE d == listener.reply.attempt[1]
             more == Append(inbox[d], listener.reply.kind)
  <2>1. listener \in [stage : {"update", "deliver"}, reply : Replies]
    BY <1>15 DEF Deliver, TypeOK, Idle
  <2>2. d \in Domains /\ listener.reply.kind \in AllKinds
    BY <2>1 DEF Replies, Attempts
  <2>3. more \in Seq(AllKinds) /\ Len(more) = Len(inbox[d]) + 1 /\ Len(inbox[d]) \in Nat
    BY <2>2 DEF TypeOK
  <2>4. inbox' = inbox \/ (Len(inbox[d]) < QueueSize /\ inbox' = [inbox EXCEPT ![d] = more])
    BY <1>15 DEF Deliver
  <2>5. inbox' \in [Domains -> Seq(AllKinds)] /\ \A e \in Domains : Len(inbox'[e]) <= QueueSize
    <3> HIDE DEF d, more
    <3>1. CASE inbox' = inbox
      BY <3>1 DEF TypeOK
    <3>2. CASE Len(inbox[d]) < QueueSize /\ inbox' = [inbox EXCEPT ![d] = more]
      <4>1. Len(more) <= QueueSize
        BY <2>3, <3>2
      <4>2. \A e \in Domains : inbox'[e] = IF e = d THEN more ELSE inbox[e]
        BY <2>2, <3>2 DEF TypeOK
      <4> QED BY <2>2, <2>3, <3>2, <4>1, <4>2 DEF TypeOK
    <3> QED BY <2>4, <3>1, <3>2
  <2>6. TypeOK'
    BY <1>15, <2>5 DEF Deliver, TypeOK
  <2>7. ResultsTrue' /\ Unreported' /\ HandlersFreed'
    BY <1>15 DEF Deliver, ResultsTrue, Stopped, Unreported, HandlersFreed, Current
  <2> QED BY <2>6, <2>7
<1>16. CASE UNCHANGED vars
  BY <1>16 DEF vars, TypeOK, ResultsTrue, Stopped, Unreported, HandlersFreed, Current
<1> QED
  BY <1>1, <1>2, <1>3, <1>4, <1>5, <1>6, <1>7, <1>8, <1>9, <1>10, <1>11, <1>12, <1>13, <1>14,
     <1>15, <1>16
     DEF Next, Step, GiveUpAnywhere, SeeReadyAnywhere, Waiting

LEMMA Invariance == Spec => []IInv
BY InitIInv, StepIInv, PTL DEF Spec
-----------------------------------------------------------------------------
(* The variables of the handshake keep their types; in particular no queue  *)
(* of a handler grows beyond its size.                                      *)
THEOREM TypeCorrect == Spec => []TypeOK
<1>1. IInv => TypeOK
  BY DEF IInv
<1> QED BY <1>1, Invariance, PTL

(* For any domains: no error means that every session is ready, unless the  *)
(* caller cancelled.                                                        *)
THEOREM SuccessHolds == Spec => []SuccessUnlessCanceled
<1>1. IInv => SuccessUnlessCanceled
  BY DEF IInv, TypeOK, ResultsTrue, Stopped, Unreported, SuccessUnlessCanceled, SuccessMeansReady
<1> QED BY <1>1, Invariance, PTL

(* A fault of one domain is never hidden behind a cancellation of another,  *)
(* and only a fault ends the collection early.                              *)
THEOREM FaultsSurface == Spec => []FaultNotMasked
<1>1. IInv => FaultNotMasked
  BY DEF IInv, ResultsTrue, FaultNotMasked
<1> QED BY <1>1, Invariance, PTL

(* Exactly the attempts that still wait for a reply have a handler.         *)
THEOREM HandlersEnd == Spec => []HandlersFreed
<1>1. IInv => HandlersFreed
  BY DEF IInv
<1> QED BY <1>1, Invariance, PTL
-----------------------------------------------------------------------------
(* The promise of SessionStart.                                             *)

\* A goroutine ends for a timeout only when the caller's context expired.
Expired == \A d \in Domains : result[d] = "expired" => context = "expired"

LEMMA ExpiredStep == IInv /\ Expired /\ [Next]_vars => Expired'
<1> SUFFICES ASSUME IInv, Expired, [Next]_vars PROVE Expired'
  OBVIOUS
<1>1. ASSUME NEW d \in Domains, NEW from, NEW e, Return(d, from, e),
             e = "expired" => context = "expired"
      PROVE  Expired'
  BY <1>1 DEF Return, Expired, IInv, TypeOK
<1>2. ASSUME NEW d \in Domains, SendFails(d) PROVE Expired'
  BY <1>1, <1>2 DEF SendFails
<1>3. ASSUME NEW d \in Domains, NEW from, SeeReady(d, from) PROVE Expired'
  BY <1>1, <1>3 DEF SeeReady
<1>4. ASSUME NEW d \in Domains, NEW from, GiveUp(d, from) PROVE Expired'
  BY <1>1, <1>4 DEF GiveUp
<1>5. ASSUME NEW d \in Domains, TakeReply(d) PROVE Expired'
  <2>1. CASE Head(inbox[d]) \in Errors
    BY <1>1, <1>5, <2>1 DEF TakeReply, Errors
  <2>2. CASE Head(inbox[d]) \notin Errors
    BY <1>5, <2>2 DEF TakeReply, Expired
  <2> QED BY <2>1, <2>2
<1>6. CASE UNCHANGED <<result, context>>
  BY <1>6 DEF Expired
<1>7. ASSUME NEW how, EndContext(how) PROVE Expired'
  BY <1>7 DEF EndContext, Expired, workerVars
<1> QED BY <1>2, <1>3, <1>4, <1>5, <1>6, <1>7
        DEF Next, Step, Begin, Request, Sent, Collect, Transmit, GiveUpAnywhere, SeeReadyAnywhere,
            Retry, Answer, Receive, Update, Deliver, workerVars, vars

\* A goroutine that returns e: it is one of the failures when e is an error.
LEMMA GoroutineReturns ==
  ASSUME IInv, NEW d \in Domains, NEW from \in {"sending", "first", "second"}, NEW e,
         Return(d, from, e)
  PROVE  [Start!Next]_<<context, ReadyDomains, Failures, told>>
<1>1. /\ UNCHANGED <<context, ReadyDomains, told>> /\ result[d] = "nil"
      /\ result' = [result EXCEPT ![d] = e]
  BY DEF Return, Goto, mainVars, ReadyDomains, told, IInv, Unreported, Stopped
<1>2. \A c \in Domains : result'[c] = IF c = d THEN e ELSE result[c]
  BY <1>1 DEF IInv, TypeOK
<1>3. \A f \in Failures : f[1] # d
  BY <1>1 DEF Failures, Errors
<1>4. CASE e \in Errors
  <2>1. Failures' = Failures \cup {<<d, e>>}
    BY <1>1, <1>2, <1>4 DEF Failures, Errors
  <2> QED BY <1>1, <1>3, <1>4, <2>1 DEF Start!Next, Start!Break
<1>5. CASE e \notin Errors
  <2>1. Failures' = Failures
    BY <1>1, <1>2, <1>5 DEF Failures, Errors
  <2> QED BY <1>1, <2>1
<1> QED BY <1>4, <1>5

LEMMA AnswerGiven ==
  ASSUME IInv, IInv', Expired, NEW d \in Domains, Collect(d)
  PROVE  [Start!Next]_<<context, ReadyDomains, Failures, told>>
<1>1. UNCHANGED <<context, ReadyDomains, Failures>> /\ told = "pending" /\ main = "collecting"
  BY DEF Collect, ReadyDomains, Failures, told
<1>2. result[d] \in Results /\ main' \in {"collecting", result[d]}
  BY DEF Collect, IInv, TypeOK
<1>3. main' \in {"nil", "canceled"} =>
        /\ Failures = {}
        /\ main' = "nil" => ReadyDomains = Domains \/ context = "canceled"
        /\ main' = "canceled" => context = "canceled"
  <2>1. SUFFICES ASSUME main' \in {"nil", "canceled"}
                 PROVE  /\ Failures' = {}
                        /\ ReadyDomains' = Domains \/ context' = "canceled"
                        /\ main' = "canceled" => context' = "canceled"
    BY <1>1
  <2>2. \A c \in Domains : pc'[c] = "done" /\ result'[c] \in {"nil", "canceled"}
    BY <2>1 DEF IInv, ResultsTrue
  <2>3. \A c \in Domains : /\ result'[c] = "nil" => session'[c] = "ready"
                           /\ result'[c] = "canceled" => context' = "canceled"
    BY <2>2 DEF IInv, ResultsTrue, Stopped
  <2>4. Failures' = {}
    BY <2>2 DEF Failures, Errors
  <2>5. ReadyDomains' = Domains \/ context' = "canceled"
    BY <2>2, <2>3 DEF ReadyDomains
  <2>6. main' = "canceled" => result'[d] = "canceled"
    BY <1>2, <2>1 DEF Collect
  <2> QED BY <2>3, <2>4, <2>5, <2>6
<1>4. CASE main' = "collecting"
  BY <1>1, <1>4 DEF told
<1>5. CASE main' = "nil"
  <2>1. told' = "nil"
    BY <1>5 DEF told
  <2> QED BY <1>1, <1>3, <1>5, <2>1 DEF Start!Next, Start!Succeed, Start!Give
<1>6. CASE main' = "canceled"
  <2>1. told' = "canceled"
    BY <1>6 DEF told
  <2> QED BY <1>1, <1>3, <1>6, <2>1 DEF Start!Next, Start!GiveUp, Start!Give
<1>7. CASE main' = "expired"
  <2>1. told' = "expired" /\ context = "expired"
    BY <1>2, <1>7 DEF told, Expired
  <2> QED BY <1>1, <2>1 DEF Start!Next, Start!GiveUp, Start!Give
<1>8. CASE main' \in Errors
  <2>1. told' = result[d]
    BY <1>2, <1>8 DEF told, Errors
  <2>2. <<d, result[d]>> \in Failures
    BY <1>2, <1>8 DEF Failures, Errors
  <2>3. \E f \in Failures : f[2] = result[d]
    BY <2>2
  <2> QED BY <1>1, <2>1, <2>3 DEF Start!Next, Start!Fail, Start!Give
<1> QED BY <1>2, <1>4, <1>5, <1>6, <1>7, <1>8 DEF Results

(***************************************************************************)
(* Whatever the goroutines, the listener and the network do: the call      *)
(* gives one answer, which says what became of the sessions and of the     *)
(* caller's context, and hides no domain's failure behind a cancellation.  *)
(***************************************************************************)
THEOREM StartRefinement == Spec => ImplementsSessionStart
<1>1. Init => Start!Init
  BY DEF Init, Start!Init, ReadyDomains, Failures, Errors, told
<1>2. Init => Expired
  BY DEF Init, Expired
<1>3. IInv /\ IInv' /\ Expired /\ [Next]_vars =>
        [Start!Next]_<<context, ReadyDomains, Failures, told>>
  <2> SUFFICES ASSUME IInv, IInv', Expired, [Next]_vars
               PROVE  [Start!Next]_<<context, ReadyDomains, Failures, told>>
    OBVIOUS
  <2>1. ASSUME NEW d \in Domains, Collect(d)
        PROVE  [Start!Next]_<<context, ReadyDomains, Failures, told>>
    BY <2>1, AnswerGiven
  <2>2. ASSUME NEW d \in Domains, SendFails(d) \/ GiveUpAnywhere(d) \/ SeeReadyAnywhere(d)
        PROVE  [Start!Next]_<<context, ReadyDomains, Failures, told>>
    BY <2>2, GoroutineReturns
       DEF SendFails, GiveUpAnywhere, GiveUp, SeeReadyAnywhere, SeeReady, Waiting
  <2>3. ASSUME NEW d \in Domains, TakeReply(d)
        PROVE  [Start!Next]_<<context, ReadyDomains, Failures, told>>
    <3>1. CASE Head(inbox[d]) \in Errors
      BY <2>3, <3>1, GoroutineReturns DEF TakeReply
    <3>2. CASE Head(inbox[d]) \notin Errors
      BY <2>3, <3>2 DEF TakeReply, mainVars, ReadyDomains, Failures, told
    <3> QED BY <3>1, <3>2
  <2>4. ASSUME NEW d \in Domains, Begin(d)
        PROVE  UNCHANGED <<context, ReadyDomains, Failures, told>>
    <3>1. \A c \in Domains : session'[c] = "ready" <=> session[c] = "ready"
      BY <2>4 DEF Begin, IInv, TypeOK
    <3> QED BY <2>4, <3>1 DEF Begin, mainVars, ReadyDomains, Failures, told
  <2>5. CASE Update
    <3>1. CASE UNCHANGED session
      BY <2>5, <3>1 DEF Update, mainVars, workerVars, ReadyDomains, Failures, told
    <3>2. CASE session' # session
      <4> DEFINE d == listener.reply.attempt[1]
      <4>1. d \in Domains /\ session' = [session EXCEPT ![d] = "ready"]
        BY <2>5, <3>2 DEF Update, IInv, TypeOK, Idle, Replies, Attempts
      <4> HIDE DEF d
      <4>2. ReadyDomains' = ReadyDomains \cup {d}
        BY <4>1 DEF ReadyDomains, IInv, TypeOK
      <4>3. UNCHANGED <<context, Failures, told>>
        BY <2>5 DEF Update, mainVars, workerVars, Failures, told
      <4> QED BY <4>1, <4>2, <4>3 DEF Start!Next, Start!Prepare
    <3> QED BY <3>1, <3>2
  <2>6. ASSUME NEW how \in {"canceled", "expired"}, EndContext(how)
        PROVE  [Start!Next]_<<context, ReadyDomains, Failures, told>>
    BY <2>6 DEF EndContext, mainVars, workerVars, ReadyDomains, Failures, told,
                Start!Next, Start!EndContext
  <2>7. CASE UNCHANGED <<context, main, session, result>>
    BY <2>7 DEF ReadyDomains, Failures, told
  <2> QED BY <2>1, <2>2, <2>3, <2>4, <2>5, <2>6, <2>7
          DEF Next, Step, Request, Sent, Transmit, Retry, Answer, Receive, Deliver,
              mainVars, workerVars, vars
<1>4. IInv /\ [Next]_vars => IInv'
  BY StepIInv
<1> QED BY <1>1, <1>2, <1>3, <1>4, InitIInv, ExpiredStep, PTL
        DEF Spec, ImplementsSessionStart, Start!Spec
=============================================================================
