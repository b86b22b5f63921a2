-------------------------- MODULE SessionLockProofs --------------------------
(***************************************************************************)
(* Theorems about the locks around a session, for any number of senders    *)
(* and keepers, any last counter and any reports of the vehicle.           *)
(***************************************************************************)
EXTENDS SessionLock, TLAPS

(***************************************************************************)
(* Until a signature, failed or not, has wrapped the counter, no command   *)
(* was signed with a counter that is still ahead, so the next counter is a *)
(* new one.                                                                *)
(***************************************************************************)
IInv ==
  /\ TypeOK
  /\ ~wrapped => \A t \in Authorized : signed[t] <= counter
  /\ CountersDistinct

LEMMA InitIInv == Init => IInv
<1> SUFFICES ASSUME Init PROVE IInv
  OBVIOUS
<1>1. TypeOK
  <2>1. wrapped \in BOOLEAN
    BY DEF Init
  <2>2. signed \in [Senders -> 0 .. MaxCounter]
    BY SessionLockAssumption DEF Init, Unsigned
  <2> QED BY <2>1, <2>2 DEF Init, TypeOK, Threads
<1>2. Authorized = {}
  BY DEF Init, Authorized, Threads
<1> QED BY <1>1, <1>2 DEF IInv, CountersDistinct

\* A step that authorizes nobody and does not lower the counter, or wraps it.
LEMMA Others ==
  ASSUME IInv, TypeOK', Authorized' = Authorized, signed' = signed,
         wrapped => wrapped', wrapped' \/ counter <= counter'
  PROVE  IInv'
<1>1. CountersDistinct'
  BY DEF IInv, CountersDistinct
<1>2. ASSUME ~wrapped', NEW t \in Authorized' PROVE signed'[t] <= counter'
  <2>1. t \in Senders
    BY <1>2 DEF Authorized
  <2>2. signed[t] \in Nat /\ counter \in Nat /\ counter' \in Nat
    BY <2>1, SessionLockAssumption DEF IInv, TypeOK
  <2>3. signed[t] <= counter
    BY <1>2 DEF IInv
  <2> QED BY <1>2, <2>2, <2>3
<1> QED BY <1>1, <1>2 DEF IInv

\* What the next counter is.
LEMMA Spending ==
  ASSUME TypeOK, SpendCounter
  PROVE  /\ counter' \in 0 .. MaxCounter /\ wrapped' \in BOOLEAN
         /\ wrapped => wrapped'
         /\ ~wrapped' => counter # MaxCounter /\ counter' = counter + 1
<1>1. counter \in 0 .. MaxCounter /\ MaxCounter \in Nat /\ wrapped \in BOOLEAN
  BY SessionLockAssumption DEF TypeOK
<1>2. counter' = IF counter = MaxCounter THEN 0 ELSE counter + 1
  BY <1>1 DEF SpendCounter
<1>3. counter' \in 0 .. MaxCounter
  BY <1>1, <1>2
<1>4. /\ wrapped' \in BOOLEAN /\ (wrapped => wrapped')
      /\ ~wrapped' => counter # MaxCounter
  BY <1>1, Zenon DEF SpendCounter
<1>5. counter # MaxCounter => counter' = counter + 1
  BY <1>2
<1> QED BY <1>3, <1>4, <1>5, Zenon

LEMMA StepIInv == IInv /\ [Next]_vars => IInv'
<1> SUFFICES ASSUME IInv, [Next]_vars PROVE IInv'
  OBVIOUS
<1> USE SessionLockAssumption
<1>0. /\ pc \in [Threads -> {"idle", "outer", "inner", "authorize", "sign", "sent", "failed"}]
      /\ counter \in Nat /\ TypeOK
  BY DEF IInv, TypeOK
<1>1. ASSUME NEW t \in Threads, Arrive(t) \/ TakeOuter(t) \/ LookUp(t) PROVE IInv'
  <2>1. TypeOK'
    BY <1>0, <1>1 DEF Arrive, TakeOuter, LookUp, Goto, data, TypeOK
  <2>2. Authorized' = Authorized /\ UNCHANGED <<signed, counter, wrapped>>
    BY <1>0, <1>1 DEF Arrive, TakeOuter, LookUp, Goto, data, Authorized, Threads
  <2> QED BY <1>0, <2>1, <2>2, Others
<1>2. ASSUME NEW k \in Keepers, NEW info \in Reports, Keep(k, info) PROVE IInv'
  <2>1. TypeOK'
    BY <1>0, <1>2 DEF Keep, Goto, TypeOK, Threads
  <2>2. Authorized' = Authorized /\ signed' = signed
    BY <1>0, <1>2 DEF Keep, Goto, Authorized, Threads
  <2>3. counter <= counter' /\ wrapped' = wrapped
    <3>1. counter' = (IF counter < info THEN info ELSE counter) /\ wrapped' = wrapped
      BY <1>2 DEF Keep
    <3>2. info \in Nat
      OBVIOUS
    <3> QED BY <1>0, <3>1, <3>2
  <2> QED BY <2>1, <2>2, <2>3, Others
<1>3. ASSUME NEW t \in Senders,
             SeeReady(t) \/ SeeOver(t) \/ UnknownMethod(t) \/ EndContext(t)
      PROVE  IInv'
  <2>1. TypeOK'
    BY <1>0, <1>3
       DEF SeeReady, SeeOver, UnknownMethod, EndContext, Goto, data, TypeOK, Threads
  <2>2. Authorized' = Authorized /\ UNCHANGED <<signed, counter, wrapped>>
    BY <1>0, <1>3 DEF SeeReady, SeeOver, UnknownMethod, EndContext, Goto, data, Authorized, Threads
  <2> QED BY <1>0, <2>1, <2>2, Others
<1>4. ASSUME NEW t \in Senders, SignFails(t) PROVE IInv'
  <2>1. /\ pc[t] = "sign" /\ pc' = [pc EXCEPT ![t] = "authorize"]
        /\ SpendCounter \/ UNCHANGED <<counter, wrapped>>
        /\ UNCHANGED <<sessionLock, lock, method, signed, over>>
    BY <1>4 DEF SignFails, RefuseToSign, Goto
  <2>2. /\ counter' \in 0 .. MaxCounter /\ wrapped' \in BOOLEAN
        /\ wrapped => wrapped'
        /\ wrapped' \/ counter <= counter'
    <3>1. CASE SpendCounter
      BY <1>0, <3>1, Spending
    <3>2. CASE UNCHANGED <<counter, wrapped>>
      BY <1>0, <3>2 DEF TypeOK
    <3> QED BY <2>1, <3>1, <3>2
  <2>3. TypeOK'
    BY <1>0, <2>1, <2>2 DEF TypeOK, Threads
  <2>4. Authorized' = Authorized
    BY <1>0, <2>1 DEF Authorized, Threads
  <2> QED BY <2>1, <2>2, <2>3, <2>4, Others
<1>5. ASSUME NEW t \in Senders, Sign(t) PROVE IInv'
  <2>1. /\ pc[t] = "sign" /\ pc' = [pc EXCEPT ![t] = "sent"]
        /\ SpendCounter
        /\ signed' = [signed EXCEPT ![t] = counter']
        /\ UNCHANGED <<sessionLock, lock, method, over>>
    BY <1>5 DEF Sign, Goto
  <2>2. /\ counter' \in 0 .. MaxCounter /\ wrapped' \in BOOLEAN /\ (wrapped => wrapped')
        /\ ~wrapped' => counter' = counter + 1
        /\ signed \in [Senders -> 0 .. MaxCounter]
    BY <1>0, <2>1, Spending DEF TypeOK
  <2>3. TypeOK'
    BY <1>0, <2>1, <2>2 DEF TypeOK, Threads
  <2>4. Authorized' = Authorized \cup {t} /\ t \notin Authorized
    BY <1>0, <2>1 DEF Authorized, Threads
  <2>5. signed'[t] = counter' /\ \A u \in Authorized : signed'[u] = signed[u]
    <3>1. signed \in [Senders -> 0 .. MaxCounter] /\ signed' = [signed EXCEPT ![t] = counter']
      BY <2>1, <2>2
    <3>2. Authorized \subseteq Senders
      BY DEF Authorized
    <3> QED BY <2>4, <3>1, <3>2
  <2>6. CASE wrapped'
    BY <2>3, <2>6 DEF IInv, CountersDistinct
  <2>7. CASE ~wrapped'
    <3>1. counter' = counter + 1 /\ ~wrapped
      BY <2>2, <2>7, Zenon
    <3>2. \A u \in Authorized : signed[u] <= counter /\ signed[u] \in Nat
      BY <2>2, <3>1 DEF IInv, Authorized
    <3>3. \A u \in Authorized' : signed'[u] <= counter'
      BY <1>0, <2>4, <2>5, <3>1, <3>2
    <3>4. ASSUME NEW u \in Authorized', NEW w \in Authorized', u # w
          PROVE  signed'[u] # signed'[w]
      <4>1. \A x \in Authorized : signed'[x] # signed'[t]
        BY <1>0, <2>5, <3>1, <3>2
      <4>2. CASE u = t \/ w = t
        BY <2>4, <3>4, <4>1, <4>2
      <4>3. CASE u # t /\ w # t
        <5>1. u \in Authorized /\ w \in Authorized
          BY <2>4, <4>3
        <5> QED BY <2>5, <3>1, <3>4, <5>1 DEF IInv, CountersDistinct
      <4> QED BY <4>2, <4>3
    <3>5. CountersDistinct'
      BY <3>4 DEF CountersDistinct
    <3> QED BY <2>3, <3>3, <3>5 DEF IInv
  <2> QED BY <2>6, <2>7
<1>6. CASE UNCHANGED vars
  BY <1>6 DEF vars, IInv, TypeOK, CountersDistinct, Authorized
<1> QED
  BY <1>1, <1>2, <1>3, <1>4, <1>5, <1>6 DEF Next, SenderStep, KeeperStep, Threads

LEMMA Invariance == Spec => []IInv
BY InitIInv, StepIInv, PTL DEF Spec

(* The variables of the locks and the senders keep their types.             *)
THEOREM TypeCorrect == Spec => []TypeOK
<1>1. IInv => TypeOK
  BY DEF IInv
<1> QED BY <1>1, Invariance, PTL

(* However many senders authorize at once, and whatever session info comes  *)
(* and whatever signatures fail in between, no two commands share a counter *)
(* unless the counter has wrapped.                                          *)
THEOREM NoSharedCounter == Spec => []CountersDistinct
<1>1. IInv => CountersDistinct
  BY DEF IInv
<1> QED BY <1>1, Invariance, PTL
=============================================================================
