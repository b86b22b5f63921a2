--------------------------- MODULE LifecycleProofs ---------------------------
(***************************************************************************)
(* Theorems about the listener's lifecycle, for any number of clients and  *)
(* calls.                                                                  *)
(***************************************************************************)
EXTENDS Lifecycle, TLAPS

\* The lock is held exactly by a Stop that waits, after it has cleared terminate.
LockHeld ==
  /\ doneLock # Nobody => pc[doneLock] = "stopWait" /\ terminate = NoListener
  /\ terminate # NoListener => terminate \in Calls /\ Running(terminate)

\* A goroutine that has yet to run belongs to a Start that waits for it, or that gave up.
NewHasStarter ==
  /\ \A n \in ready : listener[n] \notin {"none", "new"}
  /\ \A n \in Calls : listener[n] = "new" => late \/ \E c \in Clients : pc[c] = "starting" /\ mine[c] = n

\* After a Stop there is nobody who could still begin to listen.
AllGone ==
  ~late /\ stopped => \A n \in Calls : listener[n] \in {"none", "gone"}

IInv ==
  /\ TypeOK
  /\ LockHeld
  /\ EveryListenerStoppable
  /\ OneListener
  /\ NewHasStarter
  /\ AllGone

(***************************************************************************)
(* The inductive invariant holds initially and is kept by every step.      *)
(***************************************************************************)
LEMMA InitInvariant == Init => IInv
<1> SUFFICES ASSUME Init PROVE IInv
  OBVIOUS
<1>1. TypeOK
  <2>1. calls \in 0 .. MaxCalls /\ terminate \in 0 .. MaxCalls
    BY LifecycleAssumption DEF Init, NoListener
  <2>2. mine \in [Clients -> 0 .. MaxCalls]
    BY LifecycleAssumption DEF Init
  <2>3. /\ pc \in [Clients -> {"idle", "starting", "stopLock", "stopWait", "sending"}]
        /\ listener \in [Calls -> {"none", "new", "loop", "exiting", "gone"}]
        /\ ready \subseteq Calls /\ closed \subseteq Calls
        /\ doneLock \in Clients \cup {Nobody}
    BY DEF Init
  <2>4. open \in BOOLEAN /\ late \in BOOLEAN /\ stopped \in BOOLEAN
    BY DEF Init
  <2> QED BY <2>1, <2>2, <2>3, <2>4 DEF TypeOK
<1>2. \A n \in Calls : listener[n] = "none"
  BY DEF Init
<1>3. LockHeld /\ EveryListenerStoppable /\ OneListener
  BY <1>2 DEF Init, LockHeld, EveryListenerStoppable, OneListener, Running
<1>4. NewHasStarter /\ AllGone
  BY <1>2 DEF Init, NewHasStarter, AllGone
<1> QED BY <1>1, <1>3, <1>4 DEF IInv

LEMMA StepInvariant == IInv /\ [Next]_vars => IInv'
<1> SUFFICES ASSUME IInv, [Next]_vars PROVE IInv'
  OBVIOUS
<1> USE LifecycleAssumption DEF NoListener
<1>1. ASSUME NEW c \in Clients, CallStart(c) PROVE IInv'
  <2>1. /\ calls' \in Calls /\ calls' = calls + 1 /\ calls' \in 0 .. MaxCalls
    BY <1>1 DEF CallStart, Call, Calls, IInv, TypeOK
  <2>2. /\ pc[c] = "idle" /\ pc' = [pc EXCEPT ![c] = "starting"]
        /\ mine' = [mine EXCEPT ![c] = calls']
        /\ listener[calls'] = "none" /\ listener' = [listener EXCEPT ![calls'] = "new"]
        /\ stopped' = FALSE
        /\ UNCHANGED <<ready, doneLock, terminate, closed, open, late>>
    BY <1>1 DEF CallStart, Call, GoClient, GoListener, lockVars
  <2>3. TypeOK'
    BY <2>1, <2>2 DEF IInv, TypeOK
  <2>4. \A n \in Calls : Running(n)' <=> Running(n)
    BY <2>1, <2>2 DEF Running, IInv, TypeOK
  <2>5. LockHeld' /\ EveryListenerStoppable' /\ OneListener'
    BY <2>2, <2>4 DEF IInv, TypeOK, LockHeld, EveryListenerStoppable, OneListener
  <2>6. NewHasStarter'
    <3>1. \A n \in ready' : listener'[n] \notin {"none", "new"}
      BY <2>1, <2>2 DEF IInv, TypeOK, NewHasStarter
    <3>2. pc'[c] = "starting" /\ mine'[c] = calls'
      <4>1. pc \in [Clients -> {"idle", "starting", "stopLock", "stopWait", "sending"}]
            /\ mine \in [Clients -> 0 .. MaxCalls]
        BY DEF IInv, TypeOK
      <4> QED BY <4>1, <2>2
    <3>3. \A n \in Calls \ {calls'} : listener'[n] = listener[n]
      BY <2>1, <2>2 DEF IInv, TypeOK
    <3>4. \A d \in Clients : pc[d] = "starting" => pc'[d] = pc[d] /\ mine'[d] = mine[d]
      BY <2>1, <2>2 DEF IInv, TypeOK
    <3> QED BY <3>1, <3>2, <3>3, <3>4, <2>2 DEF IInv, NewHasStarter
  <2>7. AllGone'
    BY <2>2 DEF AllGone
  <2> QED BY <2>3, <2>5, <2>6, <2>7 DEF IInv
<1>2. ASSUME NEW c \in Clients, StartReady(c) PROVE IInv'
  <2>1. /\ mine[c] \in ready /\ pc[c] = "starting" /\ pc' = [pc EXCEPT ![c] = "idle"]
        /\ UNCHANGED <<calls, mine, late, stopped, listener, ready, doneLock, terminate, closed, open>>
    BY <1>2 DEF StartReady, GoClient, lockVars, listenerVars
  <2>2. TypeOK' /\ LockHeld' /\ EveryListenerStoppable' /\ OneListener' /\ AllGone'
    BY <2>1 DEF IInv, TypeOK, LockHeld, EveryListenerStoppable, OneListener, AllGone, Running
  <2>3. NewHasStarter'
    BY <2>1 DEF IInv, TypeOK, NewHasStarter
  <2> QED BY <2>2, <2>3 DEF IInv
<1>3. ASSUME NEW c \in Clients, StartFails(c) PROVE IInv'
  BY <1>3 DEF StartFails, GoClient, lockVars, listenerVars, IInv, TypeOK, LockHeld,
     EveryListenerStoppable, OneListener, NewHasStarter, AllGone, Running
<1>4. ASSUME NEW c \in Clients, CallStop(c) \/ CallSend(c) \/ SendTest(c) PROVE IInv'
  <2>1. /\ pc[c] \in {"idle", "sending"} /\ calls' \in 0 .. MaxCalls
        /\ \/ pc' = [pc EXCEPT ![c] = "stopLock"]
           \/ pc' = [pc EXCEPT ![c] = "sending"]
           \/ pc' = [pc EXCEPT ![c] = "idle"]
        /\ UNCHANGED <<mine, late, stopped, listener, ready, doneLock, terminate, closed, open>>
    BY <1>4 DEF CallStop, CallSend, SendTest, Call, GoClient, lockVars, listenerVars, IInv, TypeOK
  <2>2. TypeOK' /\ LockHeld' /\ EveryListenerStoppable' /\ OneListener' /\ AllGone'
    BY <2>1 DEF IInv, TypeOK, LockHeld, EveryListenerStoppable, OneListener, AllGone, Running
  <2>3. NewHasStarter'
    BY <2>1 DEF IInv, TypeOK, NewHasStarter
  <2> QED BY <2>2, <2>3 DEF IInv
<1>5. ASSUME NEW n \in Calls, Register(n) PROVE IInv'
  <2>1. /\ doneLock = Nobody /\ listener[n] = "new"
        /\ UNCHANGED <<calls, pc, mine, late, stopped, ready, doneLock, closed, open>>
    BY <1>5 DEF Register, GoListener, clientVars
  <2>2. CASE terminate = NoListener
    <3>1. listener' = [listener EXCEPT ![n] = "loop"] /\ terminate' = n
      BY <1>5, <2>2 DEF Register, GoListener
    <3>2. \A m \in Calls : ~Running(m)
      BY <2>1, <2>2 DEF IInv, EveryListenerStoppable, Calls
    <3>3. \A m \in Calls : Running(m)' <=> m = n
      BY <3>1, <3>2 DEF Running, IInv, TypeOK
    <3>4. TypeOK'
      BY <2>1, <3>1 DEF IInv, TypeOK, Calls
    <3>5. \A c \in Clients : pc[c] # "stopWait"
      BY <2>1 DEF IInv, EveryListenerStoppable
    <3>6. LockHeld' /\ EveryListenerStoppable' /\ OneListener'
      BY <2>1, <3>1, <3>3, <3>5 DEF LockHeld, EveryListenerStoppable, OneListener
    <3>7. NewHasStarter' /\ AllGone'
      BY <2>1, <3>1 DEF IInv, TypeOK, NewHasStarter, AllGone
    <3> QED BY <3>4, <3>6, <3>7 DEF IInv
  <2>3. CASE terminate # NoListener
    <3>1. listener' = [listener EXCEPT ![n] = "gone"] /\ terminate' = terminate
      BY <1>5, <2>3 DEF Register, GoListener
    <3>2. \A m \in Calls : Running(m)' <=> Running(m)
      BY <2>1, <3>1 DEF Running, IInv, TypeOK
    <3>3. TypeOK'
      BY <2>1, <3>1 DEF IInv, TypeOK
    <3>4. LockHeld' /\ EveryListenerStoppable' /\ OneListener'
      BY <2>1, <3>1, <3>2 DEF IInv, TypeOK, LockHeld, EveryListenerStoppable, OneListener
    <3>5. NewHasStarter' /\ AllGone'
      BY <2>1, <3>1 DEF IInv, TypeOK, NewHasStarter, AllGone
    <3> QED BY <3>3, <3>4, <3>5 DEF IInv
  <2> QED BY <2>2, <2>3
<1>6. ASSUME NEW n \in Calls, SignalReady(n) PROVE IInv'
  BY <1>6 DEF SignalReady, lockVars, clientVars, IInv, TypeOK, LockHeld,
     EveryListenerStoppable, OneListener, NewHasStarter, AllGone, Running
<1>7. ASSUME NEW n \in Calls, Leave(n) PROVE IInv'
  <2>1. /\ listener[n] = "loop" /\ listener' = [listener EXCEPT ![n] = "exiting"]
        /\ UNCHANGED <<calls, pc, mine, late, stopped, ready, doneLock, terminate, closed, open>>
    BY <1>7 DEF Leave, GoListener, clientVars, lockVars
  <2>2. \A m \in Calls : Running(m)' <=> Running(m)
    BY <2>1 DEF Running, IInv, TypeOK
  <2>3. TypeOK'
    BY <2>1 DEF IInv, TypeOK
  <2>4. LockHeld' /\ EveryListenerStoppable' /\ OneListener'
    BY <2>1, <2>2 DEF IInv, TypeOK, LockHeld, EveryListenerStoppable, OneListener
  <2>5. NewHasStarter' /\ AllGone'
    BY <2>1 DEF IInv, TypeOK, NewHasStarter, AllGone
  <2> QED BY <2>3, <2>4, <2>5 DEF IInv
<1>8. ASSUME NEW c \in Clients, StopFindsNone(c) PROVE IInv'
  <2>1. /\ doneLock = Nobody /\ terminate = NoListener /\ pc[c] = "stopLock"
        /\ pc' = [pc EXCEPT ![c] = "idle"]
        /\ stopped' = \A d \in Clients : pc[d] # "starting"
        /\ UNCHANGED <<calls, mine, late, listener, ready, doneLock, terminate, closed, open>>
    BY <1>8 DEF StopFindsNone, GoClient, Returned, lockVars, listenerVars
  <2>2. \A n \in Calls : ~Running(n)
    BY <2>1 DEF IInv, EveryListenerStoppable, Calls
  <2>3. TypeOK'
    BY <2>1 DEF IInv, TypeOK
  <2>4. LockHeld' /\ EveryListenerStoppable' /\ OneListener'
    BY <2>1 DEF IInv, TypeOK, LockHeld, EveryListenerStoppable, OneListener, Running
  <2>5. NewHasStarter'
    BY <2>1 DEF IInv, TypeOK, NewHasStarter
  <2>6. AllGone'
    BY <2>1, <2>2 DEF IInv, TypeOK, NewHasStarter, AllGone, Running
  <2> QED BY <2>3, <2>4, <2>5, <2>6 DEF IInv
<1>9. ASSUME NEW c \in Clients, StopListener(c) PROVE IInv'
  <2>1. /\ doneLock = Nobody /\ terminate # NoListener /\ pc[c] = "stopLock"
        /\ pc' = [pc EXCEPT ![c] = "stopWait"] /\ doneLock' = c /\ terminate' = NoListener
        /\ closed' = closed \cup {terminate}
        /\ UNCHANGED <<calls, mine, late, stopped, listener, ready, open>>
    BY <1>9 DEF StopListener, GoClient, listenerVars
  <2>2. terminate \in Calls /\ Running(terminate)
    BY <2>1 DEF IInv, LockHeld
  <2>3. TypeOK'
    BY <2>1, <2>2 DEF IInv, TypeOK
  <2>4. \A n \in Calls : (Running(n)' <=> Running(n)) /\ (Running(n) => n = terminate)
    BY <2>1, <2>2 DEF IInv, OneListener, Running
  <2>5. \A d \in Clients : pc[d] # "stopWait"
    BY <2>1 DEF IInv, EveryListenerStoppable
  <2>6. LockHeld' /\ EveryListenerStoppable' /\ OneListener'
    BY <2>1, <2>2, <2>4, <2>5 DEF IInv, TypeOK, LockHeld, EveryListenerStoppable, OneListener
  <2>7. NewHasStarter' /\ AllGone'
    BY <2>1 DEF IInv, TypeOK, NewHasStarter, AllGone
  <2> QED BY <2>3, <2>6, <2>7 DEF IInv
<1>10. ASSUME NEW c \in Clients, NEW n \in Calls, Farewell(n, c) PROVE IInv'
  <2>1. /\ listener[n] = "exiting" /\ listener' = [listener EXCEPT ![n] = "gone"]
        /\ pc[c] = "stopWait" /\ pc' = [pc EXCEPT ![c] = "idle"] /\ doneLock' = Nobody
        /\ stopped' = \A d \in Clients : pc[d] # "starting"
        /\ UNCHANGED <<calls, mine, late, ready, terminate, closed, open>>
    BY <1>10 DEF Farewell, GoListener, GoClient, Returned
  <2>2. doneLock = c /\ terminate = NoListener
    BY <2>1 DEF IInv, EveryListenerStoppable, LockHeld
  <2>3. \A m \in Calls : ~Running(m)' /\ (Running(m) => m = n)
    BY <2>1 DEF IInv, TypeOK, OneListener, Running
  <2>4. TypeOK'
    BY <2>1 DEF IInv, TypeOK
  <2>5. \A d \in Clients : pc'[d] # "stopWait"
    BY <2>1, <2>2 DEF IInv, TypeOK, EveryListenerStoppable
  <2>6. LockHeld' /\ EveryListenerStoppable' /\ OneListener'
    BY <2>1, <2>2, <2>3, <2>5 DEF LockHeld, EveryListenerStoppable, OneListener
  <2>7. NewHasStarter'
    BY <2>1 DEF IInv, TypeOK, NewHasStarter
  <2>8. AllGone'
    BY <2>1, <2>3 DEF IInv, TypeOK, NewHasStarter, AllGone, Running
  <2> QED BY <2>4, <2>6, <2>7, <2>8 DEF IInv
<1>11. CASE Disconnect
  BY <1>11 DEF Disconnect, lockVars, clientVars, listenerVars, IInv, TypeOK, LockHeld,
     EveryListenerStoppable, OneListener, NewHasStarter, AllGone, Running
<1>12. CASE UNCHANGED vars
  BY <1>12 DEF vars, IInv, TypeOK, LockHeld,
     EveryListenerStoppable, OneListener, NewHasStarter, AllGone, Running
<1> QED
  BY <1>1, <1>2, <1>3, <1>4, <1>5, <1>6, <1>7, <1>8, <1>9, <1>10, <1>11, <1>12
     DEF Next, StopStep, ListenerStep

LEMMA Invariant == Spec => []IInv
BY InitInvariant, StepInvariant, PTL DEF Spec

(***************************************************************************)
(* The lifecycle's variables keep their types.                             *)
(***************************************************************************)
THEOREM TypeCorrect == Spec => []TypeOK
BY Invariant, PTL DEF IInv

(***************************************************************************)
(* Two goroutines never read the connection at once.                       *)
(***************************************************************************)
THEOREM SingleListener == Spec => []OneListener
BY Invariant, PTL DEF IInv

(***************************************************************************)
(* Every listener can be stopped, and a Stop that waits has somebody to    *)
(* wait for.                                                               *)
(***************************************************************************)
THEOREM ListenersStoppable == Spec => []EveryListenerStoppable
BY Invariant, PTL DEF IInv

(***************************************************************************)
(* Where every Start had its goroutine ready, nobody listens after a Stop. *)
(***************************************************************************)
THEOREM StopStops == Spec => []StopAfterReady
<1>1. IInv => StopAfterReady
  BY DEF IInv, AllGone, StopAfterReady, StoppedMeansStopped, Running
<1> QED BY <1>1, Invariant, PTL
=============================================================================
