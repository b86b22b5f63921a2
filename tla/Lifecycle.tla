------------------------------ MODULE Lifecycle ------------------------------
(***************************************************************************)
(* Starting and stopping the dispatcher's listener goroutine               *)
(* (internal/dispatcher/dispatcher.go Start, listen, Stop, and the test    *)
(* Send begins with).  Start launches a goroutine and waits for it to be   *)
(* ready or for its context to end; the goroutine registers itself under   *)
(* doneLock; Stop closes its terminate channel and, holding doneLock,      *)
(* waits for its farewell on the unbuffered channel done.                  *)
(*                                                                         *)
(* Calls are numbered; the goroutine of the n-th call, if that is a Start, *)
(* and the terminate channel that goroutine makes are both called n.       *)
(***************************************************************************)
EXTENDS Naturals, FiniteSets

CONSTANTS
  Clients,    \* the goroutines that call Start, Stop and Send
  Nobody,     \* doneLock is free
  MaxCalls    \* bound: the number of calls

ASSUME LifecycleAssumption ==
  /\ Nobody \notin Clients
  /\ MaxCalls \in Nat

Calls == 1 .. MaxCalls
NoListener == 0   \* terminate is nil

VARIABLES
  calls,      \* the number of calls made so far
  pc,         \* where each client is
  mine,       \* the number of each client's last Start
  listener,   \* where the goroutine of each call is
  ready,      \* the goroutines that have closed their ready channel
  doneLock,   \* the client that holds doneLock while it waits, or Nobody
  terminate,  \* Dispatcher.terminate
  closed,     \* the terminate channels that have been closed
  open,       \* the connection's receive channel is open
  late,       \* history: some Start returned before its goroutine was ready
  stopped     \* history: a Stop has returned, no Start was waiting and none was called since

vars == <<calls, pc, mine, listener, ready, doneLock, terminate, closed, open, late, stopped>>
clientVars == <<calls, pc, mine, late, stopped>>
listenerVars == <<listener, ready>>
lockVars == <<doneLock, terminate, closed>>

TypeOK ==
  /\ calls \in 0 .. MaxCalls
  /\ pc \in [Clients -> {"idle", "starting", "stopLock", "stopWait", "sending"}]
  /\ mine \in [Clients -> 0 .. MaxCalls]
  /\ listener \in [Calls -> {"none", "new", "loop", "exiting", "gone"}]
  /\ ready \subseteq Calls
  /\ doneLock \in Clients \cup {Nobody}
  /\ terminate \in 0 .. MaxCalls
  /\ closed \subseteq Calls
  /\ open \in BOOLEAN
  /\ late \in BOOLEAN
  /\ stopped \in BOOLEAN

Init ==
  /\ calls = 0
  /\ pc = [c \in Clients |-> "idle"]
  /\ mine = [c \in Clients |-> 0]
  /\ listener = [n \in Calls |-> "none"]
  /\ ready = {}
  /\ doneLock = Nobody
  /\ terminate = NoListener
  /\ closed = {}
  /\ open = TRUE
  /\ late = FALSE
  /\ stopped = FALSE

GoClient(c, from, to) == pc[c] = from /\ pc' = [pc EXCEPT ![c] = to]
GoListener(n, from, to) == listener[n] = from /\ listener' = [listener EXCEPT ![n] = to]

Call(c, to) ==
  /\ calls < MaxCalls
  /\ calls' = calls + 1
  /\ GoClient(c, "idle", to)
-----------------------------------------------------------------------------
(* Start.                                                                   *)

CallStart(c) ==
  /\ Call(c, "starting")
  /\ mine' = [mine EXCEPT ![c] = calls']
  /\ GoListener(calls', "none", "new")
  /\ stopped' = FALSE
  /\ UNCHANGED <<ready, lockVars, open, late>>

StartReady(c) ==
  /\ mine[c] \in ready
  /\ GoClient(c, "starting", "idle")
  /\ UNCHANGED <<calls, mine, late, stopped, listenerVars, lockVars, open>>

\* The context of Start ends first.
StartFails(c) ==
  /\ GoClient(c, "starting", "idle")
  /\ late' = TRUE
  /\ UNCHANGED <<calls, mine, stopped, listenerVars, lockVars, open>>
-----------------------------------------------------------------------------
(* listen.                                                                  *)

\* Mutated form of Register: the terminate channel is made whether or not there is one.
RegisterAlways(n) ==
  /\ doneLock = Nobody
  /\ GoListener(n, "new", "loop")
  /\ terminate' = n
  /\ UNCHANGED <<clientVars, ready, doneLock, closed, open>>

\* The critical section at the head of listen: a second listener leaves at once.
Register(n) ==
  /\ doneLock = Nobody
  /\ GoListener(n, "new", IF terminate = NoListener THEN "loop" ELSE "gone")
  /\ terminate' = IF terminate = NoListener THEN n ELSE terminate
  /\ UNCHANGED <<clientVars, ready, doneLock, closed, open>>

\* The select of the loop picks any case that is ready.  (Receiving a
\* message changes nothing here.)
SignalReady(n) ==
  /\ listener[n] = "loop"
  /\ n \notin ready
  /\ ready' = ready \cup {n}
  /\ UNCHANGED <<clientVars, listener, lockVars, open>>

\* Mutated form of Leave: no farewell.
LeaveSilently(n) ==
  /\ n \in closed \/ ~open
  /\ GoListener(n, "loop", "gone")
  /\ UNCHANGED <<clientVars, ready, lockVars, open>>

\* The farewell on done is deferred: it is sent whichever way the loop ends.
Leave(n) ==
  /\ n \in closed \/ ~open
  /\ GoListener(n, "loop", "exiting")
  /\ UNCHANGED <<clientVars, ready, lockVars, open>>

\* The connection goes away, and with it the receive channel.
Disconnect ==
  /\ open
  /\ open' = FALSE
  /\ UNCHANGED <<clientVars, listenerVars, lockVars>>
-----------------------------------------------------------------------------
(* Stop, and the test that Send begins with.                                *)

CallStop(c) ==
  /\ Call(c, "stopLock")
  /\ UNCHANGED <<mine, late, stopped, listenerVars, lockVars, open>>

Returned == stopped' = \A d \in Clients : pc[d] # "starting"

StopFindsNone(c) ==
  /\ doneLock = Nobody
  /\ terminate = NoListener
  /\ GoClient(c, "stopLock", "idle")
  /\ Returned
  /\ UNCHANGED <<calls, mine, late, listenerVars, lockVars, open>>

\* Mutated forms of StopListener: terminate is not set to nil; the listener is not waited for.
StopKeepsTerminate(c) ==
  /\ doneLock = Nobody
  /\ terminate # NoListener
  /\ GoClient(c, "stopLock", "stopWait")
  /\ doneLock' = c
  /\ closed' = closed \cup {terminate}
  /\ UNCHANGED <<calls, mine, late, stopped, listenerVars, terminate, open>>

StopDoesNotWait(c) ==
  /\ doneLock = Nobody
  /\ terminate # NoListener
  /\ GoClient(c, "stopLock", "idle")
  /\ Returned
  /\ closed' = closed \cup {terminate}
  /\ terminate' = NoListener
  /\ UNCHANGED <<calls, mine, late, listenerVars, doneLock, open>>

\* Stop tells the listener to leave and waits for it with the lock held.
StopListener(c) ==
  /\ doneLock = Nobody
  /\ terminate # NoListener
  /\ GoClient(c, "stopLock", "stopWait")
  /\ doneLock' = c
  /\ closed' = closed \cup {terminate}
  /\ terminate' = NoListener
  /\ UNCHANGED <<calls, mine, late, stopped, listenerVars, open>>

\* The listener's send on done meets the receive in Stop, which then unlocks.
Farewell(n, c) ==
  /\ GoListener(n, "exiting", "gone")
  /\ GoClient(c, "stopWait", "idle")
  /\ doneLock' = Nobody
  /\ Returned
  /\ UNCHANGED <<calls, mine, late, ready, terminate, closed, open>>

CallSend(c) ==
  /\ Call(c, "sending")
  /\ UNCHANGED <<mine, late, stopped, listenerVars, lockVars, open>>

SendTest(c) ==
  /\ doneLock = Nobody
  /\ GoClient(c, "sending", "idle")
  /\ UNCHANGED <<calls, mine, late, stopped, listenerVars, lockVars, open>>
-----------------------------------------------------------------------------
StopStep(c) ==
  StopFindsNone(c) \/ StopListener(c) \/ (\E n \in Calls : Farewell(n, c)) \/ SendTest(c)

ListenerStep(n) == Register(n) \/ SignalReady(n) \/ Leave(n)

Next ==
  \/ \E c \in Clients : CallStart(c) \/ CallStop(c) \/ CallSend(c)
                       \/ StartReady(c) \/ StartFails(c) \/ StopStep(c)
  \/ \E n \in Calls : ListenerStep(n)
  \/ Disconnect

(***************************************************************************)
(* Goroutines that can run do.  Nothing forces a client to make a call, a  *)
(* context to end or the connection to break.                              *)
(***************************************************************************)
Spec ==
  /\ Init /\ [][Next]_vars
  /\ \A c \in Clients : WF_vars(StartReady(c)) /\ WF_vars(StopStep(c))
  /\ \A n \in Calls : WF_vars(Register(n)) /\ WF_vars(Leave(n))
-----------------------------------------------------------------------------
Running(n) == listener[n] \in {"loop", "exiting"}

(***************************************************************************)
(* Two goroutines never read the connection's messages at once, however    *)
(* starts, stops and disconnections interleave.                            *)
(***************************************************************************)
OneListener == \A m, n \in Calls : Running(m) /\ Running(n) => m = n

(***************************************************************************)
(* Every running listener can be stopped: either terminate is its channel, *)
(* or its channel is closed and the one Stop that waits, waits for it.  So *)
(* a Stop never waits for a goroutine that is not there.                   *)
(***************************************************************************)
EveryListenerStoppable ==
  /\ \A n \in Calls : Running(n) => (terminate = n \/ (n \in closed /\ doneLock # Nobody))
  /\ \A c \in Clients : pc[c] = "stopWait" => doneLock = c /\ \E n \in closed : Running(n)

(***************************************************************************)
(* Stop and Send return, although Stop waits for the listener with the     *)
(* lock held that Send, other Stops and starting listeners need, and       *)
(* although a listener that lost its connection left unbidden.             *)
(***************************************************************************)
StopReturns ==
  \A c \in Clients : pc[c] \in {"stopLock", "stopWait", "sending"} ~> pc[c] = "idle"

(***************************************************************************)
(* "Stop the goroutine launched by Start" (pkg/vehicle/vehicle.go:41): when *)
(* a Stop has returned and no Start was waiting then or called since,      *)
(* nobody listens.                                                         *)
(***************************************************************************)
StoppedMeansStopped == stopped => \A n \in Calls : ~Running(n)

\* The same when every Start returned because its goroutine was ready.  (One whose
\* context ended before may leave a goroutine that registers after the Stop:
\* dispatcher.go:334.)
StopAfterReady == ~late => StoppedMeansStopped
=============================================================================
