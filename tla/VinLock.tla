------------------------------- MODULE VinLock -------------------------------
(***************************************************************************)
(* The per-vehicle mutex of pkg/proxy/proxy.go (lockVIN, unlockVIN).  The  *)
(* lock of a VIN is held by the request whose channel is in the sync.Map   *)
(* vinLock under that VIN.  A request that finds a channel there waits for *)
(* it to be closed and then tries again; a release is three steps: load    *)
(* the entry, delete it, close the channel.  Another request may get in    *)
(* between any two of them.                                                *)
(*                                                                         *)
(* A request is one goroutine of the HTTP server and makes one call of     *)
(* lockVIN, so its channel carries its name.                               *)
(***************************************************************************)
CONSTANTS
  Requests,   \* the HTTP requests that carry a vehicle command
  Vins,       \* the vehicles
  vinOf,      \* the vehicle each request is for
  None        \* no entry in the map

ASSUME VinLockAssumption ==
  /\ vinOf \in [Requests -> Vins]
  /\ None \notin Requests

VARIABLES
  vinLock,   \* Proxy.vinLock: the channel stored for each VIN, or None
  closed,    \* the channels that have been closed
  pc,        \* where each request is
  waitOn     \* the channel a request loaded: to wait on, or to close

vars == <<vinLock, closed, pc, waitOn>>

Locations == {"idle", "try", "wait", "held", "delete", "close", "done", "failed", "panic"}

TypeOK ==
  /\ vinLock \in [Vins -> Requests \cup {None}]
  /\ closed \subseteq Requests
  /\ pc \in [Requests -> Locations]
  /\ waitOn \in [Requests -> Requests \cup {None}]

Init ==
  /\ vinLock = [v \in Vins |-> None]
  /\ closed = {}
  /\ pc = [r \in Requests |-> "idle"]
  /\ waitOn = [r \in Requests |-> None]

Goto(r, from, to) == pc[r] = from /\ pc' = [pc EXCEPT ![r] = to]

\* handleVehicleCommand calls lockVIN, which makes the request's channel.
Arrive(r) ==
  /\ Goto(r, "idle", "try")
  /\ UNCHANGED <<vinLock, closed, waitOn>>

\* LoadOrStore stored: the request owns the lock.
Claim(r) ==
  /\ vinLock[vinOf[r]] = None
  /\ Goto(r, "try", "held")
  /\ vinLock' = [vinLock EXCEPT ![vinOf[r]] = r]
  /\ UNCHANGED <<closed, waitOn>>

\* LoadOrStore loaded: the request waits on the owner's channel.
Queue(r) ==
  /\ vinLock[vinOf[r]] # None
  /\ Goto(r, "try", "wait")
  /\ waitOn' = [waitOn EXCEPT ![r] = vinLock[vinOf[r]]]
  /\ UNCHANGED <<vinLock, closed>>

\* Mutated form of Wake: who reads from the channel takes the lock over.
WakeOwns(r) ==
  /\ waitOn[r] \in closed
  /\ Goto(r, "wait", "held")
  /\ vinLock' = [vinLock EXCEPT ![vinOf[r]] = r]
  /\ UNCHANGED <<closed, waitOn>>

\* The channel is closed: the request goes round the loop again.
Wake(r) ==
  /\ waitOn[r] \in closed
  /\ Goto(r, "wait", "try")
  /\ UNCHANGED <<vinLock, closed, waitOn>>

\* The request's context ends while it waits.
GiveUp(r) ==
  /\ Goto(r, "wait", "failed")
  /\ UNCHANGED <<vinLock, closed, waitOn>>

\* Mutated form of Unlock: the channel is not loaded before the entry goes.
UnlockWithoutLoad(r) ==
  /\ Goto(r, "held", "delete")
  /\ UNCHANGED <<vinLock, closed, waitOn>>

\* unlockVIN, deferred until the command has ended, loads the entry first.
Unlock(r) ==
  LET obj == vinLock[vinOf[r]] IN
  /\ Goto(r, "held", IF obj = None THEN "panic" ELSE "delete")
  /\ waitOn' = [waitOn EXCEPT ![r] = obj]
  /\ UNCHANGED <<vinLock, closed>>

\* Mutated forms of Delete: the entry stays; the channel is never closed.
KeepEntry(r) ==
  /\ Goto(r, "delete", "close")
  /\ UNCHANGED <<vinLock, closed, waitOn>>

DeleteOnly(r) ==
  /\ Goto(r, "delete", "done")
  /\ vinLock' = [vinLock EXCEPT ![vinOf[r]] = None]
  /\ UNCHANGED <<closed, waitOn>>

Delete(r) ==
  /\ Goto(r, "delete", "close")
  /\ vinLock' = [vinLock EXCEPT ![vinOf[r]] = None]
  /\ UNCHANGED <<closed, waitOn>>

Close(r) ==
  /\ Goto(r, "close", "done")
  /\ closed' = closed \cup {waitOn[r]}
  /\ UNCHANGED <<vinLock, waitOn>>

Step(r) == Claim(r) \/ Queue(r) \/ Wake(r) \/ Unlock(r) \/ Delete(r) \/ Close(r)

Next == \E r \in Requests : Arrive(r) \/ Step(r) \/ GiveUp(r)

(***************************************************************************)
(* Every goroutine that can run does: a command ends at the latest when    *)
(* its context does, and then unlocks.  Nothing forces a request to arrive *)
(* or to give up.                                                          *)
(***************************************************************************)
Spec == Init /\ [][Next]_vars /\ \A r \in Requests : WF_vars(Step(r))
-----------------------------------------------------------------------------
\* The requests between a successful lockVIN and the end of unlockVIN's delete.
Owns(r) == pc[r] \in {"held", "delete"}

(***************************************************************************)
(* Two requests never hold the lock of one vehicle at once, and a release  *)
(* never finds its entry gone (the panic of proxy.go:135).                 *)
(***************************************************************************)
OneHolder ==
  /\ \A r, s \in Requests : Owns(r) /\ Owns(s) /\ vinOf[r] = vinOf[s] => r = s
  /\ \A r \in Requests : pc[r] # "panic"

(***************************************************************************)
(* "limiting the size of the map to the number of concurrent vehicle       *)
(* commands" (proxy.go:121): a VIN has an entry exactly while a request    *)
(* owns its lock, and the entry is that request's channel.                 *)
(***************************************************************************)
MapBounded ==
  \A v \in Vins :
    /\ vinLock[v] # None => Owns(vinLock[v]) /\ vinOf[vinLock[v]] = v
    /\ \A r \in Requests : Owns(r) /\ vinOf[r] = v => vinLock[v] = r

(***************************************************************************)
(* No lost wakeup: whoever waits does so on a channel that is closed, or   *)
(* that a request which has yet to finish unlocking will close.            *)
(***************************************************************************)
NoLostWakeup ==
  \A r \in Requests :
    pc[r] = "wait" =>
      \/ waitOn[r] \in closed
      \/ waitOn[r] \in Requests /\ pc[waitOn[r]] \in {"held", "delete", "close"}
=============================================================================
