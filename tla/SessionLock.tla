----------------------------- MODULE SessionLock -----------------------------
(***************************************************************************)
(* The locks around one session (internal/dispatcher/session.go and its    *)
(* callers in dispatcher.go).  Dispatcher.sessionLock guards the map of    *)
(* sessions, session.lock the session.  The listener (checkForSession-     *)
(* Update, decrypt) and Cache take both, one after the other; Send takes   *)
(* both to see whether the session is ready, releases them, and then       *)
(* authorizes its command under session.lock alone, in a loop that repeats *)
(* until signing succeeds or the caller's context ends.                    *)
(*                                                                         *)
(* The session has been established: its ready signal is closed.           *)
(***************************************************************************)
EXTENDS Naturals

CONSTANTS
  Senders,      \* the goroutines that call Send
  Keepers,      \* the goroutines that take both locks: the listener, callers of Cache
  Free,         \* a lock that nobody holds
  MaxCounter,   \* 0xFFFFFFFF
  Reports       \* the counters that the vehicle's session info carries

ASSUME SessionLockAssumption ==
  /\ Free \notin Senders \cup Keepers
  /\ Senders \cap Keepers = {}
  /\ MaxCounter \in Nat \ {0}
  /\ Reports \subseteq 0 .. MaxCounter

Threads == Senders \cup Keepers
Methods == {"GCM", "HMAC", "unknown"}   \* "unknown": none of the constants of connector.AuthMethod
Unsigned == 0   \* the counter of a message that is not signed

VARIABLES
  sessionLock,  \* the holder of Dispatcher.sessionLock
  lock,         \* the holder of session.lock
  pc,           \* where each thread is
  method,       \* the authentication method each sender asks for
  counter,      \* the Signer's counter
  signed,       \* the counter each sender's message was signed with
  over,         \* the senders whose context has ended
  wrapped       \* history: the counter has gone from its maximum to 0

vars == <<sessionLock, lock, pc, method, counter, signed, over, wrapped>>
data == <<method, counter, signed, over, wrapped>>

TypeOK ==
  /\ sessionLock \in Threads \cup {Free}
  /\ lock \in Threads \cup {Free}
  /\ pc \in [Threads -> {"idle", "outer", "inner", "authorize", "sign", "sent", "failed"}]
  /\ method \in [Senders -> Methods]
  /\ counter \in 0 .. MaxCounter
  /\ signed \in [Senders -> 0 .. MaxCounter]
  /\ over \subseteq Senders
  /\ wrapped \in BOOLEAN

Init ==
  /\ sessionLock = Free /\ lock = Free
  /\ pc = [t \in Threads |-> "idle"]
  /\ method \in [Senders -> Methods]
  /\ counter \in 0 .. MaxCounter
  /\ signed = [t \in Senders |-> Unsigned]
  /\ over = {} /\ wrapped = FALSE

Goto(t, from, to) == pc[t] = from /\ pc' = [pc EXCEPT ![t] = to]
-----------------------------------------------------------------------------
\* A sender calls Send; a keeper has a message to process, or is asked for the cache.
Arrive(t) ==
  /\ Goto(t, "idle", "outer")
  /\ UNCHANGED <<sessionLock, lock, data>>

TakeOuter(t) ==
  /\ sessionLock = Free
  /\ Goto(t, "outer", "inner")
  /\ sessionLock' = t
  /\ UNCHANGED <<lock, data>>

\* Both locks are taken, used and released: Send looks whether the session is ready.
LookUp(t) ==
  /\ lock = Free
  /\ Goto(t, "inner", "authorize")
  /\ sessionLock' = Free
  /\ UNCHANGED <<lock, data>>

\* Mutated form of Keep: session info sets the counter, higher or lower.
KeepSetsCounter(k, info) ==
  /\ lock = Free
  /\ Goto(k, "inner", "idle")
  /\ counter' = info
  /\ sessionLock' = Free
  /\ UNCHANGED <<lock, method, signed, over, wrapped>>

\* Decryption and export leave the counter alone; session info may raise it.
Keep(k, info) ==
  /\ lock = Free
  /\ Goto(k, "inner", "idle")
  /\ counter' = IF counter < info THEN info ELSE counter
  /\ sessionLock' = Free
  /\ UNCHANGED <<lock, method, signed, over, wrapped>>
-----------------------------------------------------------------------------
(* authorize.                                                               *)

\* The select finds the ready signal closed.
SeeReady(t) ==
  /\ Goto(t, "authorize", "sign")
  /\ UNCHANGED <<sessionLock, lock, data>>

\* The select finds the context over.
SeeOver(t) ==
  /\ t \in over
  /\ Goto(t, "authorize", "failed")
  /\ UNCHANGED <<sessionLock, lock, data>>

CanSign(t) == method[t] = "HMAC" \/ (method[t] = "GCM" /\ counter # MaxCounter)

\* Both take the next counter before they look at the message.
SpendCounter ==
  /\ counter' = (counter + 1) % (MaxCounter + 1)
  /\ wrapped' = (wrapped \/ counter = MaxCounter)

\* Encrypt or AuthorizeHMAC succeeds; the lock is taken and released.
Sign(t) ==
  /\ lock = Free
  /\ CanSign(t)
  /\ Goto(t, "sign", "sent")
  /\ SpendCounter
  /\ signed' = [signed EXCEPT ![t] = counter']
  /\ UNCHANGED <<sessionLock, lock, method, over>>

\* Encrypt refuses the rollover with the counter as it is; what is wrong with the
\* message or its expiry time (extractMetadata) is found when the counter is spent.
RefuseToSign(t) ==
  /\ method[t] # "unknown"
  /\ IF CanSign(t) THEN SpendCounter ELSE UNCHANGED <<counter, wrapped>>

\* Mutated form of SignFails: the error path forgets to unlock.
FailLocked(t) ==
  /\ lock = Free
  /\ RefuseToSign(t)
  /\ Goto(t, "sign", "authorize")
  /\ lock' = t
  /\ UNCHANGED <<sessionLock, method, signed, over>>

\* Signing fails: "Retry until caller cancels context".
SignFails(t) ==
  /\ lock = Free
  /\ RefuseToSign(t)
  /\ Goto(t, "sign", "authorize")
  /\ UNCHANGED <<sessionLock, lock, method, signed, over>>

\* The default case returns an error with the lock held.
UnknownMethod(t) ==
  /\ lock = Free
  /\ method[t] = "unknown"
  /\ Goto(t, "sign", "failed")
  /\ lock' = t
  /\ UNCHANGED <<sessionLock, data>>

EndContext(t) ==
  /\ t \notin over
  /\ over' = over \cup {t}
  /\ UNCHANGED <<sessionLock, lock, pc, method, counter, signed, wrapped>>
-----------------------------------------------------------------------------
SenderStep(t) ==
  TakeOuter(t) \/ LookUp(t) \/ SeeReady(t) \/ Sign(t) \/ SignFails(t) \/ UnknownMethod(t)

KeeperStep(k) == TakeOuter(k) \/ \E info \in Reports : Keep(k, info)

Next ==
  \/ \E t \in Threads : Arrive(t)
  \/ \E t \in Senders : SenderStep(t) \/ SeeOver(t) \/ EndContext(t)
  \/ \E k \in Keepers : KeeperStep(k)

(***************************************************************************)
(* Go's mutexes hand themselves to whoever has waited longest, and a       *)
(* select chooses at random among the cases that are ready: a thread that  *)
(* can take a lock, or see its context over, again and again does so.      *)
(* Nothing forces a thread to arrive or a context to end.                  *)
(***************************************************************************)
Spec ==
  /\ Init /\ [][Next]_vars
  /\ \A t \in Senders : SF_vars(SenderStep(t)) /\ SF_vars(SeeOver(t))
  /\ \A k \in Keepers : SF_vars(KeeperStep(k))
-----------------------------------------------------------------------------
(***************************************************************************)
(* Commands authorized at the same time carry different counters, whatever *)
(* session info arrives and whatever signatures fail in between, unless    *)
(* HMAC authorization, which has no test for the last counter, has wrapped *)
(* it to 0.                                                                *)
(***************************************************************************)
Authorized == {t \in Senders : pc[t] = "sent"}
CountersDistinct ==
  ~wrapped => \A t, u \in Authorized : t # u => signed[t] # signed[u]

\* Every sender asks for a method that authorize knows; for another it returns
\* with session.lock held (session.go:83), which nobody can take from then on.
MethodsKnown == \A t \in Senders : method[t] # "unknown"

(***************************************************************************)
(* "they should never hold the lock during potentially long-running        *)
(* operations" (session.go:27): the listener and Cache get through, even   *)
(* while a sender that cannot sign retries without pause.                  *)
(***************************************************************************)
KeepersGetThrough ==
  \A k \in Keepers : (MethodsKnown /\ pc[k] \in {"outer", "inner"}) ~> pc[k] = "idle"

(***************************************************************************)
(* Send gets as far as transmitting, or gives up when its context ends,    *)
(* although it waits for both locks and retries what cannot be signed.     *)
(***************************************************************************)
SendersEnd ==
  \A t \in Senders :
    (MethodsKnown /\ t \in over /\ pc[t] # "idle") ~> pc[t] \in {"sent", "failed"}
=============================================================================
