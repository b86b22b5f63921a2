----------------------------- MODULE VerifierOps -----------------------------
(***************************************************************************)
(* internal/authentication/verifier.go as operators on a Verifier: an      *)
(* epoch, a command counter, an anti-replay window and the instant         *)
(* timeZero at which the epoch began, and the Verifier and the clocks that *)
(* they are applied to.  Verifier (one Verifier against all messages and   *)
(* clocks) and SecureChannel (a Verifier and a Signer over a network) are  *)
(* two specifications of them.                                             *)
(*                                                                         *)
(* Time is in whole seconds.  An instant has a monotonic reading, which    *)
(* stands still while the process sleeps, and a wall reading, which the    *)
(* network may set; "real" is the time neither clock is guaranteed to      *)
(* follow, and is only read by properties.                                 *)
(*                                                                         *)
(* Epoch identifiers are 16 random bytes; a fresh one is modelled as the   *)
(* next natural number, so identifiers never repeat.                       *)
(***************************************************************************)
EXTENDS WindowOps

CONSTANTS
  MaxCounter,                \* 0xFFFFFFFF: the largest uint32
  EpochLength,               \* epochLength, in seconds
  MaxSecondsWithoutCounter,  \* maxSecondsWithoutCounter
  YearInSeconds,             \* adjustClock's bound on the wall clock's advance
  MaxEpoch,                  \* bound: the number of epochs
  MaxTime                    \* bound: how far the clocks may go

ASSUME LimitsAssumption ==
  /\ MaxCounter \in Nat \ {0}
  /\ EpochLength \in Nat
  /\ MaxSecondsWithoutCounter \in Nat
  /\ YearInSeconds \in Nat
  /\ MaxEpoch \in Nat
  /\ MaxTime \in Nat

VARIABLES
  v,         \* the Verifier: epoch, counter, window, timeZero (both readings)
  clock      \* the current instant: mono, wall, real

NoEpoch == 0   \* the epoch field left out of a message

Counters == 0 .. MaxCounter
Instants == [mono : Int, wall : Int, real : Int]
Verifiers == [epoch : Nat \ {0}, counter : Counters, window : SUBSET Bits,
              zeroMono : Int, zeroWall : Int]

(***************************************************************************)
(* A message as Verify reads it: what is wrong with it before its          *)
(* signature is looked at (flaw), its epoch, counter and expires_at        *)
(* fields, and the epoch its tag verifies under (tagEpoch; 0 when the tag  *)
(* is not a signer's).                                                     *)
(***************************************************************************)
Accepted == "accepted"
PlainFaults == {"INTERNAL", "UNRECOGNIZED_METHOD", "WRONG_DOMAIN"}

(* peer.go timestamp: the age of the epoch by the monotonic clock.          *)
Timestamp(ver, now) == now.mono - ver.zeroMono

Done(ver)   == [ver |-> ver, err |-> FALSE]
Failed(ver) == [ver |-> ver, err |-> TRUE]

\* Mutated form of RotateEpochIfNeeded: a failed random read restarts the counter too.
RotateResetsOnFailure(ver, force, now, rng) ==
  LET restarted == [ver EXCEPT !.counter = 0, !.zeroMono = now.mono, !.zeroWall = now.wall] IN
  IF force \/ ver.counter = MaxCounter \/ Timestamp(ver, now) > EpochLength
    THEN IF rng THEN Done([restarted EXCEPT !.epoch = @ + 1]) ELSE Failed(restarted)
    ELSE Done(ver)

(***************************************************************************)
(* rotateEpochIfNeeded: a new epoch starts the counter at 0 and keeps the  *)
(* old window; when the random source fails the counter is put at its      *)
(* maximum, which makes the next call try again.                           *)
(***************************************************************************)
RotateEpochIfNeeded(ver, force, now, rng) ==
  IF force \/ ver.counter = MaxCounter \/ Timestamp(ver, now) > EpochLength
    THEN IF rng
           THEN Done([ver EXCEPT !.epoch = @ + 1, !.counter = 0,
                                 !.zeroMono = now.mono, !.zeroWall = now.wall])
           ELSE Failed([ver EXCEPT !.counter = MaxCounter])
    ELSE Done(ver)

\* Mutated forms of AdjustClock: it follows the wall clock both ways; it never corrects.
AdjustBothWays(ver, now, rng) ==
  IF ver.zeroWall > now.wall
    THEN RotateEpochIfNeeded(ver, TRUE, now, rng)
    ELSE RotateEpochIfNeeded([ver EXCEPT !.zeroMono = now.mono - (now.wall - ver.zeroWall)],
                             FALSE, now, rng)

AdjustNever(ver, now, rng) == RotateEpochIfNeeded(ver, FALSE, now, rng)

(***************************************************************************)
(* adjustClock: when the wall clock has gained more than a second on the   *)
(* monotonic clock the process has slept, and timeZero's monotonic reading *)
(* moves back to agree with the wall clock; the wall clock never moves it  *)
(* forward.  A wall clock that went back, or ahead by more than a year,    *)
(* forces a new epoch.  (The code also forces one if the elapsed time      *)
(* exceeds the time since year 1; timeZero is never before year 1.)        *)
(***************************************************************************)
AdjustClock(ver, now, rng) ==
  LET elapsedWall    == now.wall - ver.zeroWall
      elapsedProcess == Timestamp(ver, now)
  IN IF elapsedWall < 0 \/ elapsedWall > YearInSeconds
       THEN RotateEpochIfNeeded(ver, TRUE, now, rng)
       ELSE RotateEpochIfNeeded(
              IF elapsedWall - elapsedProcess > 1
                THEN [ver EXCEPT !.zeroMono = now.mono - elapsedWall]
                ELSE ver,
              FALSE, now, rng)
-----------------------------------------------------------------------------
\* Mutated forms of VerifySessionInfo: no expiry check; no check that a
\* message without a counter is short-lived.
NoExpiryCheck(ver, m, now, later) ==
  IF m.flaw = "misaddressed" THEN "WRONG_DOMAIN"
  ELSE IF m.epoch \notin {NoEpoch, ver.epoch} THEN "INCORRECT_EPOCH"
  ELSE Accepted

NoLifetimeCheck(ver, m, now, later) ==
  IF m.flaw = "misaddressed" THEN "WRONG_DOMAIN"
  ELSE IF m.epoch \notin {NoEpoch, ver.epoch} THEN "INCORRECT_EPOCH"
  ELSE IF m.expiresAt # 0 /\ m.expiresAt < Timestamp(ver, now) THEN "TIME_EXPIRED"
  ELSE Accepted

(***************************************************************************)
(* verifySessionInfo.  The clock is read twice: the second reading may be  *)
(* a second later, and the unsigned subtraction then wraps for a message   *)
(* that expires in between.                                                *)
(***************************************************************************)
VerifySessionInfo(ver, m, now, later) ==
  LET remaining == (m.expiresAt - Timestamp(ver, later)) % (MaxCounter + 1) IN
  IF m.flaw = "misaddressed" THEN "WRONG_DOMAIN"
  ELSE IF m.epoch \notin {NoEpoch, ver.epoch} THEN "INCORRECT_EPOCH"
  ELSE IF m.expiresAt # 0 /\ m.expiresAt < Timestamp(ver, now) THEN "TIME_EXPIRED"
  ELSE IF m.expiresAt > EpochLength THEN "BAD_PARAMETER"
  ELSE IF /\ m.counter = 0 \/ m.counter < ver.counter
          /\ m.expiresAt = 0 \/ remaining > MaxSecondsWithoutCounter
       THEN "TIME_TO_LIVE_TOO_LONG"
  ELSE Accepted

\* verifyGCM and verifyHMAC: the tag is computed over the Verifier's own epoch.
TagFault(ver, m) ==
  IF m.tagEpoch = ver.epoch THEN Accepted ELSE "INVALID_SIGNATURE"

(***************************************************************************)
(* The answer to a message and the Verifier it leaves behind.              *)
(* signatureError collects session info for the reply, and so adjusts the  *)
(* clock a second time.                                                    *)
(***************************************************************************)
SignatureError(ver, fault, later, rng) ==
  LET adj == AdjustClock(ver, later, rng) IN
  [ver |-> adj.ver, result |-> IF adj.err THEN "INTERNAL" ELSE fault]

Answer(ver, m, now, later, rng) ==
  LET adj   == AdjustClock(ver, now, rng)
      info  == VerifySessionInfo(adj.ver, m, now, later)
      fault == IF info # Accepted THEN info ELSE TagFault(adj.ver, m)
      upd   == UpdateSlidingWindow(adj.ver.counter, adj.ver.window, m.counter)
      moved == [adj.ver EXCEPT !.counter = upd.counter, !.window = upd.window]
  IN IF adj.err THEN [ver |-> adj.ver, result |-> "INTERNAL"]
     ELSE IF m.flaw = "unsigned" THEN [ver |-> adj.ver, result |-> "UNRECOGNIZED_METHOD"]
     ELSE IF fault \in PlainFaults THEN [ver |-> adj.ver, result |-> fault]
     ELSE IF fault # Accepted THEN SignatureError(adj.ver, fault, later, rng)
     ELSE IF m.counter = 0 THEN [ver |-> adj.ver, result |-> Accepted]
     ELSE IF upd.ok THEN [ver |-> moved, result |-> Accepted]
     ELSE SignatureError(moved, "INVALID_TOKEN_OR_COUNTER", later, rng)
=============================================================================
