-------------------------------- MODULE Signer -------------------------------
(***************************************************************************)
(* The client's side of a session: internal/authentication/signer.go as    *)
(* operators on a signer state.  A signer keeps the epoch and counter it   *)
(* believes the vehicle to be at, setTime (the vehicle's clock in the last *)
(* session info it adopted) and timeZero, the client time at which it      *)
(* believes the epoch began.  Client times are whole seconds of the        *)
(* client's monotonic clock.                                               *)
(***************************************************************************)
EXTENDS Integers

CONSTANTS
  MaxCounter,    \* 0xFFFFFFFF: the largest uint32
  EpochLength    \* epochLength, in seconds

Wrap(n) == n % (MaxCounter + 1)   \* conversion to uint32

\* The session info a Verifier reports.
SessionInfoOf(epoch, counter, clockTime) ==
  [epoch |-> epoch, counter |-> counter, clockTime |-> clockTime]

\* NewSigner from info received at client time now.
NewSigner(info, now) ==
  [epoch |-> info.epoch, counter |-> info.counter,
   setTime |-> info.clockTime, timeZero |-> now - info.clockTime]

(***************************************************************************)
(* Mutated forms of UpdateSessionInfo: a new epoch brings its own counter; *)
(* another epoch is not noticed.                                           *)
(***************************************************************************)
UpdateResetsCounter(s, info, now) ==
  IF s.epoch # info.epoch THEN NewSigner(info, now)
  ELSE IF s.setTime <= info.clockTime
    THEN [NewSigner(info, now) EXCEPT
            !.counter = IF s.counter < info.counter THEN info.counter ELSE s.counter]
    ELSE s

UpdateMissesEpoch(s, info, now) ==
  IF s.setTime <= info.clockTime
    THEN [NewSigner(info, now) EXCEPT
            !.epoch = s.epoch,
            !.counter = IF s.counter < info.counter THEN info.counter ELSE s.counter]
    ELSE s

(***************************************************************************)
(* UpdateSessionInfo: info of another epoch always replaces the session's, *)
(* info of the same epoch only when it is not older; the counter is never  *)
(* lowered, not even for another epoch.                                    *)
(***************************************************************************)
UpdateSessionInfo(s, info, now) ==
  IF s.epoch # info.epoch \/ s.setTime <= info.clockTime
    THEN [NewSigner(info, now) EXCEPT
            !.counter = IF s.counter < info.counter THEN info.counter ELSE s.counter]
    ELSE s

\* The expiry time of a command, in seconds of the vehicle's epoch.
ExpiresAt(s, lifetime, now) == Wrap(now + lifetime - s.timeZero)

\* Encrypt refuses to go past the last counter; AuthorizeHMAC has no such test.
CanEncrypt(s) == s.counter # MaxCounter
NextCounter(s) == Wrap(s.counter + 1)

\* extractMetadata refuses an expiry time past the epoch's length, after the
\* counter has been taken.
CanSign(s, lifetime, now) == ExpiresAt(s, lifetime, now) <= EpochLength

\* ExportSessionInfo at client time now, as it is cached.
Export(s, now) ==
  [info |-> SessionInfoOf(s.epoch, s.counter, Wrap(now - s.timeZero)), createdAt |-> now]

\* ImportSessionInfo: the epoch's start is computed from when the entry was made.
Import(entry, now) ==
  [NewSigner(entry.info, now) EXCEPT !.timeZero = entry.createdAt - entry.info.clockTime]
=============================================================================
