------------------------------- MODULE Verifier ------------------------------
(***************************************************************************)
(* The vehicle's side of a session: internal/authentication/verifier.go.   *)
(* The method Verify holds the lock throughout, so each call is one        *)
(* action; what interleaves with it is the arrival of messages (any signed *)
(* message may arrive any number of times, in any order) and the passing,  *)
(* stopping and setting of clocks.                                         *)
(***************************************************************************)
EXTENDS VerifierOps

CONSTANTS
  MsgCounters,   \* the counters that messages carry
  ExpiryTimes    \* the expires_at values that messages carry

ASSUME VerifierAssumption ==
  /\ MsgCounters \subseteq 0 .. MaxCounter
  /\ ExpiryTimes \subseteq 0 .. MaxCounter

Epochs == 1 .. MaxEpoch

(***************************************************************************)
(* A signer fills the epoch field with the epoch it signs for; the field   *)
(* may also be absent.  A message that nobody signed (tagEpoch 0) leaves   *)
(* it out here: with the current epoch it would fare no better, with       *)
(* another like a message signed for that.  Of a message without signature *)
(* data, or for another domain, Verify looks at nothing else.              *)
(***************************************************************************)
Signed ==
  {m \in [flaw      : {"none"},
          epoch     : {NoEpoch} \cup Epochs,
          tagEpoch  : {0} \cup Epochs,
          counter   : MsgCounters,
          expiresAt : ExpiryTimes] : m.epoch \in {NoEpoch, m.tagEpoch}}

Misdirected ==
  [flaw : {"unsigned", "misaddressed"}, epoch : {NoEpoch}, tagEpoch : {0},
   counter : {0}, expiresAt : {0}]

Messages == Signed \cup Misdirected

NoVerdict == [accepted |-> FALSE, expiresAt |-> 0, age |-> 0, realAge |-> 0, span |-> 0]

VARIABLES
  verdict,   \* history: what the last Verify accepted, the epoch's age when it read the clock,
             \* and the time since it first accepted the same message without a counter
  born,      \* history: the instant at which the current epoch began
  trusted,   \* history: the wall clock was not set since the current epoch began
  accepted,  \* history: <<epoch, counter>> of every accepted message with a counter
  twice,     \* history: the members of accepted that were accepted again
  counterless \* history: <<epoch, expires_at, time>> of the first acceptance of each message
              \* without a counter

verifierVars == <<v, clock, verdict, born, trusted, accepted, twice, counterless>>
history == <<accepted, twice, counterless>>

TypeOK ==
  /\ v \in Verifiers
  /\ clock \in Instants
  /\ verdict \in [accepted : BOOLEAN, expiresAt : Nat, age : Int, realAge : Int, span : Int]
  /\ born \in Instants
  /\ trusted \in BOOLEAN
  /\ accepted \subseteq (Nat \X Counters)
  /\ twice \subseteq accepted
  /\ counterless \subseteq (Nat \X Nat \X Int)

-----------------------------------------------------------------------------
(* The clock reading d seconds later, with nobody asleep.                   *)
Advance(d) == [mono |-> clock.mono + d, wall |-> clock.wall + d, real |-> clock.real + d]

\* Notes whether the step began an epoch: it did so when the clock showed zeroMono.
TrackEpoch ==
  /\ v'.epoch <= MaxEpoch
  /\ IF v'.epoch # v.epoch
       THEN born' = Advance(v'.zeroMono - clock.mono) /\ trusted' = TRUE
       ELSE UNCHANGED <<born, trusted>>

\* When a message without a counter was first accepted, and how long ago that was.
Earlier(m) == {t \in counterless : t[1] = m.tagEpoch /\ t[2] = m.expiresAt}
Span(m) ==
  IF m.counter = 0 /\ Earlier(m) # {}
    THEN clock.mono - (CHOOSE t \in Earlier(m) : TRUE)[3]
    ELSE 0

\* Verify(m), which may still be running when the second changes.
Verify(m, d, rng) ==
  LET later == Advance(d)
      a     == Answer(v, m, clock, later, rng)
      key   == <<m.tagEpoch, m.counter>>
      ok    == a.result = Accepted
  IN /\ later.real <= MaxTime /\ later.wall <= MaxTime
     /\ m.tagEpoch <= v.epoch       \* nobody signs for an epoch that has not begun
     /\ v' = a.ver
     /\ clock' = later
     /\ TrackEpoch
     /\ verdict' = IF ok THEN [accepted  |-> TRUE,
                               expiresAt |-> m.expiresAt,
                               age       |-> clock.mono - born.mono,
                               realAge   |-> clock.real - born.real,
                               span      |-> Span(m)]
                         ELSE NoVerdict
     /\ accepted' = IF ok /\ m.counter > 0 THEN accepted \cup {key} ELSE accepted
     /\ twice' = IF ok /\ m.counter > 0 THEN twice \cup (accepted \cap {key}) ELSE twice
     /\ counterless' = IF ok /\ m.counter = 0 /\ Earlier(m) = {}
                          THEN counterless \cup {<<m.tagEpoch, m.expiresAt, clock.mono>>}
                          ELSE counterless

\* SessionInfo, SignedSessionInfo and SetSessionInfo.
GetSessionInfo(rng) ==
  /\ v' = AdjustClock(v, clock, rng).ver
  /\ TrackEpoch
  /\ verdict' = NoVerdict
  /\ UNCHANGED <<clock, history>>

Elapse(now) ==
  /\ now.real <= MaxTime /\ now.wall <= MaxTime
  /\ clock' = now
  /\ verdict' = NoVerdict
  /\ UNCHANGED <<v, born, history>>

Tick == Elapse(Advance(1)) /\ UNCHANGED trusted

\* The process sleeps for a second: its monotonic clock stands still.
Sleep == Elapse([Advance(1) EXCEPT !.mono = clock.mono]) /\ UNCHANGED trusted

\* The wall clock is set over the network.
SetWall(w) ==
  /\ w # clock.wall
  /\ Elapse([clock EXCEPT !.wall = w])
  /\ trusted' = FALSE

\* NewVerifier: timeZero is zero, so the first epoch begins at once.  (When
\* the random source fails, no Verifier is returned.)
VerifierInit ==
  /\ clock = [mono |-> 0, wall |-> 0, real |-> 0]
  /\ v = [epoch |-> 1, counter |-> 0, window |-> {}, zeroMono |-> 0, zeroWall |-> 0]
  /\ verdict = NoVerdict
  /\ born = clock
  /\ trusted = TRUE
  /\ accepted = {}
  /\ twice = {}
  /\ counterless = {}

VerifierNext ==
  \/ \E m \in Messages, d \in {0, 1}, rng \in BOOLEAN : Verify(m, d, rng)
  \/ \E rng \in BOOLEAN : GetSessionInfo(rng)
  \/ Tick
  \/ Sleep
  \/ \E w \in 0 .. MaxTime : SetWall(w)

VerifierSpec == VerifierInit /\ [][VerifierNext]_verifierVars
-----------------------------------------------------------------------------
\* The counters already used in the current epoch; 0 is never accepted as a new one.
Used == {0} \cup {c \in Counters : <<v.epoch, c>> \in accepted}

(***************************************************************************)
(* The counter and window say the truth about the commands accepted in the *)
(* current epoch, although a new epoch keeps the old epoch's window; only  *)
(* after a failed rotation is the counter pinned at its maximum instead.   *)
(***************************************************************************)
WindowTellsTruth ==
  v.counter # MaxCounter => Represents(v.counter, v.window, Used)

(***************************************************************************)
(* At most once: two messages with the same epoch and counter are never    *)
(* both accepted, whatever is replayed or reordered, across new epochs,    *)
(* failed rotations and messages without the epoch field.                  *)
(***************************************************************************)
NoReplay == twice = {}

(***************************************************************************)
(* "cannot extend the expiration time of a command" (verifier.go:155): no  *)
(* setting of the wall clock makes Verify accept a message later, by the   *)
(* monotonic clock, than expires_at seconds into the epoch.                *)
(***************************************************************************)
NeverExtended ==
  verdict.accepted /\ verdict.expiresAt # 0 => verdict.age <= verdict.expiresAt

(***************************************************************************)
(* Sleep is corrected: while nobody sets the wall clock, a message is not  *)
(* accepted more than a second after it expires in real time, however long *)
(* the monotonic clock was frozen (verifier.go:148-151).                   *)
(***************************************************************************)
SleepCorrected ==
  trusted /\ verdict.accepted /\ verdict.expiresAt # 0
    => verdict.realAge <= verdict.expiresAt + 1

(***************************************************************************)
(* A message without a counter can be replayed, but only for a bounded     *)
(* time: its acceptances span at most maxSecondsWithoutCounter seconds, and *)
(* one more because the clock is read twice (verifier.go:285-295).         *)
(***************************************************************************)
ReplayTimeBounded == verdict.span <= MaxSecondsWithoutCounter + 1
=============================================================================
