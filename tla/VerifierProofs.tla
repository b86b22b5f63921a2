---------------------------- MODULE VerifierProofs ---------------------------
(***************************************************************************)
(* Theorems about the Verifier, alone against all messages and clocks and  *)
(* together with a Signer over an unreliable network, for every window and *)
(* word size, counter range, epoch length and set of messages.             *)
(***************************************************************************)
EXTENDS Verifier, SecureChannel, WindowOpsProofs

(***************************************************************************)
(* What the operators of VerifierOps guarantee of every Verifier state     *)
(* that they pass around, given the set acc of <<epoch, counter>> pairs    *)
(* accepted so far.                                                        *)
(***************************************************************************)
UsedIn(e, acc) == {0} \cup {c \in Counters : <<e, c>> \in acc}

(***************************************************************************)
(* The window is truthful unless the counter is pinned at its maximum, and *)
(* nothing was ever accepted for a later epoch, so that a new epoch starts *)
(* with no counter used whatever bits its window inherits.                 *)
(***************************************************************************)
Sound(ver, acc) ==
  /\ ver \in Verifiers
  /\ ver.counter # MaxCounter => Represents(ver.counter, ver.window, UsedIn(ver.epoch, acc))
  /\ \A k \in acc : k[1] <= ver.epoch

Skew(at) == at.wall - at.mono

(***************************************************************************)
(* The epoch is never an earlier one.  Within an epoch the counter grows,  *)
(* timeZero's wall reading stays, and its monotonic reading moves only     *)
(* backwards, so that the epoch gets older but never younger, and only to  *)
(* where the clocks' present skew says.  A new epoch begins at the present *)
(* skew, too.                                                              *)
(***************************************************************************)
Ages(new, old, at) ==
  /\ new.epoch >= old.epoch
  /\ IF new.epoch = old.epoch
       THEN /\ new.counter >= old.counter
            /\ new.zeroWall = old.zeroWall
            /\ new.zeroMono <= old.zeroMono
            /\ new.zeroMono = old.zeroMono \/ new.zeroWall - new.zeroMono = Skew(at)
       ELSE new.zeroWall - new.zeroMono = Skew(at) /\ new.zeroMono <= at.mono

(***************************************************************************)
(* Success leaves a usable counter, not used in a new epoch, and a current *)
(* epoch: it is not over, and the monotonic clock lags behind the wall     *)
(* clock by a second at most.                                              *)
(***************************************************************************)
Current(ver, at) ==
  /\ Timestamp(ver, at) <= EpochLength
  /\ at.wall - ver.zeroWall <= Timestamp(ver, at) + 1

Guarantee(r, ver, acc, at) ==
  /\ Sound(r.ver, acc)
  /\ Ages(r.ver, ver, at)
  /\ r.err \in BOOLEAN
  /\ ~r.err => /\ r.ver.counter # MaxCounter
               /\ r.ver.counter \in {0, ver.counter}
               /\ Current(r.ver, at)

LEMMA VerifierFields ==
  ASSUME NEW ver \in Verifiers
  PROVE  /\ ver.epoch \in Nat \ {0} /\ ver.counter \in Nat /\ ver.counter <= MaxCounter
         /\ ver.window \in SUBSET Bits /\ ver.zeroMono \in Int /\ ver.zeroWall \in Int
BY LimitsAssumption DEF Verifiers, Counters

LEMMA InstantFields ==
  ASSUME NEW at \in Instants
  PROVE  at.mono \in Int /\ at.wall \in Int /\ at.real \in Int
BY DEF Instants

(* Rotation keeps its guarantee, whether or not the random source works, if *)
(* the Verifier's clock is in order.                                        *)
LEMMA RotateSound ==
  ASSUME NEW acc \in SUBSET (Nat \X Counters), NEW ver, Sound(ver, acc),
         NEW at \in Instants, NEW force \in BOOLEAN, NEW rng \in BOOLEAN,
         at.wall - ver.zeroWall <= Timestamp(ver, at) + 1 \/ force
  PROVE  /\ Guarantee(RotateEpochIfNeeded(ver, force, at, rng), ver, acc, at)
         /\ rng => ~RotateEpochIfNeeded(ver, force, at, rng).err
<1> USE LimitsAssumption
<1> SUFFICES ASSUME NEW r, r = RotateEpochIfNeeded(ver, force, at, rng)
             PROVE  Guarantee(r, ver, acc, at) /\ (rng => ~r.err)
  OBVIOUS
<1> DEFINE due == force \/ ver.counter = MaxCounter \/ Timestamp(ver, at) > EpochLength
<1>0. /\ ver \in Verifiers /\ ver.epoch \in Nat \ {0} /\ ver.counter \in Nat
      /\ ver.counter <= MaxCounter /\ ver.zeroMono \in Int /\ ver.zeroWall \in Int
      /\ at.mono \in Int /\ at.wall \in Int
  BY VerifierFields, InstantFields DEF Sound
<1>1. CASE due /\ rng
  <2> DEFINE fresh == [ver EXCEPT !.epoch = @ + 1, !.counter = 0,
                                  !.zeroMono = at.mono, !.zeroWall = at.wall]
  <2>1. r = [ver |-> fresh, err |-> FALSE]
    BY <1>1 DEF RotateEpochIfNeeded, Done
  <2>2. fresh \in Verifiers
    <3>1. at.mono \in Int /\ at.wall \in Int /\ 0 \in Counters /\ ver.epoch + 1 \in Nat \ {0}
      BY <1>0 DEF Counters
    <3> QED BY <3>1, <1>0 DEF Verifiers
  <2>3. /\ fresh.epoch = ver.epoch + 1 /\ fresh.counter = 0
        /\ fresh.zeroMono = at.mono /\ fresh.zeroWall = at.wall
    BY <1>0 DEF Verifiers
  <2> HIDE DEF fresh
  <2>4. \A k \in acc : k[1] <= fresh.epoch /\ k[1] # fresh.epoch
    BY <2>3, <1>0 DEF Sound
  <2>5. UsedIn(fresh.epoch, acc) = {0}
    BY <2>4 DEF UsedIn
  <2>6. Represents(0, fresh.window, {0})
    BY DEF Represents
  <2>7. Sound(fresh, acc)
    BY <2>2, <2>3, <2>4, <2>5, <2>6 DEF Sound
  <2>8. r.ver = fresh /\ r.err = FALSE
    BY <2>1
  <2>9. Ages(fresh, ver, at)
    BY <2>3, <1>0 DEF Ages, Skew
  <2>10. Current(fresh, at)
    BY <2>3, <1>0 DEF Current, Timestamp
  <2> QED BY <2>3, <2>7, <2>8, <2>9, <2>10 DEF Guarantee
<1>2. CASE due /\ ~rng
  <2> DEFINE pinned == [ver EXCEPT !.counter = MaxCounter]
  <2>1. r = [ver |-> pinned, err |-> TRUE]
    BY <1>2 DEF RotateEpochIfNeeded, Failed
  <2>2. /\ pinned \in Verifiers /\ pinned.counter = MaxCounter
        /\ pinned.epoch = ver.epoch /\ pinned.zeroMono = ver.zeroMono
        /\ pinned.zeroWall = ver.zeroWall
    BY <1>0 DEF Verifiers, Counters
  <2> HIDE DEF pinned
  <2>3. Sound(pinned, acc)
    BY <2>2 DEF Sound
  <2>4. r.ver = pinned /\ r.err = TRUE
    BY <2>1
  <2>5. Ages(pinned, ver, at)
    BY <2>2, <1>0 DEF Ages
  <2> QED BY <1>2, <2>3, <2>4, <2>5 DEF Guarantee
<1>3. CASE ~due
  <2>1. r.ver = ver /\ r.err = FALSE
    BY <1>3 DEF RotateEpochIfNeeded, Done
  <2>2. Ages(ver, ver, at)
    BY <1>0 DEF Ages
  <2>3. Current(ver, at)
    BY <1>0, <1>3 DEF Current, Timestamp
  <2> QED BY <2>1, <2>2, <2>3, <1>3 DEF Guarantee
<1> QED BY <1>1, <1>2, <1>3

(* Within an epoch, or into a new one, and once more.                       *)
LEMMA AgesTransitive ==
  ASSUME NEW x \in Verifiers, NEW y \in Verifiers, NEW z \in Verifiers,
         NEW at \in Instants, NEW later \in Instants,
         Skew(later) = Skew(at), at.mono <= later.mono,
         Ages(y, x, at), Ages(z, y, later)
  PROVE  Ages(z, x, later)
<1>1. /\ x.epoch \in Nat /\ x.counter \in Nat /\ x.zeroMono \in Int /\ x.zeroWall \in Int
      /\ y.epoch \in Nat /\ y.counter \in Nat /\ y.zeroMono \in Int /\ y.zeroWall \in Int
      /\ z.epoch \in Nat /\ z.counter \in Nat /\ z.zeroMono \in Int /\ z.zeroWall \in Int
      /\ at.mono \in Int /\ later.mono \in Int
  BY VerifierFields, InstantFields
<1>2. CASE z.epoch = x.epoch
  <2>1. y.epoch = x.epoch
    BY <1>1, <1>2 DEF Ages
  <2> QED BY <1>1, <1>2, <2>1 DEF Ages
<1>3. CASE z.epoch # x.epoch
  BY <1>1, <1>3 DEF Ages
<1> QED BY <1>2, <1>3

(* Adjusting the clock keeps the guarantee: the wall clock makes an epoch   *)
(* older or ends it, never younger.                                         *)
LEMMA AdjustSound ==
  ASSUME NEW acc \in SUBSET (Nat \X Counters), NEW ver, Sound(ver, acc),
         NEW at \in Instants, NEW rng \in BOOLEAN
  PROVE  /\ Guarantee(AdjustClock(ver, at, rng), ver, acc, at)
         /\ rng => ~AdjustClock(ver, at, rng).err
<1> USE LimitsAssumption
<1> DEFINE elapsed == at.wall - ver.zeroWall
           moved == [ver EXCEPT !.zeroMono = at.mono - elapsed]
<1> SUFFICES ASSUME NEW r, r = AdjustClock(ver, at, rng)
             PROVE  Guarantee(r, ver, acc, at) /\ (rng => ~r.err)
  OBVIOUS
<1>0. /\ ver \in Verifiers /\ ver.epoch \in Nat \ {0} /\ ver.counter \in Nat
      /\ ver.zeroMono \in Int /\ ver.zeroWall \in Int
      /\ at.mono \in Int /\ at.wall \in Int
  BY VerifierFields, InstantFields DEF Sound
<1>1. CASE elapsed < 0 \/ elapsed > YearInSeconds
  <2>1. r = RotateEpochIfNeeded(ver, TRUE, at, rng)
    BY <1>1 DEF AdjustClock
  <2> QED BY <2>1, RotateSound
<1>2. CASE ~(elapsed < 0 \/ elapsed > YearInSeconds) /\ elapsed - Timestamp(ver, at) > 1
  <2>1. r = RotateEpochIfNeeded(moved, FALSE, at, rng)
    BY <1>2 DEF AdjustClock
  <2>2. /\ moved \in Verifiers /\ moved.epoch = ver.epoch
        /\ moved.counter = ver.counter /\ moved.window = ver.window
        /\ moved.zeroMono = at.mono - elapsed /\ moved.zeroWall = ver.zeroWall
    BY <1>0 DEF Verifiers
  <2> HIDE DEF moved
  <2>3. Ages(moved, ver, at)
    BY <1>0, <1>2, <2>2 DEF Timestamp, Ages, Skew
  <2>4. Sound(moved, acc)
    BY <2>2 DEF Sound
  <2>5. at.wall - moved.zeroWall <= Timestamp(moved, at) + 1
    BY <2>2, <1>0 DEF Timestamp
  <2>6. Guarantee(r, moved, acc, at) /\ (rng => ~r.err)
    BY <2>1, <2>4, <2>5, RotateSound
  <2>7. Ages(r.ver, ver, at)
    BY <2>2, <2>3, <2>6, <1>0, AgesTransitive, InstantFields DEF Guarantee, Sound
  <2> QED BY <2>2, <2>6, <2>7 DEF Guarantee
<1>3. CASE ~(elapsed < 0 \/ elapsed > YearInSeconds) /\ ~(elapsed - Timestamp(ver, at) > 1)
  <2>1. r = RotateEpochIfNeeded(ver, FALSE, at, rng)
    BY <1>3 DEF AdjustClock
  <2>2. at.wall - ver.zeroWall <= Timestamp(ver, at) + 1
    BY <1>0, <1>3 DEF Timestamp
  <2> QED BY <2>1, <2>2, RotateSound
<1> QED BY <1>1, <1>2, <1>3

(***************************************************************************)
(* The heart of the matter: what a refusal and an acceptance guarantee     *)
(* when the message was signed for an epoch that has begun.  An accepted   *)
(* counter is one never accepted in its epoch; the epoch is current, and   *)
(* no older than the message's expiry time when the answer is given; and a *)
(* message without a counter is short-lived.  A refusal that reports the   *)
(* Verifier's state reports a current epoch.                               *)
(***************************************************************************)
Refusal(a, ver, acc, at) ==
  /\ Sound(a.ver, acc) /\ Ages(a.ver, ver, at)
  /\ a.result \notin PlainFaults => Current(a.ver, at)

Acceptance(a, ver, m, acc, at, later) ==
  /\ a.ver \in Verifiers
  /\ Ages(a.ver, ver, later)
  /\ a.ver.epoch = ver.epoch
  /\ a.ver.epoch = m.tagEpoch
  /\ Current(a.ver, at)
  /\ m.expiresAt # 0 => Timestamp(a.ver, at) <= m.expiresAt
  /\ m.counter = 0 =>
       /\ Sound(a.ver, acc)
       /\ m.expiresAt # 0
       /\ (m.expiresAt - Timestamp(a.ver, later)) % (MaxCounter + 1) <= MaxSecondsWithoutCounter
  /\ m.counter > 0 =>
       /\ <<m.tagEpoch, m.counter>> \notin acc
       /\ Represents(a.ver.counter, a.ver.window, UsedIn(a.ver.epoch, acc) \cup {m.counter})

(* The second reading of the clock within one call.                         *)
Soon(later, at) ==
  later \in Instants /\ at \in Instants /\ Skew(later) = Skew(at) /\ at.mono <= later.mono

LEMMA SignatureErrorSound ==
  ASSUME NEW acc \in SUBSET (Nat \X Counters), NEW ver \in Verifiers,
         NEW adjusted, Sound(adjusted, acc),
         NEW at, NEW later, Soon(later, at), Ages(adjusted, ver, at),
         NEW fault, NEW rng \in BOOLEAN
  PROVE  Refusal(SignatureError(adjusted, fault, later, rng), ver, acc, later)
<1> DEFINE adj == AdjustClock(adjusted, later, rng)
           a == SignatureError(adjusted, fault, later, rng)
<1>1. Guarantee(adj, adjusted, acc, later)
  BY AdjustSound DEF Soon
<1>2. a.ver = adj.ver /\ a.result = IF adj.err THEN "INTERNAL" ELSE fault
  BY DEF SignatureError
<1> HIDE DEF adj, a
<1>3. /\ Sound(adj.ver, acc) /\ Ages(adj.ver, adjusted, later)
      /\ adj.err \/ Current(adj.ver, later)
  BY <1>1 DEF Guarantee
<1>4. Ages(adj.ver, ver, later)
  BY <1>3, AgesTransitive DEF Sound, Soon
<1>5. a.result \in PlainFaults \/ Current(adj.ver, later)
  BY <1>2, <1>3 DEF PlainFaults
<1>6. Refusal(a, ver, acc, later)
  BY <1>2, <1>3, <1>4, <1>5 DEF Refusal
<1> QED BY <1>6 DEF a

(* Where the window's counter goes.                                         *)
LEMMA UpdateGrows ==
  ASSUME NEW c \in Nat, NEW w \in SUBSET Bits, NEW n \in Nat
  PROVE  /\ UpdateSlidingWindow(c, w, n).counter \in {c, n}
         /\ UpdateSlidingWindow(c, w, n).window \in SUBSET Bits
         /\ UpdateSlidingWindow(c, w, n).counter >= c
         /\ n > c => UpdateSlidingWindow(c, w, n).ok
<1> DEFINE r == UpdateSlidingWindow(c, w, n)
<1>1. CASE n = c
  <2>1. r = Reject(c, w)
    BY <1>1 DEF UpdateSlidingWindow
  <2> QED BY <2>1, <1>1 DEF Reject
<1>2. CASE n < c
  <2>1. r = IF c - n > WindowSize \/ c - n - 1 \in w
              THEN Reject(c, w)
              ELSE [counter |-> c, window |-> w \cup {c - n - 1}, ok |-> TRUE]
    BY <1>2 DEF UpdateSlidingWindow
  <2>2. CASE c - n > WindowSize \/ c - n - 1 \in w
    BY <2>1, <2>2, <1>2 DEF Reject
  <2>3. CASE ~(c - n > WindowSize \/ c - n - 1 \in w)
    <3>1. c - n - 1 \in Bits
      BY <2>3, <1>2, WindowFitsWord DEF Bits
    <3> QED BY <2>1, <2>3, <3>1, <1>2
  <2> QED BY <2>2, <2>3
<1>3. CASE n > c
  <2>1. r = [counter |-> n,
             window |-> ShiftLeft(w, n - c) \cup ({n - c - 1} \cap Bits), ok |-> TRUE]
    BY <1>3 DEF UpdateSlidingWindow
  <2>2. ShiftLeft(w, n - c) \in SUBSET Bits
    BY DEF ShiftLeft
  <2> QED BY <2>1, <2>2, <1>3
<1> QED BY <1>1, <1>2, <1>3

LEMMA AnswerSound ==
  ASSUME NEW acc \in SUBSET (Nat \X Counters), NEW ver, Sound(ver, acc),
         NEW m, m.counter \in Counters, m.expiresAt \in Counters, m.tagEpoch <= ver.epoch,
         NEW at, NEW later, Soon(later, at), NEW rng \in BOOLEAN,
         NEW a, a = Answer(ver, m, at, later, rng)
  PROVE  /\ a.result # Accepted => Refusal(a, ver, acc, later)
         /\ a.result = Accepted => Acceptance(a, ver, m, acc, at, later)
<1> USE LimitsAssumption
<1> DEFINE adj   == AdjustClock(ver, at, rng)
           info  == VerifySessionInfo(adj.ver, m, at, later)
           fault == IF info # Accepted THEN info ELSE TagFault(adj.ver, m)
           upd   == UpdateSlidingWindow(adj.ver.counter, adj.ver.window, m.counter)
           moved == [adj.ver EXCEPT !.counter = upd.counter, !.window = upd.window]
<1>0. /\ ver \in Verifiers /\ at \in Instants /\ later \in Instants
      /\ Skew(later) = Skew(at) /\ at.mono <= later.mono
      /\ at.mono \in Int /\ later.mono \in Int /\ at.wall \in Int /\ later.wall \in Int
  BY InstantFields DEF Sound, Soon
<1>1. Guarantee(adj, ver, acc, at)
  BY <1>0, AdjustSound
<1> HIDE DEF adj
<1>2. /\ Sound(adj.ver, acc) /\ Ages(adj.ver, ver, at) /\ adj.err \in BOOLEAN
      /\ adj.ver \in Verifiers
      /\ ~adj.err => adj.ver.counter # MaxCounter /\ Current(adj.ver, at)
  BY <1>1 DEF Guarantee, Sound
<1>f. /\ adj.ver.epoch \in Nat /\ adj.ver.counter \in Nat /\ adj.ver.window \in SUBSET Bits
      /\ adj.ver.zeroMono \in Int /\ adj.ver.zeroWall \in Int
      /\ ver.epoch \in Nat /\ ver.zeroMono \in Int /\ ver.zeroWall \in Int /\ ver.counter \in Nat
  BY <1>0, <1>2, VerifierFields
<1>r. Ages(adj.ver, ver, later)
  BY <1>0, <1>2, <1>f DEF Ages
<1>3. CASE adj.err \/ m.flaw = "unsigned" \/ fault \in PlainFaults
  <2>1. a.ver = adj.ver /\ a.result # Accepted /\ a.result \in PlainFaults
    BY <1>3, <1>2 DEF Answer, Accepted, PlainFaults, adj
  <2> QED BY <2>1, <1>2, <1>r DEF Refusal
<1>4. CASE ~adj.err /\ m.flaw # "unsigned" /\ fault \notin PlainFaults /\ fault # Accepted
  <2>1. a = SignatureError(adj.ver, fault, later, rng)
    BY <1>4 DEF Answer, adj
  <2>2. Refusal(a, ver, acc, later)
    BY <2>1, <1>0, <1>2, SignatureErrorSound
  <2>3. a.result # Accepted
    BY <2>1, <1>4 DEF SignatureError, Accepted
  <2> QED BY <2>2, <2>3
<1>5. CASE ~adj.err /\ m.flaw # "unsigned" /\ fault = Accepted
  <2>1. info = Accepted /\ TagFault(adj.ver, m) = Accepted
    BY <1>5
  <2>2. m.tagEpoch = adj.ver.epoch
    BY <2>1 DEF TagFault, Accepted
  <2>3. /\ m.expiresAt # 0 => ~(m.expiresAt < Timestamp(adj.ver, at))
        /\ m.counter = 0 =>
             /\ m.expiresAt # 0
             /\ ~((m.expiresAt - Timestamp(adj.ver, later)) % (MaxCounter + 1)
                    > MaxSecondsWithoutCounter)
    BY <2>1 DEF VerifySessionInfo, Accepted
  <2>4. m.counter \in Nat /\ m.expiresAt \in Nat /\ Timestamp(adj.ver, at) \in Int
        /\ Timestamp(adj.ver, later) \in Int
    BY <1>0, <1>f DEF Counters, Timestamp
  <2>5. adj.ver.epoch = ver.epoch
    BY <2>2, <1>2, <1>f DEF Ages
  <2>6. m.expiresAt # 0 => Timestamp(adj.ver, at) <= m.expiresAt
    BY <2>3, <2>4
  <2>7. CASE m.counter = 0
    <3>1. a.ver = adj.ver /\ a.result = Accepted
      BY <1>5, <2>7 DEF Answer, PlainFaults, Accepted, adj
    <3>2. (m.expiresAt - Timestamp(adj.ver, later)) % (MaxCounter + 1)
            <= MaxSecondsWithoutCounter
      <4>1. (m.expiresAt - Timestamp(adj.ver, later)) % (MaxCounter + 1) \in Int
        BY <2>4
      <4> QED BY <4>1, <2>3, <2>7
    <3> QED BY <3>1, <3>2, <1>2, <1>5, <1>r, <2>2, <2>3, <2>5, <2>6, <2>7 DEF Acceptance
  <2>8. CASE m.counter # 0
    <3>1. Represents(adj.ver.counter, adj.ver.window, UsedIn(adj.ver.epoch, acc))
      BY <1>2, <1>5 DEF Sound
    <3>2. UsedIn(adj.ver.epoch, acc) \in SUBSET Nat
      BY DEF UsedIn, Counters
    <3>3. /\ upd.ok \in BOOLEAN
          /\ upd.counter \in {adj.ver.counter, m.counter}
          /\ upd.window \in SUBSET Bits
          /\ upd.ok <=> Fresh(m.counter, UsedIn(adj.ver.epoch, acc))
          /\ Represents(upd.counter, upd.window,
                        IF upd.ok THEN UsedIn(adj.ver.epoch, acc) \cup {m.counter}
                                  ELSE UsedIn(adj.ver.epoch, acc))
      BY <3>1, <3>2, <1>f, <2>4, UpdateContract
    <3>g. upd.counter >= adj.ver.counter
      BY <1>f, <2>4, UpdateGrows
    <3> HIDE DEF upd
    <3>4. /\ moved \in Verifiers /\ moved.epoch = adj.ver.epoch
          /\ moved.zeroMono = adj.ver.zeroMono /\ moved.zeroWall = adj.ver.zeroWall
          /\ moved.counter = upd.counter /\ moved.window = upd.window
      BY <3>3, <1>2 DEF Verifiers
    <3>5. Ages(moved, ver, at) /\ Ages(moved, ver, later)
      <4>1. upd.counter \in Nat
        BY <3>3, <1>f, <2>4
      <4> QED BY <3>g, <3>4, <4>1, <1>2, <1>r, <1>f DEF Ages
    <3>6. CASE upd.ok
      <4>1. a.ver = moved /\ a.result = Accepted
        BY <1>5, <2>8, <3>6 DEF Answer, PlainFaults, Accepted, upd, adj
      <4>2. m.counter \notin UsedIn(adj.ver.epoch, acc)
        BY <3>3, <3>6 DEF Fresh
      <4>3. <<m.tagEpoch, m.counter>> \notin acc
        BY <4>2, <2>2 DEF UsedIn
      <4>4. Timestamp(moved, at) = Timestamp(adj.ver, at)
        BY <3>4 DEF Timestamp
      <4>5. Current(moved, at)
        BY <4>4, <3>4, <1>2, <1>5 DEF Current
      <4> HIDE DEF moved
      <4>6. Represents(a.ver.counter, a.ver.window, UsedIn(a.ver.epoch, acc) \cup {m.counter})
        BY <4>1, <3>3, <3>4, <3>6
      <4> QED BY <4>1, <4>3, <4>4, <4>5, <4>6, <3>4, <3>5, <2>2, <2>5, <2>6, <2>8
             DEF Acceptance
    <3>7. CASE ~upd.ok
      <4>1. a = SignatureError(moved, "INVALID_TOKEN_OR_COUNTER", later, rng)
        BY <1>5, <2>8, <3>7 DEF Answer, PlainFaults, Accepted, upd, adj
      <4>2. Sound(moved, acc)
        BY <3>3, <3>4, <3>7, <1>2 DEF Sound
      <4>3. Refusal(a, ver, acc, later)
        BY <4>1, <4>2, <3>5, <1>0, SignatureErrorSound
      <4>4. a.result # Accepted
        BY <4>1 DEF SignatureError, Accepted
      <4> QED BY <4>3, <4>4
    <3> QED BY <3>6, <3>7, <3>3
  <2> QED BY <2>7, <2>8
<1> QED BY <1>3, <1>4, <1>5, <1>2
-----------------------------------------------------------------------------
(* The Verifier alone.                                                      *)

(* The epoch began no earlier than timeZero says: corrections for sleep     *)
(* only ever move timeZero back.                                            *)
NeverYounger == v.zeroMono <= born.mono

(* timeZero is in the past.                                                 *)
Begun == v.zeroMono <= clock.mono

(* While nobody sets it, the wall clock tells the epoch's real age.         *)
WallTrue == trusted => clock.wall - v.zeroWall = clock.real - born.real

(* When a message without a counter was first accepted, it had no more than *)
(* maxSecondsWithoutCounter to live, give or take the second in which       *)
(* Verify was running.                                                      *)
ShortLived ==
  \A t \in counterless :
    /\ t[1] <= v.epoch
    /\ t[1] = v.epoch => t[2] <= t[3] - v.zeroMono + MaxSecondsWithoutCounter + 1

IInv ==
  /\ TypeOK /\ Sound(v, accepted) /\ NoReplay
  /\ NeverYounger /\ NeverExtended
  /\ Begun /\ WallTrue /\ SleepCorrected
  /\ ShortLived /\ ReplayTimeBounded

LEMMA InitIInv == VerifierInit => IInv
<1> SUFFICES ASSUME VerifierInit PROVE IInv
  OBVIOUS
<1> USE VerifierAssumption, LimitsAssumption
<1>1. v \in Verifiers
  BY DEF VerifierInit, Verifiers, Counters
<1>2. v.counter = 0 /\ v.epoch = 1 /\ accepted = {} /\ v.zeroMono = 0 /\ v.zeroWall = 0
  BY DEF VerifierInit
<1>3. Represents(0, v.window, UsedIn(v.epoch, accepted))
  BY <1>2 DEF Represents, UsedIn
<1>4. Sound(v, accepted)
  BY <1>1, <1>2, <1>3 DEF Sound
<1>5. TypeOK
  BY <1>1 DEF VerifierInit, TypeOK, Verifiers, Instants, NoVerdict
<1>6. NoReplay /\ NeverYounger /\ NeverExtended /\ Begun /\ WallTrue
  BY <1>2 DEF VerifierInit, NoReplay, NeverYounger, NeverExtended, NoVerdict, Begun, WallTrue
<1>7. SleepCorrected /\ ShortLived /\ ReplayTimeBounded
  BY DEF VerifierInit, SleepCorrected, ShortLived, ReplayTimeBounded, NoVerdict
<1> QED BY <1>4, <1>5, <1>6, <1>7 DEF IInv

LEMMA MessageFields ==
  ASSUME NEW m \in Messages
  PROVE  m.counter \in Counters /\ m.expiresAt \in Counters
<1> USE VerifierAssumption, LimitsAssumption DEF Counters
<1>1. CASE m \in Signed
  BY <1>1 DEF Signed
<1>2. CASE m \in Misdirected
  BY <1>2 DEF Misdirected
<1> QED BY <1>1, <1>2 DEF Messages

LEMMA AdvanceSoon ==
  ASSUME clock \in Instants, NEW d \in {0, 1}
  PROVE  /\ Advance(d) \in Instants
         /\ Advance(d).mono = clock.mono + d /\ Advance(d).wall = clock.wall + d
         /\ Advance(d).real = clock.real + d
         /\ Soon(Advance(d), clock)
BY InstantFields DEF Advance, Instants, Soon, Skew

(* A step that leaves the histories alone, grants nothing and ages the      *)
(* Verifier keeps the invariant.                                            *)
LEMMA QuietStep ==
  ASSUME IInv, NEW d \in {0, 1}, clock' = Advance(d),
         Sound(v', accepted), Ages(v', v, clock'), TrackEpoch,
         verdict' = NoVerdict, UNCHANGED history
  PROVE  IInv'
<1>0. /\ v \in Verifiers /\ v' \in Verifiers /\ v' \in Verifiers'
      /\ born \in Instants /\ clock \in Instants /\ trusted \in BOOLEAN
  BY DEF IInv, Sound, TypeOK, Verifiers
<1>1. /\ v.epoch \in Nat /\ v.zeroMono \in Int /\ v.zeroWall \in Int
      /\ v'.epoch \in Nat /\ v'.zeroMono \in Int /\ v'.zeroWall \in Int
      /\ clock.mono \in Int /\ clock.wall \in Int /\ clock.real \in Int
      /\ born.mono \in Int /\ born.wall \in Int /\ born.real \in Int
  BY <1>0, VerifierFields, InstantFields
<1>2. /\ clock' \in Instants
      /\ clock'.mono = clock.mono + d /\ clock'.wall = clock.wall + d
      /\ clock'.real = clock.real + d
  BY <1>0, AdvanceSoon
<1> DEFINE began == Advance(v'.zeroMono - clock.mono)
<1>3. /\ began \in Instants /\ began.mono = v'.zeroMono
      /\ began.real = clock.real + v'.zeroMono - clock.mono
  BY <1>1 DEF Advance, Instants
<1> HIDE DEF began
<1>4. IF v'.epoch # v.epoch THEN born' = began /\ trusted' = TRUE
                            ELSE born' = born /\ trusted' = trusted
  BY DEF TrackEpoch, began
<1>5. ASSUME v'.epoch # v.epoch
      PROVE  NeverYounger' /\ Begun' /\ WallTrue' /\ ShortLived'
  <2>1. v'.zeroWall - v'.zeroMono = Skew(clock') /\ v'.zeroMono <= clock'.mono /\ v'.epoch > v.epoch
    BY <1>1, <1>5 DEF Ages
  <2>2. NeverYounger' /\ Begun'
    BY <1>1, <1>3, <1>4, <1>5, <2>1 DEF NeverYounger, Begun
  <2>3. WallTrue'
    <3>1. v'.zeroWall = v'.zeroMono + clock.wall - clock.mono
      BY <1>1, <1>2, <2>1 DEF Skew
    <3>2. born'.real = clock.real + v'.zeroMono - clock.mono
      BY <1>3, <1>4, <1>5
    <3>3. clock'.wall - v'.zeroWall = clock'.real - born'.real
      BY <1>1, <1>2, <3>1, <3>2
    <3> QED BY <3>3 DEF WallTrue
  <2>4. ShortLived'
    <3>1. SUFFICES ASSUME NEW t \in counterless PROVE t[1] < v'.epoch
      BY <1>1 DEF ShortLived, history, IInv, TypeOK
    <3>2. t[1] <= v.epoch /\ t[1] \in Nat
      BY DEF IInv, ShortLived, TypeOK
    <3> QED BY <3>2, <2>1, <1>1
  <2> QED BY <2>2, <2>3, <2>4
<1>6. ASSUME v'.epoch = v.epoch
      PROVE  NeverYounger' /\ Begun' /\ WallTrue' /\ ShortLived'
  <2>1. v'.zeroWall = v.zeroWall /\ v'.zeroMono <= v.zeroMono
    BY <1>6 DEF Ages
  <2>2. NeverYounger' /\ Begun'
    BY <1>1, <1>2, <1>4, <1>6, <2>1 DEF NeverYounger, Begun, IInv
  <2>3. WallTrue'
    <3>1. SUFFICES ASSUME trusted' PROVE clock'.wall - v'.zeroWall = clock'.real - born'.real
      BY DEF WallTrue
    <3>2. trusted
      BY <3>1, <1>4, <1>6
    <3>3. clock.wall - v.zeroWall = clock.real - born.real /\ born' = born
      BY <3>2, <1>4, <1>6 DEF IInv, WallTrue
    <3> QED BY <3>3, <1>1, <1>2, <2>1
  <2>4. ShortLived'
    <3>1. SUFFICES ASSUME NEW t \in counterless
                   PROVE  /\ t[1] <= v.epoch
                          /\ t[1] = v.epoch =>
                               t[2] <= t[3] - v'.zeroMono + MaxSecondsWithoutCounter + 1
      BY <1>6 DEF ShortLived, history
    <3>2. /\ t[1] <= v.epoch
          /\ t[1] = v.epoch => t[2] <= t[3] - v.zeroMono + MaxSecondsWithoutCounter + 1
          /\ t[2] \in Nat /\ t[3] \in Int
      BY DEF IInv, ShortLived, TypeOK
    <3> QED BY <3>2, <2>1, <1>1, LimitsAssumption
  <2> QED BY <2>2, <2>3, <2>4
<1>7. Sound(v, accepted)'
  BY DEF Sound, history, UsedIn
<1>8. TypeOK'
  <2>1. born' \in Instants /\ trusted' \in BOOLEAN
    BY <1>0, <1>3, <1>4
  <2> QED BY <1>0, <1>2, <2>1 DEF IInv, TypeOK, Verifiers, history, NoVerdict
<1>9. NoReplay' /\ NeverExtended' /\ SleepCorrected' /\ ReplayTimeBounded'
  BY LimitsAssumption
     DEF IInv, history, NoReplay, NeverExtended, SleepCorrected, ReplayTimeBounded, NoVerdict
<1> QED BY <1>5, <1>6, <1>7, <1>8, <1>9 DEF IInv

(* What the short life of a message without a counter bounds.               *)
LEMMA ShortLife ==
  ASSUME NEW e \in Counters, NEW t \in Nat,
         (e - t) % (MaxCounter + 1) <= MaxSecondsWithoutCounter
  PROVE  e <= t + MaxSecondsWithoutCounter
<1> USE LimitsAssumption
<1>1. e \in Nat /\ e <= MaxCounter
  BY DEF Counters
<1>2. CASE e < t
  BY <1>1, <1>2
<1>3. CASE e >= t
  <2>1. e - t \in 0 .. MaxCounter
    BY <1>1, <1>3
  <2>2. (e - t) % (MaxCounter + 1) = e - t
    BY <2>1
  <2> QED BY <1>1, <2>2
<1> QED BY <1>1, <1>2, <1>3

(* The step that executes a command.                                        *)
LEMMA AcceptStep ==
  ASSUME IInv, NEW m \in Messages, NEW d \in {0, 1}, NEW rng \in BOOLEAN, Verify(m, d, rng),
         Answer(v, m, clock, Advance(d), rng).result = Accepted
  PROVE  IInv'
<1> USE LimitsAssumption
<1> DEFINE a == Answer(v, m, clock, Advance(d), rng)
           key == <<m.tagEpoch, m.counter>>
<1>0. /\ v \in Verifiers /\ born \in Instants /\ clock \in Instants /\ Sound(v, accepted)
      /\ accepted \subseteq (Nat \X Counters) /\ trusted \in BOOLEAN
      /\ Advance(d) \in Instants /\ Soon(Advance(d), clock)
      /\ m.counter \in Counters /\ m.expiresAt \in Counters
  BY AdvanceSoon, MessageFields DEF IInv, TypeOK, Verifiers, Sound
<1>1. Acceptance(a, v, m, accepted, clock, Advance(d))
  BY <1>0, AnswerSound DEF Verify
<1> HIDE DEF a
<1>2. /\ v' = a.ver /\ clock' = Advance(d) /\ TrackEpoch
      /\ accepted' = IF m.counter > 0 THEN accepted \cup {key} ELSE accepted
      /\ twice' = IF m.counter > 0 THEN twice \cup (accepted \cap {key}) ELSE twice
      /\ verdict' = [accepted  |-> TRUE, expiresAt |-> m.expiresAt,
                     age |-> clock.mono - born.mono, realAge |-> clock.real - born.real,
                     span |-> Span(m)]
      /\ counterless' = IF m.counter = 0 /\ Earlier(m) = {}
                          THEN counterless \cup {<<m.tagEpoch, m.expiresAt, clock.mono>>}
                          ELSE counterless
  BY DEF Verify, a
<1>3. /\ v' \in Verifiers /\ v'.epoch = v.epoch /\ v'.epoch = m.tagEpoch
      /\ v'.zeroMono <= v.zeroMono /\ v'.zeroWall = v.zeroWall
  BY <1>1, <1>2 DEF Acceptance, Ages
<1>4. born' = born /\ trusted' = trusted
  BY <1>2, <1>3 DEF TrackEpoch
<1>5. /\ m.tagEpoch \in Nat /\ m.expiresAt \in Nat /\ m.counter \in Nat
      /\ v.zeroMono \in Int /\ v.zeroWall \in Int /\ v'.zeroMono \in Int
      /\ clock.mono \in Int /\ clock.wall \in Int /\ clock.real \in Int
      /\ born.mono \in Int /\ born.real \in Int
  BY <1>0, <1>3, VerifierFields, InstantFields DEF Counters
<1>6. /\ clock'.mono = clock.mono + d /\ clock'.wall = clock.wall + d
      /\ clock'.real = clock.real + d
  BY <1>0, <1>2, AdvanceSoon
<1>7. m.expiresAt # 0 => clock.mono - v'.zeroMono <= m.expiresAt
  BY <1>1, <1>2 DEF Acceptance, Timestamp
<1>8. Sound(v, accepted)'
  <2>1. CASE m.counter = 0
    <3>1. accepted' = accepted /\ Sound(v', accepted)
      BY <2>1, <1>1, <1>2 DEF Acceptance
    <3> QED BY <3>1 DEF Sound, UsedIn
  <2>2. CASE m.counter # 0
    <3>1. m.counter > 0 /\ accepted' = accepted \cup {key}
      BY <2>2, <1>2, <1>5
    <3>2. Represents(v'.counter, v'.window, UsedIn(v'.epoch, accepted) \cup {m.counter})
      BY <3>1, <1>1, <1>2 DEF Acceptance
    <3>3. UsedIn(v.epoch, accepted)' = UsedIn(v'.epoch, accepted) \cup {m.counter}
      BY <3>1, <1>0, <1>3 DEF UsedIn
    <3>4. \A k \in accepted' : k[1] <= v'.epoch
      BY <3>1, <1>0, <1>3, <1>5 DEF Sound
    <3> QED BY <3>2, <3>3, <3>4, <1>3 DEF Sound, Verifiers
  <2> QED BY <2>1, <2>2
<1>9. NoReplay'
  BY <1>1, <1>2, <1>5 DEF IInv, NoReplay, Acceptance
<1>10. NeverYounger' /\ Begun'
  BY <1>3, <1>4, <1>5, <1>6 DEF IInv, NeverYounger, Begun
<1>11. NeverExtended'
  <2>1. v'.zeroMono <= born.mono
    BY <1>4, <1>10 DEF NeverYounger
  <2>2. m.expiresAt # 0 => clock.mono - born.mono <= m.expiresAt
    BY <2>1, <1>5, <1>7
  <2> QED BY <2>2, <1>2 DEF NeverExtended
<1>12. WallTrue' /\ SleepCorrected'
  <2>1. SUFFICES ASSUME trusted'
                 PROVE  /\ clock'.wall - v'.zeroWall = clock'.real - born'.real
                        /\ SleepCorrected'
    BY DEF WallTrue, SleepCorrected
  <2>2. clock.wall - v.zeroWall = clock.real - born.real
    BY <2>1, <1>4 DEF IInv, WallTrue
  <2>3. clock'.wall - v'.zeroWall = clock'.real - born'.real
    BY <2>2, <1>3, <1>4, <1>5, <1>6
  <2>4. clock.wall - v'.zeroWall <= clock.mono - v'.zeroMono + 1
    BY <1>1, <1>2 DEF Acceptance, Current, Timestamp
  <2>5. m.expiresAt # 0 => clock.real - born.real <= m.expiresAt + 1
    BY <2>2, <2>4, <1>3, <1>5, <1>7
  <2> QED BY <2>3, <2>5, <1>2 DEF SleepCorrected
<1>13. \A t \in counterless :
         /\ t[1] <= v.epoch /\ t[1] \in Nat /\ t[2] \in Nat /\ t[3] \in Int
         /\ t[1] = v.epoch =>
              /\ t[2] <= t[3] - v.zeroMono + MaxSecondsWithoutCounter + 1
              /\ t[2] <= t[3] - v'.zeroMono + MaxSecondsWithoutCounter + 1
  <2>1. TAKE t \in counterless
  <2>2. /\ t[1] <= v.epoch /\ t[1] \in Nat /\ t[2] \in Nat /\ t[3] \in Int
        /\ t[1] = v.epoch => t[2] <= t[3] - v.zeroMono + MaxSecondsWithoutCounter + 1
    BY DEF IInv, ShortLived, TypeOK
  <2> QED BY <2>2, <1>3, <1>5
<1>14. ShortLived'
  <2>1. CASE m.counter = 0 /\ Earlier(m) = {}
    <3>1. clock'.mono - v'.zeroMono \in Nat
      BY <1>3, <1>5, <1>6 DEF IInv, Begun
    <3>2. (m.expiresAt - (clock'.mono - v'.zeroMono)) % (MaxCounter + 1)
            <= MaxSecondsWithoutCounter
      BY <2>1, <1>1, <1>2 DEF Acceptance, Timestamp
    <3>3. m.expiresAt <= clock'.mono - v'.zeroMono + MaxSecondsWithoutCounter
      BY <3>1, <3>2, <1>0, ShortLife
    <3>4. m.expiresAt <= clock.mono - v'.zeroMono + MaxSecondsWithoutCounter + 1
      BY <3>3, <1>5, <1>6
    <3>5. counterless' = counterless \cup {<<m.tagEpoch, m.expiresAt, clock.mono>>}
      BY <2>1, <1>2
    <3>6. v'.epoch <= v'.epoch
      BY <1>3, <1>5
    <3> QED BY <3>4, <3>5, <3>6, <1>3, <1>13 DEF ShortLived
  <2>2. CASE ~(m.counter = 0 /\ Earlier(m) = {})
    BY <2>2, <1>2, <1>3, <1>13 DEF ShortLived
  <2> QED BY <2>1, <2>2
<1>15. Span(m) \in Int /\ Span(m) <= MaxSecondsWithoutCounter + 1
  <2>1. CASE m.counter = 0 /\ Earlier(m) # {}
    <3>1. PICK t \in Earlier(m) : Span(m) = clock.mono - t[3]
      BY <2>1 DEF Span
    <3>2. t \in counterless /\ t[1] = v.epoch /\ t[2] = m.expiresAt
      BY <1>3 DEF Earlier
    <3>3. m.expiresAt # 0
      BY <2>1, <1>1 DEF Acceptance
    <3>4. /\ t[2] <= t[3] - v'.zeroMono + MaxSecondsWithoutCounter + 1
          /\ t[3] \in Int
      BY <3>2, <1>13
    <3> QED BY <3>1, <3>2, <3>3, <3>4, <1>5, <1>7
  <2>2. CASE ~(m.counter = 0 /\ Earlier(m) # {})
    BY <2>2 DEF Span
  <2> QED BY <2>1, <2>2
<1>16. ReplayTimeBounded'
  BY <1>2, <1>15 DEF ReplayTimeBounded
<1>17. TypeOK'
  <2>1. accepted' \subseteq (Nat \X Counters) /\ twice' \subseteq accepted'
    BY <1>0, <1>2, <1>5 DEF IInv, TypeOK
  <2>2. verdict' \in [accepted : BOOLEAN, expiresAt : Nat, age : Int, realAge : Int, span : Int]
    BY <1>2, <1>5, <1>15
  <2>3. counterless' \subseteq (Nat \X Nat \X Int)
    BY <1>2, <1>5 DEF IInv, TypeOK
  <2>4. v' \in Verifiers /\ clock' \in Instants /\ born' \in Instants /\ trusted' \in BOOLEAN
    BY <1>0, <1>2, <1>3, <1>4
  <2> QED BY <2>1, <2>2, <2>3, <2>4 DEF TypeOK, Verifiers
<1> QED BY <1>8, <1>9, <1>10, <1>11, <1>12, <1>14, <1>16, <1>17 DEF IInv

LEMMA StepIInv == IInv /\ [VerifierNext]_verifierVars => IInv'
<1> SUFFICES ASSUME IInv, [VerifierNext]_verifierVars PROVE IInv'
  OBVIOUS
<1>0. /\ v \in Verifiers /\ born \in Instants /\ clock \in Instants /\ Sound(v, accepted)
      /\ accepted \subseteq (Nat \X Counters)
  BY DEF IInv, TypeOK, Verifiers, Sound
<1>f. /\ v.zeroMono \in Int /\ v.zeroWall \in Int /\ born.mono \in Int /\ born.real \in Int
      /\ clock.mono \in Int /\ clock.wall \in Int /\ clock.real \in Int
  BY <1>0, VerifierFields, InstantFields
<1>1. ASSUME NEW m \in Messages, NEW d \in {0, 1}, NEW rng \in BOOLEAN, Verify(m, d, rng)
      PROVE IInv'
  <2> DEFINE a == Answer(v, m, clock, Advance(d), rng)
  <2>1. Soon(Advance(d), clock)
    BY <1>0, AdvanceSoon
  <2>2. CASE a.result = Accepted
    BY <1>1, <2>2, AcceptStep
  <2>3. CASE a.result # Accepted
    <3>1. Refusal(a, v, accepted, Advance(d))
      BY <1>0, <1>1, <2>1, <2>3, MessageFields, AnswerSound DEF Verify
    <3> HIDE DEF a
    <3>2. v' = a.ver /\ clock' = Advance(d) /\ TrackEpoch /\ verdict' = NoVerdict
          /\ UNCHANGED history
      BY <1>1, <2>3 DEF Verify, a, history
    <3> QED BY <3>1, <3>2, QuietStep DEF Refusal
  <2> QED BY <2>2, <2>3
<1>2. ASSUME NEW rng \in BOOLEAN, GetSessionInfo(rng) PROVE IInv'
  <2>1. Guarantee(AdjustClock(v, clock, rng), v, accepted, clock)
    BY <1>0, AdjustSound
  <2>2. Sound(v', accepted) /\ Ages(v', v, clock)
    BY <2>1, <1>2 DEF GetSessionInfo, Guarantee
  <2>3. clock' = Advance(0) /\ clock' = clock
    <3>1. Advance(0) = [mono |-> clock.mono, wall |-> clock.wall, real |-> clock.real]
      BY <1>f DEF Advance
    <3>2. clock = [mono |-> clock.mono, wall |-> clock.wall, real |-> clock.real]
      BY <1>0 DEF Instants
    <3> QED BY <3>1, <3>2, <1>2 DEF GetSessionInfo
  <2> QED BY <2>2, <2>3, <1>2, QuietStep DEF GetSessionInfo
<1>3. ASSUME NEW at \in Instants, Elapse(at), at.mono >= clock.mono,
             trusted' \in BOOLEAN,
             trusted' => trusted /\ at.wall - clock.wall = at.real - clock.real
      PROVE IInv'
  <2>f. at.mono \in Int /\ at.wall \in Int /\ at.real \in Int
    BY InstantFields
  <2>0. /\ clock' = at /\ verdict' = NoVerdict
        /\ v' = v /\ born' = born /\ UNCHANGED history
    BY <1>3 DEF Elapse
  <2>1. Sound(v, accepted)'
    BY <1>0, <2>0 DEF Sound, UsedIn, history
  <2>2. TypeOK'
    BY <1>3, <2>0 DEF IInv, TypeOK, Verifiers, history, NoVerdict
  <2>3. NoReplay' /\ NeverYounger' /\ NeverExtended' /\ SleepCorrected' /\ ReplayTimeBounded'
    BY <2>0, LimitsAssumption
       DEF IInv, NoReplay, NeverYounger, NeverExtended, SleepCorrected, ReplayTimeBounded,
           history, NoVerdict
  <2>4. ShortLived'
    BY <2>0 DEF IInv, ShortLived, history
  <2>5. Begun'
    BY <1>3, <1>f, <2>f, <2>0 DEF IInv, Begun
  <2>6. WallTrue'
    <3>1. SUFFICES ASSUME trusted' PROVE at.wall - v.zeroWall = at.real - born.real
      BY <2>0 DEF WallTrue
    <3>2. clock.wall - v.zeroWall = clock.real - born.real
      BY <1>3, <3>1 DEF IInv, WallTrue
    <3>3. at.wall - clock.wall = at.real - clock.real
      BY <1>3, <3>1
    <3> QED BY <3>2, <3>3, <1>f, <2>f
  <2> QED BY <2>1, <2>2, <2>3, <2>4, <2>5, <2>6 DEF IInv
<1>4. CASE Tick
  <2>1. Advance(1) \in Instants /\ Advance(1).mono = clock.mono + 1
        /\ Advance(1).wall = clock.wall + 1 /\ Advance(1).real = clock.real + 1
    BY <1>0, AdvanceSoon
  <2>2. trusted' = trusted /\ trusted \in BOOLEAN /\ Elapse(Advance(1))
    BY <1>4 DEF Tick, IInv, TypeOK
  <2>3. /\ Advance(1).mono >= clock.mono
        /\ Advance(1).wall - clock.wall = Advance(1).real - clock.real
    BY <2>1, <1>f
  <2> QED BY <2>1, <2>2, <2>3, <1>3
<1>5. CASE Sleep
  <2> DEFINE at == [Advance(1) EXCEPT !.mono = clock.mono]
  <2>1. at \in Instants /\ at.mono = clock.mono
        /\ at.wall = clock.wall + 1 /\ at.real = clock.real + 1
    BY <1>f DEF Advance, Instants
  <2>2. trusted' = trusted /\ trusted \in BOOLEAN /\ Elapse(at)
    BY <1>5 DEF Sleep, IInv, TypeOK
  <2> HIDE DEF at
  <2>3. at.mono >= clock.mono /\ at.wall - clock.wall = at.real - clock.real
    BY <2>1, <1>f
  <2> QED BY <2>1, <2>2, <2>3, <1>3
<1>6. ASSUME NEW w \in 0 .. MaxTime, SetWall(w) PROVE IInv'
  <2> DEFINE at == [clock EXCEPT !.wall = w]
  <2>1. at \in Instants /\ at.mono = clock.mono
    BY <1>0 DEF Instants
  <2>2. Elapse(at) /\ trusted' = FALSE
    BY <1>6 DEF SetWall
  <2> HIDE DEF at
  <2>3. at.mono >= clock.mono
    BY <2>1, <1>f
  <2> QED BY <2>1, <2>2, <2>3, <1>3
<1>7. CASE UNCHANGED verifierVars
  <2>1. Sound(v, accepted)'
    BY <1>0, <1>7 DEF verifierVars, Sound, UsedIn
  <2>2. TypeOK'
    BY <1>7 DEF verifierVars, IInv, TypeOK, Verifiers
  <2> QED BY <2>1, <2>2, <1>7 DEF verifierVars, IInv, NoReplay, NeverYounger, NeverExtended,
             Begun, WallTrue, SleepCorrected, ShortLived, ReplayTimeBounded
<1> QED BY <1>1, <1>2, <1>4, <1>5, <1>6, <1>7 DEF VerifierNext

LEMMA Invariance == VerifierSpec => []IInv
BY InitIInv, StepIInv, PTL DEF VerifierSpec

(* Whatever is replayed, reordered or forged, whatever the clocks and the   *)
(* random source do, a Verifier keeps its fields within their types.        *)
THEOREM TypeCorrect == VerifierSpec => []TypeOK
<1>1. IInv => TypeOK
  BY DEF IInv
<1> QED BY <1>1, Invariance, PTL

(* The vehicle never executes two commands with one epoch and counter.      *)
THEOREM CommandsExecuteAtMostOnce == VerifierSpec => []NoReplay
<1>1. IInv => NoReplay
  BY DEF IInv
<1> QED BY <1>1, Invariance, PTL

(* Counter and window tell the truth about the current epoch, although an   *)
(* epoch inherits its predecessor's window.                                 *)
THEOREM WindowCorrect == VerifierSpec => []WindowTellsTruth
<1>1. IInv => WindowTellsTruth
  BY DEF IInv, Sound, WindowTellsTruth, UsedIn, Used
<1> QED BY <1>1, Invariance, PTL

(* No setting of the wall clock extends the life of a command.              *)
THEOREM ExpiryNeverExtended == VerifierSpec => []NeverExtended
<1>1. IInv => NeverExtended
  BY DEF IInv
<1> QED BY <1>1, Invariance, PTL

(* However long the process sleeps, a command outlives its expiry time by a *)
(* second of real time at most, unless the wall clock is set.               *)
THEOREM SleepNeverExtends == VerifierSpec => []SleepCorrected
<1>1. IInv => SleepCorrected
  BY DEF IInv
<1> QED BY <1>1, Invariance, PTL

(* The acceptances of one message without a counter lie within              *)
(* maxSecondsWithoutCounter and one more second.                            *)
THEOREM ReplaysEnd == VerifierSpec => []ReplayTimeBounded
<1>1. IInv => ReplayTimeBounded
  BY DEF IInv
<1> QED BY <1>1, Invariance, PTL
-----------------------------------------------------------------------------
(* The Verifier and a Signer over the network: the inductive invariant of   *)
(* SecureChannel, in parts.                                                 *)

Signers == [epoch : Nat, counter : Counters, setTime : Nat, timeZero : Int]
Infos == [epoch : Nat, counter : Counters, clockTime : Nat]

(* Everybody speaks of epochs that have begun, and of nothing else.         *)
StateTypes ==
  /\ v \in Verifiers /\ clock \in Instants
  /\ s \in Signers /\ (s = NoSession \/ s.epoch \in 1 .. v.epoch)
  /\ sent \in Nat /\ since \in Nat
  /\ saved.info \in Infos /\ saved.createdAt \in Int
  /\ saved = NothingSaved \/ saved.info.epoch \in 1 .. v.epoch
  /\ executed \in [Uuids -> Nat]
  /\ restarted \in BOOLEAN /\ wrapped \in BOOLEAN

CommandType(m) ==
  /\ m.tagEpoch \in 1 .. v.epoch
  /\ m.counter \in Counters /\ m.expiresAt \in Counters

RequestTypes ==
  \A r \in net : r.uuid \in Uuids /\ r.issued \in Int /\ \A m \in r.command : CommandType(m)

ReplyTypes ==
  \A reply \in replies :
    reply.uuid \in Uuids /\ reply.info \in Infos /\ reply.info.epoch \in 1 .. v.epoch

ChannelTypes == StateTypes /\ RequestTypes /\ ReplyTypes

(* A request has a number of its own and at most one command.               *)
Numbered ==
  /\ \A r \in net : r.uuid <= sent /\ r.issued <= now
  /\ \A r1, r2 \in net : r1.uuid = r2.uuid => r1 = r2
  /\ \A r \in net : \A m1, m2 \in r.command : m1 = m2
  /\ \A reply \in replies : reply.uuid <= sent

(* The vehicle's monotonic clock falls behind real time, and timeZero never *)
(* makes the epoch look older than it is.                                   *)
ClocksAgree ==
  /\ clock.real >= 0 /\ clock.wall = clock.real /\ clock.mono <= clock.real
  /\ v.zeroMono <= clock.mono
  /\ v.zeroMono <= v.zeroWall
  /\ v.zeroWall - v.zeroMono <= clock.real - clock.mono

(* The client believes the vehicle's epoch to have begun no earlier than it *)
(* did, and no later than the slowest answer it takes in allows: unless the *)
(* epoch is so old that its age no longer fits the cache's field.           *)
Estimate(zero) ==
  /\ zero >= v.zeroWall
  /\ zero <= v.zeroWall + MaxLatency + 1 \/ now - v.zeroWall > MaxCounter

Estimated ==
  /\ s.timeZero <= now
  /\ s.epoch = v.epoch => Estimate(s.timeZero)
  /\ saved.createdAt <= now
  /\ saved.info.epoch = v.epoch => Estimate(saved.createdAt - saved.info.clockTime)

(* A command for the vehicle's epoch expires Lifetime after its issue at    *)
(* the latest, but for the field's wrapping.                                *)
Expiring ==
  \A r \in net : \A m \in r.command :
    m.tagEpoch = v.epoch =>
      \E x \in 1 .. (r.issued - v.zeroWall + Lifetime) : m.expiresAt = S!Wrap(x)

(* A reply about the vehicle's epoch is at most a second out of date when   *)
(* it is made, and time and counter grow from reply to reply.               *)
Reported ==
  /\ \A reply \in replies : reply.info.epoch = v.epoch =>
       /\ reply.info.clockTime <= Timestamp(v, clock)
       /\ reply.info.counter <= v.counter
       /\ \A r \in net : r.uuid = reply.uuid =>
            r.issued <= v.zeroWall + reply.info.clockTime + 1
  /\ \A p, q \in replies :
       /\ p.info.epoch = v.epoch /\ q.info.epoch = v.epoch
       /\ p.info.clockTime < q.info.clockTime
       => p.info.counter <= q.info.counter

(* The replies that the client will still look at and find too old have     *)
(* nothing to tell it.                                                      *)
Learned ==
  ~wrapped /\ (~restarted \/ clock.mono = clock.real) /\ s.epoch = v.epoch =>
    /\ s.setTime <= Timestamp(v, clock)
    /\ \A reply \in replies :
         /\ reply.uuid > since /\ reply.info.epoch = v.epoch
         /\ reply.info.clockTime < s.setTime
         => reply.info.counter <= s.counter

(* The keys of the executed commands.                                       *)
Spent ==
  {k \in Nat \X Counters :
     k[2] # 0 /\ \E r \in net : /\ executed[r.uuid] # 0
                                /\ \E m \in r.command : k = <<m.tagEpoch, m.counter>>}

OncePerKey ==
  \A r1, r2 \in net : \A m1 \in r1.command, m2 \in r2.command :
    m1.tagEpoch = m2.tagEpoch /\ m1.counter = m2.counter /\ m1.counter # 0 =>
      /\ executed[r1.uuid] <= 1
      /\ executed[r1.uuid] # 0 /\ executed[r2.uuid] # 0 => r1.uuid = r2.uuid

Executions ==
  /\ Sound(v, Spent)
  /\ \A u \in Uuids : u > sent => executed[u] = 0
  /\ OncePerKey

CountersTaken ==
  ~restarted /\ ~wrapped =>
    \A r \in net : \A m \in r.command : m.counter <= s.counter

CInv ==
  /\ ChannelTypes /\ Numbered /\ ClocksAgree
  /\ Estimated /\ Expiring /\ Reported /\ Learned
  /\ Executions /\ CountersTaken /\ CountersNotReused

LEMMA SignerFields ==
  ASSUME NEW sg \in Signers
  PROVE  /\ sg.epoch \in Nat /\ sg.counter \in Nat /\ sg.counter <= MaxCounter
         /\ sg.setTime \in Nat /\ sg.timeZero \in Int
BY LimitsAssumption DEF Signers, Counters

LEMMA InfoFields ==
  ASSUME NEW info \in Infos
  PROVE  /\ info.epoch \in Nat /\ info.counter \in Nat /\ info.counter <= MaxCounter
         /\ info.clockTime \in Nat
BY LimitsAssumption DEF Infos, Counters

(* Conversion to uint32.                                                    *)
LEMMA Wraps ==
  ASSUME NEW x \in Nat
  PROVE  /\ S!Wrap(x) \in Counters /\ S!Wrap(x) \in Nat /\ S!Wrap(x) <= x
         /\ x <= MaxCounter => S!Wrap(x) = x
<1> USE LimitsAssumption
<1>1. S!Wrap(x) \in 0 .. MaxCounter
  BY DEF S!Wrap
<1>2. x <= MaxCounter => S!Wrap(x) = x
  BY DEF S!Wrap
<1>3. S!Wrap(x) <= x
  BY <1>1, <1>2
<1> QED BY <1>1, <1>2, <1>3 DEF Counters

LEMMA InitCInv == ChannelInit => CInv
<1> SUFFICES ASSUME ChannelInit PROVE CInv
  OBVIOUS
<1> USE LimitsAssumption, ChannelAssumption
<1>0. /\ clock = [mono |-> 0, wall |-> 0, real |-> 0]
      /\ v = [epoch |-> 1, counter |-> 0, window |-> {}, zeroMono |-> 0, zeroWall |-> 0]
      /\ s = [epoch |-> 0, counter |-> 0, setTime |-> 0, timeZero |-> 0] /\ s = NoSession
      /\ saved = [info |-> [epoch |-> 0, counter |-> 0, clockTime |-> 0], createdAt |-> 0]
      /\ saved = NothingSaved
      /\ sent = 0 /\ since = 0 /\ net = {} /\ replies = {}
      /\ executed = [u \in Uuids |-> 0] /\ restarted = FALSE /\ wrapped = FALSE
  BY DEF ChannelInit, NoSession, NothingSaved, NoEpoch, S!SessionInfoOf
<1>1. v \in Verifiers /\ clock \in Instants
  BY <1>0 DEF Verifiers, Counters, Instants
<1>2. ChannelTypes
  <2>1. s \in Signers /\ saved.info \in Infos /\ saved.createdAt \in Int
    BY <1>0 DEF Signers, Infos, Counters
  <2>2. executed \in [Uuids -> Nat]
    BY <1>0
  <2> QED BY <1>0, <1>1, <2>1, <2>2 DEF ChannelTypes, StateTypes, RequestTypes, ReplyTypes
<1>3. Numbered /\ ClocksAgree /\ Expiring /\ Reported /\ CountersTaken /\ CountersNotReused
  BY <1>0 DEF Numbered, ClocksAgree, Expiring, Reported, CountersTaken, CountersNotReused
<1>4. Estimated /\ Learned
  BY <1>0 DEF Estimated, Learned, now
<1>5. Executions
  <2>1. Spent = {}
    BY <1>0 DEF Spent
  <2>2. UsedIn(v.epoch, {}) = {0}
    BY DEF UsedIn
  <2>3. Sound(v, Spent)
    BY <1>0, <1>1, <2>1, <2>2 DEF Sound, Represents
  <2> QED BY <1>0, <2>3 DEF Executions, OncePerKey
<1> QED BY <1>2, <1>3, <1>4, <1>5 DEF CInv

(* The numbers in a state.                                                  *)
LEMMA ChannelFields ==
  ASSUME StateTypes
  PROVE  /\ v \in Verifiers /\ v.epoch \in Nat /\ v.counter \in Nat
         /\ v.zeroMono \in Int /\ v.zeroWall \in Int
         /\ clock \in Instants /\ clock.mono \in Int /\ clock.wall \in Int /\ clock.real \in Int
         /\ s.epoch \in Nat /\ s.counter \in Nat /\ s.counter <= MaxCounter
         /\ s.setTime \in Nat /\ s.timeZero \in Int
         /\ saved.info.epoch \in Nat /\ saved.info.counter \in Nat
         /\ saved.info.clockTime \in Nat /\ saved.createdAt \in Int
         /\ sent \in Nat /\ since \in Nat
BY VerifierFields, InstantFields, SignerFields, InfoFields DEF StateTypes

(***************************************************************************)
(* What a step of the vehicle does to the invariant, executions apart: the *)
(* Verifier ages or begins an epoch, and may report its state.             *)
(***************************************************************************)
LEMMA VehicleStep ==
  ASSUME CInv, UNCHANGED <<clock, clientVars>>,
         v' \in Verifiers, Ages(v', v, clock),
         replies' = replies \/ (Current(v', clock) /\ \E r \in net : ReplyWithInfo(r.uuid)),
         executed' \in [Uuids -> Nat], Executions'
  PROVE  CInv'
<1> USE LimitsAssumption, ChannelAssumption
<1>0. /\ v.epoch \in Nat /\ v.counter \in Nat /\ v.zeroMono \in Int /\ v.zeroWall \in Int
      /\ v'.epoch \in Nat /\ v'.counter \in Nat /\ v'.counter \in Counters
      /\ v'.zeroMono \in Int /\ v'.zeroWall \in Int
      /\ clock.mono \in Int /\ clock.wall \in Int /\ clock.real \in Int
      /\ s.epoch \in Nat /\ s.setTime \in Nat
  BY ChannelFields, VerifierFields DEF CInv, ChannelTypes, Verifiers
<1>1. /\ clock' = clock /\ s' = s /\ sent' = sent /\ since' = since /\ net' = net
      /\ saved' = saved /\ restarted' = restarted /\ wrapped' = wrapped
  BY DEF clientVars
<1>2. v'.epoch >= v.epoch /\ 1 .. v.epoch \subseteq 1 .. v'.epoch
  <2>1. v'.epoch >= v.epoch
    BY DEF Ages
  <2> QED BY <2>1, <1>0
<1>3. v'.epoch = v.epoch =>
        /\ v'.counter >= v.counter /\ v'.zeroWall = v.zeroWall
        /\ v'.zeroMono <= v.zeroMono
  BY DEF Ages
<1>4. ClocksAgree'
  <2>1. /\ clock.real >= 0 /\ clock.wall = clock.real /\ clock.mono <= clock.real
        /\ v.zeroMono <= clock.mono /\ v.zeroMono <= v.zeroWall
        /\ v.zeroWall - v.zeroMono <= clock.real - clock.mono
    BY DEF CInv, ClocksAgree
  <2>2. /\ v'.zeroMono <= clock.mono /\ v'.zeroMono <= v'.zeroWall
        /\ v'.zeroWall - v'.zeroMono <= clock.real - clock.mono
    <3>1. CASE v'.epoch = v.epoch
      BY <1>0, <2>1, <3>1 DEF Ages, Skew
    <3>2. CASE v'.epoch # v.epoch
      BY <1>0, <2>1, <3>2 DEF Ages, Skew
    <3> QED BY <3>1, <3>2
  <2> QED BY <1>1, <2>1, <2>2 DEF ClocksAgree
<1> DEFINE news == S!SessionInfoOf(v'.epoch, v'.counter, Timestamp(v', clock))
<1>5. news \in Infos /\ news.epoch = v'.epoch /\ news.counter = v'.counter
      /\ news.clockTime = Timestamp(v', clock)
  <2>1. Timestamp(v', clock) \in Nat
    BY <1>0, <1>1, <1>4 DEF Timestamp, ClocksAgree
  <2> QED BY <2>1, <1>0 DEF S!SessionInfoOf, Infos
<1> HIDE DEF news
<1>6. ASSUME NEW reply \in replies'
      PROVE  \/ reply \in replies
             \/ /\ reply.info = news /\ Current(v', clock)
                /\ \E r \in net : reply.uuid = r.uuid
  BY <1>1 DEF ReplyWithInfo, news
<1>7. ChannelTypes'
  <2>1. StateTypes'
    BY <1>1, <1>2 DEF CInv, ChannelTypes, StateTypes, Verifiers, Signers, Infos
  <2>2. RequestTypes'
    BY <1>1, <1>2 DEF CInv, ChannelTypes, RequestTypes, CommandType
  <2>3. ReplyTypes'
    <3>1. SUFFICES ASSUME NEW reply \in replies'
                   PROVE  reply.uuid \in Uuids /\ reply.info \in Infos
                          /\ reply.info.epoch \in 1 .. v'.epoch
      BY DEF ReplyTypes, Infos
    <3>2. CASE reply \in replies
      BY <3>2, <1>2 DEF CInv, ChannelTypes, ReplyTypes
    <3>3. CASE reply \notin replies
      <4>1. reply.info = news /\ \E r \in net : reply.uuid = r.uuid
        BY <3>3, <1>6
      <4>2. v'.epoch \in 1 .. v'.epoch
        BY <1>0, VerifierFields
      <4> QED BY <4>1, <4>2, <1>5 DEF CInv, ChannelTypes, RequestTypes
    <3> QED BY <3>2, <3>3
  <2> QED BY <2>1, <2>2, <2>3 DEF ChannelTypes
<1>8. Numbered'
  <2>1. \A reply \in replies' : reply.uuid <= sent
    BY <1>6 DEF CInv, Numbered
  <2> QED BY <1>1, <2>1 DEF CInv, Numbered, now
<1>9. /\ s.epoch = v'.epoch => v'.epoch = v.epoch
      /\ saved.info.epoch = v'.epoch => v'.epoch = v.epoch
      /\ \A r \in net : \A m \in r.command : m.tagEpoch = v'.epoch => v'.epoch = v.epoch
      /\ \A reply \in replies : reply.info.epoch = v'.epoch => v'.epoch = v.epoch
  <2>1. ASSUME NEW e \in 1 .. v.epoch, e = v'.epoch PROVE v'.epoch = v.epoch
    BY <2>1, <1>0, <1>2
  <2>2. v'.epoch # 0
    BY VerifierFields
  <2>3. s.epoch = v'.epoch => v'.epoch = v.epoch
    BY <2>1, <2>2 DEF CInv, ChannelTypes, StateTypes, NoSession, NoEpoch
  <2>4. saved.info.epoch = v'.epoch => v'.epoch = v.epoch
    BY <2>1, <2>2 DEF CInv, ChannelTypes, StateTypes, NothingSaved, NoEpoch, S!SessionInfoOf
  <2>5. \A r \in net : \A m \in r.command : m.tagEpoch = v'.epoch => v'.epoch = v.epoch
    BY <2>1 DEF CInv, ChannelTypes, RequestTypes, CommandType
  <2>6. \A reply \in replies : reply.info.epoch = v'.epoch => v'.epoch = v.epoch
    BY <2>1 DEF CInv, ChannelTypes, ReplyTypes
  <2> QED BY <2>3, <2>4, <2>5, <2>6
<1>10. Estimated'
  BY <1>1, <1>3, <1>9 DEF CInv, Estimated, Estimate, now
<1>11. Expiring'
  BY <1>1, <1>3, <1>9 DEF CInv, Expiring, S!Wrap
<1>12. \A reply \in replies : reply.info.epoch = v'.epoch =>
         /\ reply.info.clockTime <= Timestamp(v, clock)
         /\ reply.info.clockTime <= Timestamp(v', clock)
         /\ reply.info.counter <= v.counter /\ reply.info.counter <= v'.counter
         /\ reply.info.clockTime \in Nat /\ reply.info.counter \in Nat
         /\ \A r \in net : r.uuid = reply.uuid =>
              r.issued <= v'.zeroWall + reply.info.clockTime + 1
  <2>1. SUFFICES ASSUME NEW reply \in replies, reply.info.epoch = v'.epoch
                 PROVE  /\ reply.info.clockTime <= Timestamp(v, clock)
                        /\ reply.info.clockTime <= Timestamp(v', clock)
                        /\ reply.info.counter <= v.counter /\ reply.info.counter <= v'.counter
                        /\ reply.info.clockTime \in Nat /\ reply.info.counter \in Nat
                        /\ \A r \in net : r.uuid = reply.uuid =>
                             r.issued <= v'.zeroWall + reply.info.clockTime + 1
    OBVIOUS
  <2>2. v'.epoch = v.epoch
    BY <2>1, <1>9
  <2>3. reply.info.clockTime \in Nat /\ reply.info.counter \in Nat
    BY InfoFields DEF CInv, ChannelTypes, ReplyTypes
  <2>4. /\ reply.info.clockTime <= Timestamp(v, clock) /\ reply.info.counter <= v.counter
        /\ \A r \in net : r.uuid = reply.uuid =>
             r.issued <= v'.zeroWall + reply.info.clockTime + 1
    BY <2>1, <2>2, <1>3 DEF CInv, Reported
  <2>5. reply.info.clockTime <= Timestamp(v', clock) /\ reply.info.counter <= v'.counter
    BY <2>2, <2>3, <2>4, <1>0, <1>3 DEF Timestamp
  <2> QED BY <2>3, <2>4, <2>5
<1>13. Reported'
  <2>1. ASSUME NEW reply \in replies', reply.info.epoch = v'.epoch
        PROVE  /\ reply.info.clockTime <= Timestamp(v', clock)
               /\ reply.info.counter <= v'.counter
               /\ \A r \in net : r.uuid = reply.uuid =>
                    r.issued <= v'.zeroWall + reply.info.clockTime + 1
    <3>1. CASE reply \in replies
      BY <2>1, <3>1, <1>12
    <3>2. CASE reply \notin replies
      <4>1. reply.info = news /\ Current(v', clock)
        BY <3>2, <1>6
      <4>2. reply.info.clockTime = Timestamp(v', clock) /\ reply.info.counter = v'.counter
        BY <4>1, <1>5
      <4>3. clock.real <= v'.zeroWall + Timestamp(v', clock) + 1 /\ Timestamp(v', clock) \in Int
        <5>1. clock.wall - v'.zeroWall <= Timestamp(v', clock) + 1 /\ clock.wall = clock.real
          BY <4>1 DEF Current, CInv, ClocksAgree
        <5> QED BY <5>1, <1>0 DEF Timestamp
      <4>4. \A r \in net : r.issued \in Int /\ r.issued <= clock.real
        BY DEF CInv, Numbered, now, ChannelTypes, RequestTypes
      <4>5. \A r \in net : r.issued <= v'.zeroWall + Timestamp(v', clock) + 1
        BY <4>3, <4>4, <1>0
      <4>6. Timestamp(v', clock) <= Timestamp(v', clock) /\ v'.counter <= v'.counter
        BY <4>3, <1>0
      <4> QED BY <4>2, <4>5, <4>6
    <3> QED BY <3>1, <3>2
  <2>2. ASSUME NEW p \in replies', NEW q \in replies',
               p.info.epoch = v'.epoch, q.info.epoch = v'.epoch,
               p.info.clockTime < q.info.clockTime
        PROVE  p.info.counter <= q.info.counter
    <3>1. CASE p \in replies /\ q \in replies
      <4>1. v'.epoch = v.epoch
        BY <2>2, <3>1, <1>9
      <4> QED BY <2>2, <3>1, <4>1 DEF CInv, Reported
    <3>2. CASE q \notin replies
      <4>1. q.info.counter = v'.counter
        BY <3>2, <1>5, <1>6
      <4> QED BY <2>1, <2>2, <4>1
    <3>3. CASE p \notin replies
      <4>1. p.info.clockTime = Timestamp(v', clock)
        BY <3>3, <1>5, <1>6
      <4>2. q.info.clockTime <= Timestamp(v', clock)
        BY <2>1, <2>2
      <4>3. Timestamp(v', clock) \in Int /\ q.info.clockTime \in Int
        <5>1. q.info \in Infos
          BY <1>7 DEF ChannelTypes, ReplyTypes, Infos
        <5> QED BY <5>1, InfoFields, <1>0 DEF Timestamp
      <4> QED BY <2>2, <4>1, <4>2, <4>3
    <3> QED BY <3>1, <3>2, <3>3
  <2> QED BY <1>1, <2>1, <2>2 DEF Reported
<1>14. Learned'
  <2>1. SUFFICES ASSUME ~wrapped, ~restarted \/ clock.mono = clock.real, s.epoch = v'.epoch
                 PROVE  /\ s.setTime <= Timestamp(v', clock)
                        /\ \A reply \in replies' :
                             /\ reply.uuid > since /\ reply.info.epoch = v'.epoch
                             /\ reply.info.clockTime < s.setTime
                             => reply.info.counter <= s.counter
    BY <1>1 DEF Learned
  <2>2. v'.epoch = v.epoch
    BY <2>1, <1>9
  <2>3. /\ s.setTime <= Timestamp(v, clock)
        /\ \A reply \in replies :
             /\ reply.uuid > since /\ reply.info.epoch = v.epoch
             /\ reply.info.clockTime < s.setTime
             => reply.info.counter <= s.counter
    BY <2>1, <2>2 DEF CInv, Learned
  <2>4. s.setTime <= Timestamp(v', clock) /\ Timestamp(v', clock) \in Int
    BY <2>2, <2>3, <1>0, <1>3 DEF Timestamp
  <2>5. ASSUME NEW reply \in replies', reply.info.clockTime < s.setTime
        PROVE  reply \in replies
    <3>1. SUFFICES ASSUME reply.info = news PROVE FALSE
      BY <1>6
    <3> QED BY <2>4, <2>5, <3>1, <1>0, <1>5
  <2> QED BY <2>2, <2>3, <2>4, <2>5
<1>15. CountersTaken' /\ CountersNotReused'
  BY <1>1 DEF CInv, CountersTaken, CountersNotReused
<1> QED BY <1>4, <1>7, <1>8, <1>10, <1>11, <1>13, <1>14, <1>15 DEF CInv

LEMMA SpentKeys == Spent \in SUBSET (Nat \X Counters)
BY DEF Spent

(* A step without an execution.                                             *)
LEMMA NothingExecuted ==
  ASSUME CInv, UNCHANGED <<net, sent, executed>>, Sound(v', Spent)
  PROVE  Executions' /\ executed' \in [Uuids -> Nat]
<1>1. Spent' = Spent
  BY DEF Spent, Counters
<1>2. Sound(v, Spent)'
  BY <1>1 DEF Sound, UsedIn, Verifiers, Represents, Counters
<1>3. (\A u \in Uuids : u > sent => executed[u] = 0)'
  BY DEF CInv, Executions, Uuids
<1>4. OncePerKey'
  BY DEF CInv, Executions, OncePerKey
<1>5. executed' \in [Uuids -> Nat]
  BY DEF CInv, ChannelTypes, StateTypes
<1> QED BY <1>2, <1>3, <1>4, <1>5 DEF Executions

(* The execution of a command.                                              *)
LEMMA CommandExecuted ==
  ASSUME CInv, UNCHANGED <<clock, clientVars>>, NEW r \in net, NEW m \in r.command,
         executed' = [executed EXCEPT ![r.uuid] = @ + 1],
         v' \in Verifiers, v'.epoch = v.epoch, v'.epoch = m.tagEpoch,
         m.counter = 0 => Sound(v', Spent),
         m.counter > 0 =>
           /\ <<m.tagEpoch, m.counter>> \notin Spent
           /\ Represents(v'.counter, v'.window, UsedIn(v'.epoch, Spent) \cup {m.counter})
  PROVE  Executions' /\ executed' \in [Uuids -> Nat]
<1> DEFINE key(n) == <<n.tagEpoch, n.counter>>
<1>0. /\ net' = net /\ sent' = sent /\ r.uuid \in Uuids /\ r.uuid <= sent
      /\ executed \in [Uuids -> Nat]
      /\ m.counter \in Nat /\ m.counter \in Counters /\ m.tagEpoch \in Nat
  BY LimitsAssumption
     DEF clientVars, CInv, ChannelTypes, StateTypes, RequestTypes, CommandType, Numbered, Counters
<1>1. /\ executed'[r.uuid] = executed[r.uuid] + 1
      /\ \A u \in Uuids : u # r.uuid => executed'[u] = executed[u]
      /\ executed' \in [Uuids -> Nat]
  BY <1>0
<1>2. ASSUME NEW q \in net, q.uuid = r.uuid PROVE q = r /\ \A n \in q.command : n = m
  BY <1>2 DEF CInv, Numbered
<1>3. ASSUME NEW q \in net, NEW n \in q.command
      PROVE  /\ q.uuid \in Uuids /\ executed[q.uuid] \in Nat
             /\ key(n) \in Nat \X Counters
             /\ n.counter # 0 /\ executed[q.uuid] # 0 => key(n) \in Spent
  <2>1. q.uuid \in Uuids /\ n.tagEpoch \in Nat /\ n.counter \in Counters
    BY DEF CInv, ChannelTypes, RequestTypes, CommandType
  <2>2. n.counter # 0 /\ executed[q.uuid] # 0 => key(n) \in Spent
    BY <2>1 DEF Spent
  <2> QED BY <2>1, <2>2, <1>0
<1>4. ASSUME m.counter # 0, NEW q \in net, NEW n \in q.command, key(n) = key(m)
      PROVE  executed[q.uuid] = 0
  <2>1. n.counter # 0 /\ key(m) \notin Spent
    BY <1>0, <1>4
  <2> QED BY <2>1, <1>3, <1>4
<1>5. OncePerKey'
  <2>1. SUFFICES ASSUME NEW r1 \in net, NEW r2 \in net,
                        NEW m1 \in r1.command, NEW m2 \in r2.command,
                        m1.tagEpoch = m2.tagEpoch, m1.counter = m2.counter, m1.counter # 0
                 PROVE  /\ executed'[r1.uuid] <= 1
                        /\ executed'[r1.uuid] # 0 /\ executed'[r2.uuid] # 0 => r1.uuid = r2.uuid
    BY <1>0 DEF OncePerKey
  <2>2. /\ executed[r1.uuid] <= 1
        /\ executed[r1.uuid] # 0 /\ executed[r2.uuid] # 0 => r1.uuid = r2.uuid
    BY <2>1 DEF CInv, Executions, OncePerKey
  <2>3. CASE key(m1) = key(m) /\ m.counter # 0
    <3>1. executed[r1.uuid] = 0 /\ executed[r2.uuid] = 0
      BY <2>1, <2>3, <1>4
    <3> QED BY <3>1, <1>1, <1>3
  <2>4. CASE ~(key(m1) = key(m) /\ m.counter # 0)
    <3>1. r1.uuid # r.uuid /\ r2.uuid # r.uuid
      BY <2>1, <2>4, <1>2
    <3> QED BY <3>1, <2>2, <1>1, <1>3
  <2> QED BY <2>3, <2>4
<1>6. Sound(v, Spent)'
  <2>1. Spent' = Spent \cup (IF m.counter # 0 THEN {key(m)} ELSE {})
    <3>1. ASSUME NEW k \in Spent'
          PROVE  k \in Spent \cup (IF m.counter # 0 THEN {key(m)} ELSE {})
      <4>0. PICK q \in net : k[2] # 0 /\ executed'[q.uuid] # 0 /\ \E n \in q.command : k = key(n)
        BY <1>0 DEF Spent
      <4>1. PICK n \in q.command : k[2] # 0 /\ executed'[q.uuid] # 0 /\ k = key(n)
        BY <4>0
      <4>2. CASE q.uuid = r.uuid
        BY <4>1, <4>2, <1>2
      <4>3. CASE q.uuid # r.uuid
        BY <4>1, <4>3, <1>1, <1>3
      <4> QED BY <4>2, <4>3
    <3>2. ASSUME NEW k \in Spent PROVE k \in Spent'
      <4>1. k \in Nat \X Counters /\ k[2] # 0
            /\ \E q \in net : executed[q.uuid] # 0 /\ \E n \in q.command : k = key(n)
        BY DEF Spent
      <4>2. \A q \in net : executed[q.uuid] # 0 => executed'[q.uuid] # 0
        <5>1. \A q \in net : q.uuid \in Uuids
          BY DEF CInv, ChannelTypes, RequestTypes
        <5> QED BY <5>1, <1>0, <1>1
      <4> QED BY <4>1, <4>2, <1>0 DEF Spent, Counters
    <3>3. m.counter # 0 => key(m) \in Spent'
      <4>1. executed'[r.uuid] # 0
        BY <1>0, <1>1
      <4>2. key(m) \in Nat \X Counters
        BY <1>0
      <4> QED BY <4>1, <4>2, <1>0 DEF Spent, Counters
    <3> QED BY <3>1, <3>2, <3>3
  <2>2. CASE m.counter = 0
    <3>1. Spent' = Spent /\ Sound(v', Spent)
      BY <2>1, <2>2
    <3> QED BY <3>1 DEF Sound, UsedIn, Verifiers, Represents, Counters
  <2>3. CASE m.counter # 0
    <3>1. m.counter > 0 /\ Spent' = Spent \cup {key(m)}
      BY <2>1, <2>3, <1>0
    <3>2. Represents(v'.counter, v'.window, UsedIn(v'.epoch, Spent) \cup {m.counter})
      BY <3>1
    <3>3. UsedIn(v.epoch, Spent)' = UsedIn(v'.epoch, Spent) \cup {m.counter}
      BY <3>1, <1>0 DEF UsedIn, Counters
    <3>4. \A k \in Spent' : k[1] <= v'.epoch
      <4>1. v'.epoch <= v'.epoch /\ Sound(v, Spent)
        BY VerifierFields DEF CInv, Executions
      <4> QED BY <4>1, <3>1 DEF Sound
    <3> QED BY <3>2, <3>3, <3>4 DEF Sound, Verifiers, Represents, Counters
  <2> QED BY <2>2, <2>3
<1>7. \A u \in Uuids : u > sent => executed'[u] = 0
  <2>1. SUFFICES ASSUME NEW u \in Uuids, u > sent PROVE executed'[u] = 0
    OBVIOUS
  <2>2. u # r.uuid
    BY <2>1, <1>0 DEF Uuids, CInv, ChannelTypes, StateTypes
  <2> QED BY <2>1, <2>2, <1>1 DEF CInv, Executions
<1>8. (\A u \in Uuids : u > sent => executed[u] = 0)'
  BY <1>0, <1>7 DEF Uuids
<1> QED BY <1>1, <1>5, <1>6, <1>8 DEF Executions

(* The vehicle's operations.                                                *)
LEMMA HelloStep ==
  ASSUME CInv, NEW r \in net, ReceiveHello(r)
  PROVE  CInv'
<1> DEFINE adj == AdjustClock(v, clock, TRUE)
<1>1. Sound(v, Spent) /\ clock \in Instants
  BY DEF CInv, Executions, ChannelTypes, StateTypes
<1>2. Guarantee(adj, v, Spent, clock) /\ ~adj.err
  BY <1>1, SpentKeys, AdjustSound
<1> HIDE DEF adj
<1>3. /\ v' = adj.ver /\ UNCHANGED <<clock, clientVars, executed, net, sent>>
      /\ ReplyWithInfo(r.uuid)
  BY DEF ReceiveHello, adj, clientVars
<1>4. /\ v' \in Verifiers /\ Sound(v', Spent) /\ Ages(v', v, clock)
      /\ Current(v', clock)
  BY <1>2, <1>3 DEF Guarantee, Sound
<1>5. Executions' /\ executed' \in [Uuids -> Nat]
  BY <1>3, <1>4, NothingExecuted
<1> QED BY <1>3, <1>4, <1>5, VehicleStep

(* What a client asks for, as Answer takes it.                              *)
LEMMA AnswerToCommand ==
  ASSUME CInv, NEW r \in net, NEW m \in r.command, NEW a, a = Answer(v, m, clock, clock, TRUE)
  PROVE  /\ a.result # Accepted => Refusal(a, v, Spent, clock)
         /\ a.result = Accepted => Acceptance(a, v, m, Spent, clock, clock)
<1>1. /\ Sound(v, Spent) /\ v.epoch \in Nat /\ clock \in Instants /\ clock.mono \in Int
      /\ m.counter \in Counters /\ m.expiresAt \in Counters /\ m.tagEpoch \in 1 .. v.epoch
  BY ChannelFields
     DEF CInv, Executions, ChannelTypes, StateTypes, RequestTypes, CommandType
<1>2. m.tagEpoch <= v.epoch /\ Soon(clock, clock)
  BY <1>1 DEF Soon
<1> QED BY <1>1, <1>2, SpentKeys, AnswerSound

LEMMA CommandStep ==
  ASSUME CInv, NEW r \in net, NEW m \in r.command, ReceiveCommand(r, m)
  PROVE  CInv'
<1> DEFINE a == Answer(v, m, clock, clock, TRUE)
<1>1. /\ a.result # Accepted => Refusal(a, v, Spent, clock)
      /\ a.result = Accepted => Acceptance(a, v, m, Spent, clock, clock)
  BY AnswerToCommand
<1> HIDE DEF a
<1>2. /\ v' = a.ver /\ UNCHANGED <<clock, clientVars, net, sent>>
      /\ a.result = Accepted => executed' = [executed EXCEPT ![r.uuid] = @ + 1]
      /\ a.result # Accepted => executed' = executed
      /\ a.result \in InfoFaults => ReplyWithInfo(r.uuid)
      /\ a.result \notin InfoFaults => replies' = replies
  BY DEF ReceiveCommand, a, clientVars
<1>3. CASE a.result = Accepted
  <2>1. /\ v' \in Verifiers /\ Ages(v', v, clock) /\ v'.epoch = v.epoch /\ v'.epoch = m.tagEpoch
        /\ m.counter = 0 => Sound(v', Spent)
        /\ m.counter > 0 =>
             /\ <<m.tagEpoch, m.counter>> \notin Spent
             /\ Represents(v'.counter, v'.window, UsedIn(v'.epoch, Spent) \cup {m.counter})
    BY <1>1, <1>2, <1>3 DEF Acceptance
  <2>2. Executions' /\ executed' \in [Uuids -> Nat]
    BY <2>1, <1>2, <1>3, CommandExecuted
  <2>3. replies' = replies
    BY <1>2, <1>3 DEF InfoFaults, Accepted
  <2> QED BY <2>1, <2>2, <2>3, <1>2, VehicleStep
<1>4. CASE a.result # Accepted
  <2>1. /\ v' \in Verifiers /\ Sound(v', Spent) /\ Ages(v', v, clock)
        /\ a.result \in InfoFaults => Current(v', clock)
    BY <1>1, <1>2, <1>4 DEF Refusal, Sound, InfoFaults, PlainFaults
  <2>2. Executions' /\ executed' \in [Uuids -> Nat]
    BY <2>1, <1>2, <1>4, NothingExecuted
  <2> QED BY <2>1, <2>2, <1>2, VehicleStep
<1> QED BY <1>3, <1>4

LEMMA RebootStep ==
  ASSUME CInv, Reboot
  PROVE  CInv'
<1>0. /\ v.epoch \in Nat /\ clock.mono \in Int /\ clock.wall \in Int /\ Sound(v, Spent)
  BY ChannelFields DEF CInv, ChannelTypes, Executions
<1>1. /\ v' = [epoch |-> v.epoch + 1, counter |-> 0, window |-> {},
               zeroMono |-> clock.mono, zeroWall |-> clock.wall]
      /\ UNCHANGED <<clock, clientVars, net, sent, executed>> /\ replies' = replies
  BY DEF Reboot, clientVars
<1>2. /\ v' \in Verifiers /\ v'.epoch = v.epoch + 1 /\ v'.counter = 0 /\ v'.window = {}
      /\ v'.zeroMono = clock.mono /\ v'.zeroWall = clock.wall
  BY <1>0, <1>1, LimitsAssumption DEF Verifiers, Counters
<1>3. Ages(v', v, clock)
  BY <1>0, <1>2 DEF Ages, Skew
<1>4. Sound(v', Spent)
  <2>1. \A k \in Spent : k[1] <= v'.epoch /\ k[1] # v'.epoch
    BY <1>0, <1>2, SpentKeys DEF Sound
  <2>2. UsedIn(v'.epoch, Spent) = {0}
    BY <2>1 DEF UsedIn
  <2>3. Represents(0, v'.window, {0})
    BY DEF Represents
  <2> QED BY <1>2, <2>1, <2>2, <2>3 DEF Sound
<1>5. Executions' /\ executed' \in [Uuids -> Nat]
  BY <1>1, <1>4, NothingExecuted
<1> QED BY <1>1, <1>2, <1>3, <1>5, VehicleStep

(***************************************************************************)
(* The client's operations.  A request that is sent disturbs what the      *)
(* invariant says of requests; what it says of the client's own state,     *)
(* Estimated and Learned, is the same without the request.                 *)
(***************************************************************************)
NewCommand(command) ==
  /\ \A m1, m2 \in command : m1 = m2
  /\ \A m \in command :
       /\ CommandType(m)
       /\ m.tagEpoch = v.epoch =>
            \E x \in 1 .. (now - v.zeroWall + Lifetime) : m.expiresAt = S!Wrap(x)

LEMMA PostStep ==
  ASSUME CInv, NEW command, NewCommand(command), Post(command),
         UNCHANGED <<clock, vehicleVars>>
  PROVE  /\ sent' \in Nat /\ RequestTypes' /\ Numbered' /\ Expiring' /\ Reported' /\ Executions'
         /\ net' = net \cup {[uuid |-> sent + 1, command |-> command, issued |-> now]}
         /\ \A r \in net : r.uuid # sent + 1
<1> USE ChannelAssumption
<1> DEFINE new == [uuid |-> sent + 1, command |-> command, issued |-> now]
<1>0. /\ sent \in Nat /\ clock.real \in Int /\ v.zeroWall \in Int
      /\ \A r \in net : r.uuid \in Nat /\ r.uuid <= sent /\ r.issued <= now
      /\ \A reply \in replies : reply.uuid \in Nat /\ reply.uuid <= sent
  BY ChannelFields DEF CInv, ChannelTypes, RequestTypes, ReplyTypes, Numbered, Uuids
<1>1. /\ sent' = sent + 1 /\ net' = net \cup {new} /\ new.uuid \in Uuids
      /\ clock' = clock /\ v' = v /\ replies' = replies /\ executed' = executed
  BY <1>0 DEF Post, vehicleVars, Uuids
<1>2. /\ new.uuid = sent + 1 /\ new.command = command /\ new.issued = now
  OBVIOUS
<1> HIDE DEF new
<1>3. \A r \in net : r.uuid # new.uuid
  BY <1>0, <1>2
<1>4. RequestTypes'
  <2>1. \A r \in net' : r.uuid \in Uuids /\ r.issued \in Int /\ \A m \in r.command : CommandType(m)
    BY <1>0, <1>1, <1>2 DEF CInv, ChannelTypes, RequestTypes, NewCommand, now
  <2> QED BY <2>1, <1>1 DEF RequestTypes, CommandType, Uuids, Counters
<1>5. Numbered'
  <2>1. \A r \in net' : r.uuid <= sent + 1 /\ r.issued <= now
    BY <1>0, <1>1, <1>2 DEF now
  <2>2. \A r1, r2 \in net' : r1.uuid = r2.uuid => r1 = r2
    BY <1>1, <1>3 DEF CInv, Numbered
  <2>3. \A r \in net' : \A m1, m2 \in r.command : m1 = m2
    BY <1>1, <1>2 DEF CInv, Numbered, NewCommand
  <2>4. \A reply \in replies : reply.uuid <= sent + 1
    BY <1>0
  <2> QED BY <1>1, <2>1, <2>2, <2>3, <2>4 DEF Numbered, now
<1>6. Expiring'
  <2>1. \A r \in net' : \A m \in r.command :
          m.tagEpoch = v.epoch =>
            \E x \in 1 .. (r.issued - v.zeroWall + Lifetime) : m.expiresAt = S!Wrap(x)
    BY <1>1, <1>2 DEF CInv, Expiring, NewCommand
  <2> QED BY <2>1, <1>1 DEF Expiring, S!Wrap
<1>7. Reported'
  <2>1. ASSUME NEW reply \in replies, NEW r \in net', r.uuid = reply.uuid PROVE r \in net
    BY <2>1, <1>0, <1>1, <1>2
  <2> QED BY <2>1, <1>1 DEF CInv, Reported, Timestamp
<1>8. Executions'
  <2>1. executed[new.uuid] = 0
    BY <1>0, <1>1, <1>2 DEF CInv, Executions
  <2>2. Spent' = Spent
    BY <2>1, <1>1 DEF Spent, Counters
  <2>3. Sound(v, Spent)'
    BY <2>2, <1>1 DEF CInv, Executions, Sound, UsedIn, Verifiers, Represents, Counters
  <2>4. OncePerKey'
    <3>1. \A r \in net' : r \in net \/ executed[r.uuid] = 0
      BY <2>1, <1>1
    <3>2. \A r1, r2 \in net' : \A m1 \in r1.command, m2 \in r2.command :
            m1.tagEpoch = m2.tagEpoch /\ m1.counter = m2.counter /\ m1.counter # 0 =>
              /\ executed[r1.uuid] <= 1
              /\ executed[r1.uuid] # 0 /\ executed[r2.uuid] # 0 => r1.uuid = r2.uuid
      <4>1. SUFFICES ASSUME NEW r1 \in net', NEW r2 \in net',
                            NEW m1 \in r1.command, NEW m2 \in r2.command,
                            m1.tagEpoch = m2.tagEpoch, m1.counter = m2.counter, m1.counter # 0
                     PROVE  /\ executed[r1.uuid] <= 1
                            /\ executed[r1.uuid] # 0 /\ executed[r2.uuid] # 0 => r1.uuid = r2.uuid
        OBVIOUS
      <4>2. r1 \in net => executed[r1.uuid] <= 1
        BY <4>1 DEF CInv, Executions, OncePerKey
      <4>3. r1 \in net /\ r2 \in net /\ executed[r1.uuid] # 0 /\ executed[r2.uuid] # 0
              => r1.uuid = r2.uuid
        BY <4>1 DEF CInv, Executions, OncePerKey
      <4> QED BY <3>1, <4>2, <4>3
    <3> QED BY <3>2, <1>1 DEF OncePerKey
  <2>5. \A u \in Uuids : u > sent + 1 => executed[u] = 0
    BY <1>0 DEF CInv, Executions, Uuids
  <2>6. (\A u \in Uuids : u > sent => executed[u] = 0)'
    BY <2>5, <1>1 DEF Uuids
  <2> QED BY <2>3, <2>4, <2>6 DEF Executions
<1>9. sent' \in Nat /\ \A r \in net : r.uuid # sent + 1
  BY <1>0, <1>1
<1> QED BY <1>1, <1>4, <1>5, <1>6, <1>7, <1>8, <1>9 DEF new

(* What a step that only the client takes leaves alone.                     *)
LEMMA ClientStep ==
  ASSUME CInv, UNCHANGED <<clock, vehicleVars>>
  PROVE  /\ ClocksAgree' /\ ReplyTypes'
         /\ v' \in Verifiers /\ clock' \in Instants /\ executed' \in [Uuids -> Nat]
         /\ v' = v /\ clock' = clock /\ replies' = replies /\ executed' = executed
<1>1. v' = v /\ clock' = clock /\ replies' = replies /\ executed' = executed
  BY DEF vehicleVars
<1>2. ClocksAgree'
  BY <1>1 DEF CInv, ClocksAgree
<1>3. ReplyTypes'
  BY <1>1 DEF CInv, ChannelTypes, ReplyTypes, Infos, Counters, Uuids
<1> QED BY <1>1, <1>2, <1>3 DEF CInv, ChannelTypes, StateTypes

(* Without a request, the requests and their executions stay as they are.   *)
LEMMA NothingSent ==
  ASSUME CInv, UNCHANGED <<clock, vehicleVars, net, sent>>
  PROVE  RequestTypes' /\ Numbered' /\ Expiring' /\ Reported' /\ Executions'
<1>1. v' = v /\ clock' = clock /\ replies' = replies /\ executed' = executed
  BY DEF vehicleVars
<1>2. RequestTypes' /\ Numbered'
  BY <1>1 DEF CInv, ChannelTypes, RequestTypes, CommandType, Numbered, Uuids, Counters, now
<1>3. Expiring' /\ Reported'
  BY <1>1 DEF CInv, Expiring, Reported, Timestamp, S!Wrap
<1>4. Executions'
  BY <1>1, NothingExecuted DEF CInv, Executions
<1> QED BY <1>2, <1>3, <1>4

LEMMA SendHelloStep ==
  ASSUME CInv, SendHello
  PROVE  CInv'
<1>1. /\ Post({}) /\ UNCHANGED <<clock, vehicleVars>>
      /\ s' = s /\ since' = since /\ saved' = saved
      /\ restarted' = restarted /\ wrapped' = wrapped
  BY DEF SendHello
<1>2. NewCommand({})
  BY DEF NewCommand
<1>3. /\ sent' \in Nat /\ RequestTypes' /\ Numbered' /\ Expiring' /\ Reported' /\ Executions'
      /\ net' = net \cup {[uuid |-> sent + 1, command |-> {}, issued |-> now]}
  BY <1>1, <1>2, PostStep
<1>4. ClocksAgree' /\ ReplyTypes'
      /\ v' \in Verifiers /\ clock' \in Instants /\ executed' \in [Uuids -> Nat]
      /\ v' = v /\ clock' = clock /\ replies' = replies /\ executed' = executed
  BY <1>1, ClientStep
<1>5. ChannelTypes'
  BY <1>1, <1>3, <1>4
     DEF CInv, ChannelTypes, StateTypes, Signers, Infos, Counters, Verifiers, Instants, Uuids
<1>6. Estimated' /\ Learned'
  BY <1>1, <1>4 DEF CInv, Estimated, Estimate, Learned, Timestamp, now
<1>7. CountersTaken' /\ CountersNotReused'
  BY <1>1, <1>3 DEF CInv, CountersTaken, CountersNotReused
<1> QED BY <1>3, <1>4, <1>5, <1>6, <1>7 DEF CInv

LEMMA SendCommandStep ==
  ASSUME CInv, NEW method \in Methods, SendCommand(method)
  PROVE  CInv'
<1> USE LimitsAssumption, ChannelAssumption
<1> DEFINE m == CommandFrom(s)
           x == now + Lifetime - s.timeZero
<1>0. /\ s \in Signers /\ s.epoch \in 1 .. v.epoch /\ s.counter \in Nat /\ s.counter <= MaxCounter
      /\ s.timeZero \in Int /\ s.setTime \in Nat /\ clock.real \in Int /\ v.zeroWall \in Int
      /\ s.timeZero <= now
  BY ChannelFields DEF CInv, ChannelTypes, StateTypes, Estimated, SendCommand
<1>1. /\ s' = [s EXCEPT !.counter = S!NextCounter(s)]
      /\ wrapped' = (wrapped \/ s.counter = MaxCounter)
      /\ UNCHANGED <<clock, vehicleVars>>
      /\ since' = since /\ saved' = saved /\ restarted' = restarted
      /\ IF S!CanSign(s, Lifetime, now) THEN Post({m}) ELSE UNCHANGED <<sent, net>>
  BY DEF SendCommand
<1>2. /\ S!NextCounter(s) \in Counters /\ S!NextCounter(s) \in Nat
      /\ s.counter # MaxCounter => S!NextCounter(s) = s.counter + 1
  BY <1>0, Wraps DEF S!NextCounter
<1>3. /\ s' \in Signers /\ s'.epoch = s.epoch /\ s'.counter = S!NextCounter(s)
      /\ s'.setTime = s.setTime /\ s'.timeZero = s.timeZero
  BY <1>0, <1>1, <1>2 DEF Signers
<1>4. /\ m.tagEpoch = s.epoch /\ m.counter = S!NextCounter(s)
      /\ m.expiresAt = S!Wrap(x)
  BY DEF CommandFrom, S!ExpiresAt
<1> HIDE DEF m
<1>5. x \in Nat /\ x >= 1
  BY <1>0 DEF now
<1>6. NewCommand({m})
  <2>1. CommandType(m)
    BY <1>0, <1>2, <1>4, <1>5, Wraps DEF CommandType
  <2>2. ASSUME m.tagEpoch = v.epoch
        PROVE  \E y \in 1 .. (now - v.zeroWall + Lifetime) : m.expiresAt = S!Wrap(y)
    <3>1. s.timeZero >= v.zeroWall
      BY <2>2, <1>4 DEF CInv, Estimated, Estimate
    <3>2. x \in 1 .. (now - v.zeroWall + Lifetime)
      BY <3>1, <1>0, <1>5 DEF now
    <3> QED BY <3>2, <1>4
  <2> QED BY <2>1, <2>2 DEF NewCommand
<1>7. ClocksAgree' /\ ReplyTypes'
      /\ v' \in Verifiers /\ clock' \in Instants /\ executed' \in [Uuids -> Nat]
      /\ v' = v /\ clock' = clock /\ replies' = replies /\ executed' = executed
  BY <1>1, ClientStep
<1>8. /\ sent' \in Nat /\ RequestTypes' /\ Numbered' /\ Expiring' /\ Reported' /\ Executions'
      /\ \/ net' = net
         \/ /\ net' = net \cup {[uuid |-> sent + 1, command |-> {m}, issued |-> now]}
            /\ \A r \in net : r.uuid # sent + 1
  <2>1. CASE S!CanSign(s, Lifetime, now)
    BY <2>1, <1>1, <1>6, PostStep
  <2>2. CASE ~S!CanSign(s, Lifetime, now)
    BY <2>2, <1>1, NothingSent DEF CInv, ChannelTypes, StateTypes
  <2> QED BY <2>1, <2>2
<1>9. ChannelTypes'
  <2>1. StateTypes'
    BY <1>0, <1>1, <1>3, <1>7, <1>8
       DEF CInv, ChannelTypes, StateTypes, Signers, Infos, Counters, Verifiers, Instants, Uuids
  <2> QED BY <2>1, <1>7, <1>8 DEF ChannelTypes
<1>10. Estimated'
  BY <1>1, <1>3, <1>7 DEF CInv, Estimated, Estimate, now
<1>11. ASSUME ~wrapped' PROVE ~wrapped /\ s'.counter = s.counter + 1
  BY <1>1, <1>2, <1>3, <1>11
<1>12. Learned'
  <2>1. SUFFICES ASSUME ~wrapped', ~restarted \/ clock.mono = clock.real, s.epoch = v.epoch
                 PROVE  /\ s.setTime <= Timestamp(v, clock)
                        /\ \A reply \in replies :
                             /\ reply.uuid > since /\ reply.info.epoch = v.epoch
                             /\ reply.info.clockTime < s.setTime
                             => reply.info.counter <= s'.counter
    BY <1>1, <1>3, <1>7 DEF Learned, Timestamp
  <2>2. /\ s.setTime <= Timestamp(v, clock)
        /\ \A reply \in replies :
             /\ reply.uuid > since /\ reply.info.epoch = v.epoch
             /\ reply.info.clockTime < s.setTime
             => reply.info.counter <= s.counter
    BY <2>1, <1>11 DEF CInv, Learned
  <2>3. \A reply \in replies : reply.info.counter \in Nat
    BY InfoFields DEF CInv, ChannelTypes, ReplyTypes
  <2> QED BY <2>1, <2>2, <2>3, <1>0, <1>11
<1>13. CountersTaken' /\ CountersNotReused'
  <2>1. SUFFICES ASSUME ~restarted', ~wrapped'
                 PROVE  /\ \A r \in net' : \A n \in r.command : n.counter <= s'.counter
                        /\ \A r1, r2 \in net' : \A m1 \in r1.command, m2 \in r2.command :
                             m1.tagEpoch = m2.tagEpoch /\ m1.counter = m2.counter
                               => r1.uuid = r2.uuid
    BY DEF CountersTaken, CountersNotReused
  <2>2. \A r \in net : \A n \in r.command : n.counter \in Nat /\ n.counter <= s.counter
    BY <2>1, <1>1, <1>11
       DEF CInv, CountersTaken, ChannelTypes, RequestTypes, CommandType, Counters
  <2>3. \A r1, r2 \in net : \A m1 \in r1.command, m2 \in r2.command :
          m1.tagEpoch = m2.tagEpoch /\ m1.counter = m2.counter => r1.uuid = r2.uuid
    BY <2>1, <1>1, <1>11 DEF CInv, CountersNotReused
  <2>4. m.counter = s.counter + 1 /\ s'.counter = s.counter + 1
    BY <2>1, <1>3, <1>4, <1>11
  <2>5. \A r \in net : \A n \in r.command : n.counter <= s'.counter /\ n.counter # m.counter
    BY <2>2, <2>4, <1>0
  <2>6. m.counter <= s'.counter
    BY <2>4, <1>0
  <2> QED BY <2>3, <2>5, <2>6, <1>8
<1> QED BY <1>7, <1>8, <1>9, <1>10, <1>12, <1>13 DEF CInv

(* What the client makes of session info: it adopts it, or has already      *)
(* adopted later info of the same epoch.                                    *)
LEMMA Resynchronises ==
  ASSUME s \in Signers, clock.real \in Int, NEW info \in Infos,
         NEW sg, sg = Resynchronised(info)
  PROVE  /\ sg \in Signers /\ sg.epoch = info.epoch
         /\ sg.counter >= s.counter
         /\ \/ /\ sg.setTime = info.clockTime /\ sg.timeZero = now - info.clockTime
               /\ sg.counter >= info.counter
            \/ sg = s /\ info.clockTime < s.setTime
<1> DEFINE fresh == [epoch |-> info.epoch, counter |-> info.counter,
                     setTime |-> info.clockTime, timeZero |-> now - info.clockTime]
           larger == IF s.counter < info.counter THEN info.counter ELSE s.counter
<1>0. /\ s.epoch \in Nat /\ s.counter \in Nat /\ s.setTime \in Nat /\ s.timeZero \in Int
      /\ s.counter \in Counters
      /\ info.epoch \in Nat /\ info.counter \in Nat /\ info.clockTime \in Nat
      /\ info.counter \in Counters /\ now \in Int
  BY SignerFields, InfoFields DEF Signers, Infos, now
<1>1. fresh \in Signers
  BY <1>0 DEF Signers
<1>2. larger \in Counters /\ larger \in Nat /\ larger >= s.counter /\ larger >= info.counter
  BY <1>0
<1>3. CASE s = NoSession
  <2>1. sg = fresh
    BY <1>3 DEF Resynchronised, S!NewSigner
  <2>2. s.counter = 0
    BY <1>3 DEF NoSession
  <2> QED BY <2>1, <2>2, <1>0, <1>1
<1>4. CASE s # NoSession /\ (s.epoch # info.epoch \/ s.setTime <= info.clockTime)
  <2>1. sg = [fresh EXCEPT !.counter = larger]
    BY <1>4 DEF Resynchronised, S!UpdateSessionInfo, S!NewSigner
  <2>2. /\ sg \in Signers /\ sg.epoch = info.epoch /\ sg.counter = larger
        /\ sg.setTime = info.clockTime /\ sg.timeZero = now - info.clockTime
    BY <2>1, <1>1, <1>2 DEF Signers
  <2> QED BY <2>2, <1>2
<1>5. CASE s # NoSession /\ ~(s.epoch # info.epoch \/ s.setTime <= info.clockTime)
  <2>1. sg = s
    BY <1>5 DEF Resynchronised, S!UpdateSessionInfo
  <2> QED BY <2>1, <1>0, <1>5
<1> QED BY <1>3, <1>4, <1>5

(* What a reply that can be learned from says of the vehicle's epoch.       *)
LEMMA LearnableEstimate ==
  ASSUME CInv, NEW reply \in replies, Learnable(reply), reply.info.epoch = v.epoch
  PROVE  /\ reply.info.clockTime <= Timestamp(v, clock)
         /\ now - reply.info.clockTime >= v.zeroWall
         /\ now - reply.info.clockTime <= v.zeroWall + MaxLatency + 1
<1>1. /\ clock.real \in Int /\ clock.mono \in Int /\ v.zeroWall \in Int /\ v.zeroMono \in Int
      /\ reply.info.clockTime \in Nat
  BY ChannelFields, InfoFields DEF CInv, ChannelTypes, ReplyTypes
<1>2. PICK r \in net : r.uuid = reply.uuid /\ now <= r.issued + MaxLatency
  BY DEF Learnable
<1>3. /\ reply.info.clockTime <= Timestamp(v, clock)
      /\ r.issued <= v.zeroWall + reply.info.clockTime + 1
  BY <1>2 DEF CInv, Reported
<1>4. r.issued \in Int
  BY DEF CInv, ChannelTypes, RequestTypes
<1>5. clock.mono - v.zeroMono <= clock.real - v.zeroWall
  BY <1>1 DEF CInv, ClocksAgree
<1> QED BY <1>1, <1>2, <1>3, <1>4, <1>5, ChannelAssumption DEF Timestamp, now

LEMMA LearnStep ==
  ASSUME CInv, NEW reply \in replies, Learn(reply)
  PROVE  CInv'
<1> USE LimitsAssumption, ChannelAssumption
<1> DEFINE info == reply.info
<1>0. /\ s \in Signers /\ s.counter \in Nat /\ s.setTime \in Nat /\ s.timeZero \in Int
      /\ clock.real \in Int /\ clock.mono \in Int /\ clock.wall \in Int
      /\ v.zeroWall \in Int /\ v.zeroMono \in Int
      /\ info \in Infos /\ info.epoch \in 1 .. v.epoch
      /\ info.clockTime \in Nat /\ info.counter \in Nat
  BY ChannelFields, InfoFields DEF CInv, ChannelTypes, StateTypes, ReplyTypes
<1>1. /\ Learnable(reply) /\ s' = Resynchronised(info)
      /\ UNCHANGED <<clock, vehicleVars>> /\ net' = net /\ sent' = sent
      /\ since' = since /\ saved' = saved /\ restarted' = restarted /\ wrapped' = wrapped
  BY DEF Learn
<1>2. /\ s' \in Signers /\ s'.epoch = info.epoch /\ s'.counter >= s.counter
      /\ \/ /\ s'.setTime = info.clockTime /\ s'.timeZero = now - info.clockTime
            /\ s'.counter >= info.counter
         \/ s' = s /\ info.clockTime < s.setTime
  BY <1>0, <1>1, Resynchronises
<1>3. s'.counter \in Nat
  BY <1>2, SignerFields
<1>4. ClocksAgree' /\ ReplyTypes'
      /\ v' \in Verifiers /\ clock' \in Instants /\ executed' \in [Uuids -> Nat]
      /\ v' = v /\ clock' = clock /\ replies' = replies /\ executed' = executed
  BY <1>1, ClientStep
<1>5. RequestTypes' /\ Numbered' /\ Expiring' /\ Reported' /\ Executions'
  BY <1>1, NothingSent
<1>6. ChannelTypes'
  <2>1. StateTypes'
    BY <1>0, <1>1, <1>2, <1>4
       DEF CInv, ChannelTypes, StateTypes, Signers, Infos, Counters, Verifiers, Instants, Uuids
  <2> QED BY <2>1, <1>4, <1>5 DEF ChannelTypes
<1>7. info.epoch = v.epoch =>
        /\ info.clockTime <= Timestamp(v, clock)
        /\ now - info.clockTime >= v.zeroWall
        /\ now - info.clockTime <= v.zeroWall + MaxLatency + 1
  BY <1>1, LearnableEstimate
<1>8. Estimated'
  <2>1. s'.timeZero <= now /\ (s'.epoch = v.epoch => Estimate(s'.timeZero))
    BY <1>0, <1>2, <1>7 DEF CInv, Estimated, Estimate, now
  <2> QED BY <2>1, <1>1, <1>4 DEF CInv, Estimated, Estimate, now
<1>9. Learned'
  <2>1. SUFFICES ASSUME ~wrapped, ~restarted \/ clock.mono = clock.real, s'.epoch = v.epoch
                 PROVE  /\ s'.setTime <= Timestamp(v, clock)
                        /\ \A q \in replies :
                             /\ q.uuid > since /\ q.info.epoch = v.epoch
                             /\ q.info.clockTime < s'.setTime
                             => q.info.counter <= s'.counter
    BY <1>1, <1>4 DEF Learned, Timestamp
  <2>2. CASE s' = s
    BY <2>1, <2>2 DEF CInv, Learned
  <2>3. CASE s'.setTime = info.clockTime /\ s'.counter >= info.counter
    <3>1. info.epoch = v.epoch /\ s'.setTime <= Timestamp(v, clock)
      BY <2>1, <2>3, <1>2, <1>7
    <3>2. \A q \in replies : q.info.epoch = v.epoch /\ q.info.clockTime < info.clockTime
                               => q.info.counter <= info.counter
      BY <3>1 DEF CInv, Reported
    <3>3. \A q \in replies : q.info.counter \in Nat
      BY InfoFields DEF CInv, ChannelTypes, ReplyTypes
    <3> QED BY <2>3, <3>1, <3>2, <3>3, <1>0, <1>3
  <2> QED BY <2>2, <2>3, <1>2
<1>10. CountersTaken' /\ CountersNotReused'
  <2>1. \A r \in net : \A m \in r.command : m.counter \in Nat
    BY DEF CInv, ChannelTypes, RequestTypes, CommandType, Counters
  <2>2. CountersTaken'
    BY <2>1, <1>0, <1>1, <1>2, <1>3 DEF CInv, CountersTaken
  <2> QED BY <2>2, <1>1 DEF CInv, CountersNotReused
<1> QED BY <1>4, <1>5, <1>6, <1>8, <1>9, <1>10 DEF CInv

LEMMA SaveStep ==
  ASSUME CInv, Save
  PROVE  CInv'
<1> USE LimitsAssumption, ChannelAssumption
<1> DEFINE age == now - s.timeZero
<1>0. /\ s \in Signers /\ s.epoch \in 1 .. v.epoch /\ s.counter \in Counters /\ s.epoch \in Nat
      /\ s.timeZero \in Int /\ clock.real \in Int /\ v.zeroWall \in Int /\ s.timeZero <= now
  BY ChannelFields DEF CInv, ChannelTypes, StateTypes, Estimated, Save, Signers
<1>1. /\ saved' = [info |-> [epoch |-> s.epoch, counter |-> s.counter, clockTime |-> S!Wrap(age)],
                   createdAt |-> now]
      /\ UNCHANGED <<clock, vehicleVars>> /\ net' = net /\ sent' = sent /\ s' = s
      /\ since' = since /\ restarted' = restarted /\ wrapped' = wrapped
  BY DEF Save, S!Export, S!SessionInfoOf
<1>2. /\ saved'.info.epoch = s.epoch /\ saved'.info.counter = s.counter
      /\ saved'.info.clockTime = S!Wrap(age) /\ saved'.createdAt = now
  BY <1>1
<1>3. /\ age \in Nat /\ S!Wrap(age) \in Nat /\ S!Wrap(age) <= age
      /\ age <= MaxCounter => S!Wrap(age) = age
  <2>1. age \in Nat
    BY <1>0 DEF now
  <2> QED BY <2>1, Wraps
<1>4. saved'.info \in Infos /\ saved'.createdAt \in Int
  BY <1>0, <1>1, <1>3 DEF Infos, now
<1>5. ClocksAgree' /\ ReplyTypes'
      /\ v' \in Verifiers /\ clock' \in Instants /\ executed' \in [Uuids -> Nat]
      /\ v' = v /\ clock' = clock /\ replies' = replies /\ executed' = executed
  BY <1>1, ClientStep
<1>6. RequestTypes' /\ Numbered' /\ Expiring' /\ Reported' /\ Executions'
  BY <1>1, NothingSent
<1>7. ChannelTypes'
  <2>1. StateTypes'
    BY <1>0, <1>1, <1>2, <1>4, <1>5
       DEF CInv, ChannelTypes, StateTypes, Signers, Infos, Counters, Verifiers, Instants, Uuids
  <2> QED BY <2>1, <1>5, <1>6 DEF ChannelTypes
<1>8. Estimated'
  <2>1. saved'.createdAt <= now
    BY <1>0, <1>2 DEF now
  <2>2. s.epoch = v.epoch => Estimate(now - S!Wrap(age))
    <3>1. SUFFICES ASSUME s.epoch = v.epoch PROVE Estimate(now - S!Wrap(age))
      OBVIOUS
    <3>2. Estimate(s.timeZero)
      BY <3>1 DEF CInv, Estimated
    <3>3. CASE age <= MaxCounter
      <4>1. now - S!Wrap(age) = s.timeZero
        BY <3>3, <1>0, <1>3 DEF now
      <4> QED BY <3>2, <4>1
    <3>4. CASE ~(age <= MaxCounter)
      <4>1. now - S!Wrap(age) >= s.timeZero /\ now - s.timeZero > MaxCounter
        BY <3>4, <1>0, <1>3 DEF now
      <4> QED BY <3>2, <4>1, <1>0, <1>3 DEF Estimate, now
    <3> QED BY <3>3, <3>4
  <2> QED BY <2>1, <2>2, <1>1, <1>2, <1>5 DEF CInv, Estimated, Estimate, now
<1>9. Learned'
  BY <1>1, <1>5 DEF CInv, Learned, Timestamp
<1>10. CountersTaken' /\ CountersNotReused'
  BY <1>1 DEF CInv, CountersTaken, CountersNotReused
<1> QED BY <1>5, <1>6, <1>7, <1>8, <1>9, <1>10 DEF CInv

LEMMA RestartStep ==
  ASSUME CInv, Restart
  PROVE  CInv'
<1> USE LimitsAssumption, ChannelAssumption
<1>0. /\ saved.info \in Infos /\ saved.info.epoch \in 1 .. v.epoch /\ saved.info.epoch \in Nat
      /\ saved.info.counter \in Counters /\ saved.info.clockTime \in Nat
      /\ saved.createdAt \in Int /\ clock.real \in Int /\ clock.mono \in Int
      /\ v.zeroWall \in Int /\ v.zeroMono \in Int /\ sent \in Nat
  BY ChannelFields DEF CInv, ChannelTypes, StateTypes, Restart, Infos
<1>1. /\ s' = [epoch |-> saved.info.epoch, counter |-> saved.info.counter,
               setTime |-> saved.info.clockTime,
               timeZero |-> saved.createdAt - saved.info.clockTime]
      /\ UNCHANGED <<clock, vehicleVars>> /\ net' = net /\ sent' = sent
      /\ since' = sent /\ saved' = saved /\ restarted' = TRUE /\ wrapped' = wrapped
  BY DEF Restart, S!Import, S!NewSigner
<1>2. /\ s' \in Signers /\ s'.epoch = saved.info.epoch
      /\ s'.setTime = saved.info.clockTime
      /\ s'.timeZero = saved.createdAt - saved.info.clockTime
  BY <1>0, <1>1 DEF Signers
<1>3. ClocksAgree' /\ ReplyTypes'
      /\ v' \in Verifiers /\ clock' \in Instants /\ executed' \in [Uuids -> Nat]
      /\ v' = v /\ clock' = clock /\ replies' = replies /\ executed' = executed
  BY <1>1, ClientStep
<1>4. RequestTypes' /\ Numbered' /\ Expiring' /\ Reported' /\ Executions'
  BY <1>1, NothingSent
<1>5. ChannelTypes'
  <2>1. StateTypes'
    BY <1>0, <1>1, <1>2, <1>3
       DEF CInv, ChannelTypes, StateTypes, Signers, Infos, Counters, Verifiers, Instants, Uuids
  <2> QED BY <2>1, <1>3, <1>4 DEF ChannelTypes
<1>6. Estimated'
  <2>1. s'.timeZero <= now
    BY <1>0, <1>2 DEF CInv, Estimated, now
  <2> QED BY <2>1, <1>1, <1>2, <1>3 DEF CInv, Estimated, Estimate, now
<1>7. Learned'
  <2>1. SUFFICES ASSUME clock.mono = clock.real, saved.info.epoch = v.epoch
                 PROVE  /\ saved.info.clockTime <= Timestamp(v, clock)
                        /\ \A reply \in replies : ~(reply.uuid > sent)
    BY <1>1, <1>2, <1>3 DEF Learned, Timestamp
  <2>2. saved.createdAt - saved.info.clockTime >= v.zeroWall /\ saved.createdAt <= now
    BY <2>1 DEF CInv, Estimated, Estimate
  <2>3. v.zeroMono <= v.zeroWall
    BY DEF CInv, ClocksAgree
  <2>4. saved.info.clockTime <= clock.mono - v.zeroMono
    BY <2>1, <2>2, <2>3, <1>0 DEF now
  <2>5. \A reply \in replies : reply.uuid \in Nat /\ reply.uuid <= sent
    BY DEF CInv, Numbered, ChannelTypes, ReplyTypes, Uuids
  <2> QED BY <2>4, <2>5, <1>0 DEF Timestamp
<1>8. CountersTaken' /\ CountersNotReused'
  BY <1>1 DEF CountersTaken, CountersNotReused
<1> QED BY <1>3, <1>4, <1>5, <1>6, <1>7, <1>8 DEF CInv

LEMMA TimeStep ==
  ASSUME CInv, NEW awake \in {0, 1}, PassTime(awake)
  PROVE  CInv'
<1> USE LimitsAssumption, ChannelAssumption
<1>0. /\ clock.mono \in Int /\ clock.wall \in Int /\ clock.real \in Int
      /\ v.zeroWall \in Int /\ v.zeroMono \in Int /\ s.timeZero \in Int /\ s.setTime \in Nat
      /\ saved.createdAt \in Int
  BY ChannelFields DEF CInv, ChannelTypes
<1>1. /\ clock' = [mono |-> clock.mono + awake, wall |-> clock.wall + 1, real |-> clock.real + 1]
      /\ v' = v /\ s' = s /\ sent' = sent /\ since' = since /\ net' = net /\ replies' = replies
      /\ saved' = saved /\ executed' = executed /\ restarted' = restarted /\ wrapped' = wrapped
  BY DEF PassTime, clientVars, vehicleVars
<1>2. /\ clock' \in Instants /\ clock'.mono = clock.mono + awake
      /\ clock'.wall = clock.wall + 1 /\ clock'.real = clock.real + 1
  BY <1>0, <1>1 DEF Instants
<1>3. ClocksAgree'
  <2>1. /\ clock.real >= 0 /\ clock.wall = clock.real /\ clock.mono <= clock.real
        /\ v.zeroMono <= clock.mono /\ v.zeroMono <= v.zeroWall
        /\ v.zeroWall - v.zeroMono <= clock.real - clock.mono
    BY DEF CInv, ClocksAgree
  <2> QED BY <2>1, <1>0, <1>1, <1>2 DEF ClocksAgree
<1>4. ChannelTypes'
  <2>1. StateTypes'
    BY <1>1, <1>2
       DEF CInv, ChannelTypes, StateTypes, Signers, Infos, Counters, Verifiers, Instants, Uuids
  <2>2. RequestTypes' /\ ReplyTypes'
    BY <1>1 DEF CInv, ChannelTypes, RequestTypes, ReplyTypes, CommandType, Uuids, Infos, Counters
  <2> QED BY <2>1, <2>2 DEF ChannelTypes
<1>5. Numbered'
  <2>1. \A r \in net : r.issued \in Int /\ r.issued <= clock.real
    BY DEF CInv, Numbered, ChannelTypes, RequestTypes, now
  <2>2. \A r \in net : r.issued <= clock'.real
    BY <2>1, <1>0, <1>2
  <2> QED BY <2>2, <1>1 DEF CInv, Numbered, now
<1>6. Estimated'
  <2>1. \A zero \in Int :
          Estimate(zero) => /\ zero >= v.zeroWall
                            /\ \/ zero <= v.zeroWall + MaxLatency + 1
                               \/ clock'.real - v.zeroWall > MaxCounter
    BY <1>0, <1>2 DEF Estimate, now
  <2>2. s.timeZero <= clock'.real /\ saved.createdAt <= clock'.real
    BY <1>0, <1>2 DEF CInv, Estimated, now
  <2>3. saved.createdAt - saved.info.clockTime \in Int
    BY <1>0, ChannelFields DEF CInv, ChannelTypes
  <2> QED BY <2>1, <2>2, <2>3, <1>0, <1>1 DEF CInv, Estimated, Estimate, now
<1>7. Expiring'
  BY <1>1 DEF CInv, Expiring, S!Wrap
<1>8. Timestamp(v, clock') >= Timestamp(v, clock)
      /\ Timestamp(v, clock) \in Int /\ Timestamp(v, clock') \in Int
  BY <1>0, <1>2 DEF Timestamp
<1>9. Reported'
  <2>1. \A reply \in replies : reply.info.clockTime \in Nat
    BY InfoFields DEF CInv, ChannelTypes, ReplyTypes
  <2>2. \A reply \in replies : reply.info.epoch = v.epoch =>
          reply.info.clockTime <= Timestamp(v, clock')
    BY <2>1, <1>8 DEF CInv, Reported
  <2> QED BY <2>2, <1>1 DEF CInv, Reported
<1>10. Learned'
  <2>1. SUFFICES ASSUME ~wrapped, ~restarted \/ clock'.mono = clock'.real, s.epoch = v.epoch
                 PROVE  /\ s.setTime <= Timestamp(v, clock')
                        /\ \A reply \in replies :
                             /\ reply.uuid > since /\ reply.info.epoch = v.epoch
                             /\ reply.info.clockTime < s.setTime
                             => reply.info.counter <= s.counter
    BY <1>1 DEF Learned
  <2>2. ~restarted \/ clock.mono = clock.real
    <3>1. clock'.mono = clock'.real => clock.mono = clock.real
      BY <1>0, <1>2 DEF CInv, ClocksAgree
    <3> QED BY <2>1, <3>1
  <2>3. s.setTime <= Timestamp(v, clock)
    BY <2>1, <2>2 DEF CInv, Learned
  <2>4. s.setTime <= Timestamp(v, clock')
    BY <2>3, <1>0, <1>8
  <2> QED BY <2>1, <2>2, <2>4 DEF CInv, Learned
<1>11. Executions'
  <2>1. Sound(v', Spent)
    BY <1>1 DEF CInv, Executions
  <2> QED BY <2>1, <1>1, NothingExecuted
<1>12. CountersTaken' /\ CountersNotReused'
  BY <1>1 DEF CInv, CountersTaken, CountersNotReused
<1> QED BY <1>3, <1>4, <1>5, <1>6, <1>7, <1>9, <1>10, <1>11, <1>12 DEF CInv

LEMMA StepCInv == CInv /\ [ChannelNext]_channelVars => CInv'
<1> SUFFICES ASSUME CInv, [ChannelNext]_channelVars PROVE CInv'
  OBVIOUS
<1>1. CASE SendHello
  BY <1>1, SendHelloStep
<1>2. ASSUME NEW method \in Methods, SendCommand(method) PROVE CInv'
  BY <1>2, SendCommandStep
<1>3. ASSUME NEW reply \in replies, Learn(reply) PROVE CInv'
  BY <1>3, LearnStep
<1>4. CASE Save
  BY <1>4, SaveStep
<1>5. CASE Restart
  BY <1>5, RestartStep
<1>6. ASSUME NEW r \in net, ReceiveHello(r) PROVE CInv'
  BY <1>6, HelloStep
<1>7. ASSUME NEW r \in net, NEW m \in r.command, ReceiveCommand(r, m) PROVE CInv'
  BY <1>7, CommandStep
<1>8. CASE Reboot
  BY <1>8, RebootStep
<1>9. ASSUME NEW awake \in {0, 1}, PassTime(awake) PROVE CInv'
  BY <1>9, TimeStep
<1>10. CASE UNCHANGED channelVars
  <2>1. /\ v' = v /\ clock' = clock /\ s' = s /\ sent' = sent /\ since' = since /\ net' = net
        /\ replies' = replies /\ saved' = saved /\ executed' = executed
        /\ restarted' = restarted /\ wrapped' = wrapped
    BY <1>10 DEF channelVars, clientVars, vehicleVars
  <2>2. ChannelTypes'
    BY <2>1 DEF CInv, ChannelTypes, StateTypes, RequestTypes, ReplyTypes, CommandType,
                Verifiers, Instants, Signers, Infos, Counters, Uuids
  <2>3. RequestTypes' /\ Numbered' /\ Expiring' /\ Reported' /\ Executions'
    BY <2>1, NothingSent DEF vehicleVars
  <2>4. ClocksAgree' /\ Estimated' /\ Learned' /\ CountersTaken' /\ CountersNotReused'
    BY <2>1 DEF CInv, ClocksAgree, Estimated, Estimate, Learned, CountersTaken,
                CountersNotReused, Timestamp, now
  <2> QED BY <2>2, <2>3, <2>4 DEF CInv
<1> QED BY <1>1, <1>2, <1>3, <1>4, <1>5, <1>6, <1>7, <1>8, <1>9, <1>10 DEF ChannelNext

LEMMA ChannelInvariance == ChannelSpec => []CInv
BY InitCInv, StepCInv, PTL DEF ChannelSpec

(* Over loss, duplication, reordering, reboots and restarts, the vehicle    *)
(* executes a command at most once, and at most one of two that share an    *)
(* epoch and counter.                                                       *)
THEOREM CommandsExecuteOnce == ChannelSpec => []ExecutedOnce
<1>1. CInv => ExecutedOnce
  <2>1. SUFFICES ASSUME CInv, NEW r1 \in net, NEW r2 \in net,
                        NEW m1 \in r1.command, NEW m2 \in r2.command,
                        m1.tagEpoch = m2.tagEpoch, m1.counter = m2.counter, m1.counter # 0
                 PROVE  /\ executed[r1.uuid] <= 1
                        /\ r1.uuid # r2.uuid => executed[r1.uuid] + executed[r2.uuid] <= 1
    BY DEF ExecutedOnce
  <2>2. /\ executed[r1.uuid] <= 1 /\ executed[r2.uuid] <= 1
        /\ executed[r1.uuid] # 0 /\ executed[r2.uuid] # 0 => r1.uuid = r2.uuid
    BY <2>1 DEF CInv, Executions, OncePerKey
  <2>3. executed[r1.uuid] \in Nat /\ executed[r2.uuid] \in Nat
    BY <2>1 DEF CInv, ChannelTypes, StateTypes, RequestTypes
  <2> QED BY <2>2, <2>3
<1> QED BY <1>1, ChannelInvariance, PTL

(* A client that is not restarted uses a counter once per epoch, until it   *)
(* wraps.                                                                   *)
THEOREM CountersAreFresh == ChannelSpec => []CountersNotReused
<1>1. CInv => CountersNotReused
  BY DEF CInv
<1> QED BY <1>1, ChannelInvariance, PTL

LEMMA ExecutionInTime ==
  ASSUME CInv, NEW r \in net, NEW m \in r.command,
         Answer(v, m, clock, clock, TRUE).result = Accepted
  PROVE  now - r.issued <= Lifetime + 1
<1> USE LimitsAssumption, ChannelAssumption
<1> DEFINE a == Answer(v, m, clock, clock, TRUE)
<1>1. Acceptance(a, v, m, Spent, clock, clock)
  BY AnswerToCommand
<1> HIDE DEF a
<1>2. /\ a.ver \in Verifiers /\ a.ver.zeroWall = v.zeroWall /\ m.tagEpoch = v.epoch
      /\ Timestamp(a.ver, clock) <= EpochLength
      /\ clock.wall - v.zeroWall <= Timestamp(a.ver, clock) + 1
      /\ m.expiresAt # 0 => Timestamp(a.ver, clock) <= m.expiresAt
  BY <1>1 DEF Acceptance, Ages, Current
<1>3. /\ clock.mono \in Int /\ clock.real \in Int /\ clock.wall = clock.real
      /\ v.zeroWall \in Int /\ a.ver.zeroMono \in Int /\ r.issued \in Int /\ r.issued <= clock.real
  BY <1>2, ChannelFields, VerifierFields
     DEF CInv, ChannelTypes, RequestTypes, ClocksAgree, Numbered, now
<1>4. Timestamp(a.ver, clock) \in Int
  BY <1>3 DEF Timestamp
<1>5. PICK x \in 1 .. (r.issued - v.zeroWall + Lifetime) : m.expiresAt = S!Wrap(x)
  BY <1>2 DEF CInv, Expiring
<1>6. x \in Nat /\ x >= 1 /\ x <= r.issued - v.zeroWall + Lifetime
  BY <1>3, <1>5
<1>7. x <= MaxCounter
  BY <1>2, <1>3, <1>4, <1>6
<1>8. m.expiresAt = x
  BY <1>5, <1>6, <1>7, Wraps
<1> QED BY <1>2, <1>3, <1>4, <1>6, <1>8 DEF now

(* No command is executed later than Lifetime after its issue, but for the  *)
(* second that adjustClock tolerates.                                       *)
THEOREM CommandsExecuteInTime == ChannelSpec => ExecutedInTime
<1>1. CInv /\ [ChannelNext]_channelVars =>
        [\A r \in net : executed'[r.uuid] # executed[r.uuid]
           => now - r.issued <= Lifetime + 1]_channelVars
  <2>1. SUFFICES ASSUME CInv, ChannelNext, NEW q \in net, executed'[q.uuid] # executed[q.uuid]
                 PROVE  now - q.issued <= Lifetime + 1
    OBVIOUS
  <2>2. PICK r \in net : \E m \in r.command : ReceiveCommand(r, m)
    BY <2>1 DEF ChannelNext, SendHello, SendCommand, Learn, Save, Restart, ReceiveHello, Reboot,
                PassTime, vehicleVars
  <2>3. PICK m \in r.command : ReceiveCommand(r, m)
    BY <2>2
  <2>4. /\ Answer(v, m, clock, clock, TRUE).result = Accepted
        /\ executed' = [executed EXCEPT ![r.uuid] = @ + 1]
    BY <2>1, <2>3 DEF ReceiveCommand
  <2>5. q = r
    <3>1. q.uuid \in Uuids /\ executed \in [Uuids -> Nat]
      BY <2>1 DEF CInv, ChannelTypes, StateTypes, RequestTypes
    <3>2. q.uuid = r.uuid
      BY <3>1, <2>1, <2>4
    <3> QED BY <3>2, <2>1 DEF CInv, Numbered
  <2> QED BY <2>1, <2>4, <2>5, ExecutionInTime
<1> QED BY <1>1, ChannelInvariance, PTL DEF ChannelSpec, ExecutedInTime

-----------------------------------------------------------------------------
(* The promise of TimelyExecution.                                          *)

OrderOf(r, m) == [number |-> r.uuid, key |-> <<m.tagEpoch, m.counter>>, at |-> r.issued]

LEMMA OrdersAre ==
  /\ \A r \in net : \A m \in r.command : OrderOf(r, m) \in Orders
  /\ \A o \in Orders : \E r \in net : \E m \in r.command : o = OrderOf(r, m)
<1>1. Orders = UNION {{OrderOf(r, m) : m \in r.command} : r \in net}
  BY DEF Orders, OrderOf
<1> QED BY <1>1

(* A request adds what its command orders, if it has one.                   *)
LEMMA OrdersGrow ==
  ASSUME NEW r, net' = net \cup {r}
  PROVE  /\ r.command = {} => Orders' = Orders
         /\ \A m : r.command = {m} => Orders' = Orders \cup {OrderOf(r, m)}
BY DEF Orders, OrderOf

(* The vehicle executes a command whose key is unspent, and in time.        *)
LEMMA CommandTakesEffect ==
  ASSUME CInv, NEW r \in net, NEW m \in r.command, ReceiveCommand(r, m)
  PROVE  UNCHANGED <<now, Orders, executed>> \/ \E o \in Orders : Timely!TakeEffect(o)
<1> DEFINE a == Answer(v, m, clock, clock, TRUE)
           o == OrderOf(r, m)
<1>1. /\ UNCHANGED <<now, Orders>>
      /\ executed' = IF a.result = Accepted THEN [executed EXCEPT ![r.uuid] = @ + 1] ELSE executed
  BY DEF ReceiveCommand, clientVars, Orders, now
<1>2. o \in Orders /\ o.number = r.uuid /\ o.key = <<m.tagEpoch, m.counter>> /\ o.at = r.issued
  BY OrdersAre DEF OrderOf
<1>3. CASE a.result = Accepted
  <2>1. now - o.at <= Lifetime + 1
    BY <1>2, <1>3, ExecutionInTime
  <2>2. m.tagEpoch \in Nat /\ m.counter \in Counters /\ m.counter \in Nat
    BY LimitsAssumption, ChannelFields
       DEF CInv, ChannelTypes, RequestTypes, CommandType, Counters
  <2>3. m.counter > 0 => o.key \notin Spent
    <3>1. Acceptance(a, v, m, Spent, clock, clock)
      BY <1>3, AnswerToCommand
    <3> QED BY <1>2, <3>1 DEF Acceptance
  <2>4. ASSUME o.key \notin Nat \X {0}, NEW p \in Orders, p.key = o.key
        PROVE  executed[p.number] = 0
    <3>1. PICK q \in net : \E n \in q.command : p = OrderOf(q, n)
      BY OrdersAre
    <3>2. PICK n \in q.command : p = OrderOf(q, n)
      BY <3>1
    <3>3. p.number = q.uuid /\ o.key = <<n.tagEpoch, n.counter>>
      BY <2>4, <3>2 DEF OrderOf
    <3>4. m.counter # 0 /\ o.key \in Nat \X Counters /\ o.key[2] # 0
      BY <1>2, <2>2, <2>4
    <3> QED BY <2>2, <2>3, <3>3, <3>4 DEF Spent
  <2> HIDE DEF o
  <2>5. Timely!TakeEffect(o)
    BY <1>1, <1>2, <1>3, <2>1, <2>4 DEF Timely!TakeEffect, Timely!Unspent
  <2> QED BY <1>2, <2>5
<1>4. CASE a.result # Accepted
  BY <1>1, <1>4
<1> QED BY <1>3, <1>4

LEMMA CommandIsGiven ==
  ASSUME CInv, NEW method \in Methods, SendCommand(method)
  PROVE  UNCHANGED <<now, Orders, executed>> \/ Timely!Give
<1> DEFINE m == CommandFrom(s)
           r == [uuid |-> sent + 1, command |-> {m}, issued |-> now]
           o == OrderOf(r, m)
<1>1. UNCHANGED <<now, executed>>
  BY DEF SendCommand, vehicleVars, now
<1>2. CASE S!CanSign(s, Lifetime, now)
  <2>1. sent < MaxRequests /\ net' = net \cup {r} /\ r.command = {m}
    BY <1>2 DEF SendCommand, Post
  <2>2. o.number = sent + 1 /\ o.at = now
    BY DEF OrderOf
  <2> HIDE DEF r, m
  <2>3. Orders' = Orders \cup {o}
    BY <2>1, OrdersGrow
  <2>4. sent \in Nat /\ \A q \in net : q.uuid \in Nat /\ q.uuid <= sent
    BY DEF CInv, ChannelTypes, StateTypes, RequestTypes, Numbered, Uuids
  <2> HIDE DEF o
  <2>5. o.number \in Uuids
    BY <2>1, <2>2, <2>4, ChannelAssumption DEF Uuids
  <2>6. \A p \in Orders : p.number # o.number
    <3>1. \A p \in Orders : \E q \in net : p.number = q.uuid
      BY OrdersAre DEF OrderOf
    <3> QED BY <2>2, <2>4, <3>1
  <2> QED BY <1>1, <2>2, <2>3, <2>5, <2>6 DEF Timely!Give
<1>3. CASE ~S!CanSign(s, Lifetime, now)
  BY <1>1, <1>3 DEF SendCommand, Orders
<1> QED BY <1>2, <1>3

(***************************************************************************)
(* Over loss, duplication, reordering, reboots, restarts and sleep, and    *)
(* for every lifetime, latency, window and range of counters: what the     *)
(* vehicle executes was signed by the client, is executed once, unless     *)
(* another command has its epoch and counter, and in time.                 *)
(***************************************************************************)
THEOREM ChannelRefinement == ChannelSpec => ImplementsTimelyExecution
<1>1. ChannelInit => Timely!Init
  BY DEF ChannelInit, Timely!Init, Orders, now
<1>2. CInv /\ [ChannelNext]_channelVars => [Timely!Next]_<<now, Orders, executed>>
  <2> SUFFICES ASSUME CInv, [ChannelNext]_channelVars
               PROVE  [Timely!Next]_<<now, Orders, executed>>
    OBVIOUS
  <2>1. CASE SendHello
    <3>1. UNCHANGED <<now, executed>>
      BY <2>1 DEF SendHello, vehicleVars, now
    <3> DEFINE r == [uuid |-> sent + 1, command |-> {}, issued |-> now]
    <3>2. net' = net \cup {r} /\ r.command = {}
      BY <2>1 DEF SendHello, Post
    <3> HIDE DEF r
    <3>3. Orders' = Orders
      BY <3>2, OrdersGrow
    <3> QED BY <3>1, <3>3
  <2>2. ASSUME NEW method \in Methods, SendCommand(method)
        PROVE  [Timely!Next]_<<now, Orders, executed>>
    BY <2>2, CommandIsGiven DEF Timely!Next
  <2>3. CASE \/ \E reply \in replies : Learn(reply)
             \/ Save \/ Restart \/ Reboot \/ UNCHANGED channelVars
             \/ \E r \in net : ReceiveHello(r)
    BY <2>3 DEF Learn, Save, Restart, Reboot, ReceiveHello, channelVars, clientVars, vehicleVars,
                now, Orders
  <2>4. ASSUME NEW r \in net, NEW m \in r.command, ReceiveCommand(r, m)
        PROVE  [Timely!Next]_<<now, Orders, executed>>
    BY <2>4, CommandTakesEffect DEF Timely!Next
  <2>5. ASSUME NEW awake \in {0, 1}, PassTime(awake)
        PROVE  [Timely!Next]_<<now, Orders, executed>>
    BY <2>5 DEF PassTime, clientVars, vehicleVars, now, Orders, Timely!Next, Timely!Pass
  <2> QED BY <2>1, <2>2, <2>3, <2>4, <2>5 DEF ChannelNext
<1> QED BY <1>1, <1>2, ChannelInvariance, PTL
        DEF ChannelSpec, ImplementsTimelyExecution, Timely!Spec
-----------------------------------------------------------------------------
(***************************************************************************)
(* What a client that has taken in the present epoch and counter signs, the *)
(* Verifier accepts.                                                       *)
(***************************************************************************)
LEMMA Teaches ==
  ASSUME MaxLatency < Lifetime, CInv, ~wrapped, ~restarted \/ clock.mono = clock.real,
         AdjustClock(v, clock, TRUE).ver.epoch = v.epoch,
         NEW reply \in replies, Learnable(reply),
         reply.info.epoch = v.epoch, reply.info.counter = v.counter
  PROVE  InStep(Resynchronised(reply.info))
<1> USE LimitsAssumption, ChannelAssumption
<1> DEFINE adj == AdjustClock(v, clock, TRUE)
           sg == Resynchronised(reply.info)
           m == CommandFrom(sg)
           x == now + Lifetime - sg.timeZero
<1>0. /\ v.counter \in Nat /\ v.zeroWall \in Int /\ v.zeroMono \in Int
      /\ clock \in Instants /\ clock.mono \in Int /\ clock.real \in Int
      /\ s \in Signers /\ s.counter \in Nat /\ s.setTime \in Nat
      /\ reply.info \in Infos /\ reply.info.clockTime \in Nat /\ reply.info.counter \in Nat
  BY ChannelFields, InfoFields DEF CInv, ChannelTypes, StateTypes, ReplyTypes
<1>1. Guarantee(adj, v, Spent, clock) /\ ~adj.err
  BY <1>0, SpentKeys, AdjustSound DEF CInv, Executions
<1>2. adj.ver.epoch = v.epoch
  OBVIOUS
<1> HIDE DEF adj
<1>3. /\ adj.ver \in Verifiers /\ adj.ver.counter \in Nat /\ adj.ver.window \in SUBSET Bits
      /\ adj.ver.zeroMono \in Int
      /\ adj.ver.counter >= v.counter /\ adj.ver.counter \in {0, v.counter}
      /\ adj.ver.zeroWall = v.zeroWall /\ adj.ver.zeroMono <= v.zeroMono
      /\ adj.ver.zeroMono = v.zeroMono \/ v.zeroWall - adj.ver.zeroMono = Skew(clock)
      /\ Current(adj.ver, clock)
  BY <1>1, <1>2, VerifierFields DEF Guarantee, Sound, Ages
<1>4. adj.ver.counter = v.counter
  BY <1>0, <1>3
<1>5. /\ clock.wall = clock.real
      /\ v.zeroMono <= clock.mono /\ v.zeroWall - v.zeroMono <= clock.real - clock.mono
  BY DEF CInv, ClocksAgree
<1> DEFINE age == Timestamp(adj.ver, clock)
<1>6. /\ age \in Nat /\ age <= EpochLength
      /\ age <= clock.real - v.zeroWall /\ clock.real - v.zeroWall <= age + 1
  <2>1. age = clock.mono - adj.ver.zeroMono /\ age <= EpochLength
        /\ clock.real - v.zeroWall <= age + 1
    BY <1>3, <1>5 DEF Current, Timestamp
  <2>2. clock.mono - adj.ver.zeroMono <= clock.real - v.zeroWall
    BY <1>0, <1>3, <1>5 DEF Skew
  <2> QED BY <2>1, <2>2, <1>0, <1>3, <1>5
<1> HIDE DEF age
<1>7. /\ sg \in Signers /\ sg.epoch = v.epoch
      /\ \/ sg.timeZero = now - reply.info.clockTime /\ sg.counter >= v.counter
         \/ sg = s /\ reply.info.clockTime < s.setTime
  BY <1>0, Resynchronises
<1> HIDE DEF sg
<1>8. sg.counter >= v.counter
  <2>1. ASSUME sg = s, reply.info.clockTime < s.setTime PROVE s.counter >= v.counter
    <3>1. reply.uuid > since
      BY DEF Learnable
    <3>2. s.epoch = v.epoch
      BY <2>1, <1>7
    <3> QED BY <2>1, <3>1, <3>2, <1>0 DEF CInv, Learned
  <2> QED BY <2>1, <1>7
<1>9. Estimate(sg.timeZero)
  <2>1. CASE sg.timeZero = now - reply.info.clockTime
    BY <2>1, LearnableEstimate DEF Estimate
  <2>2. CASE sg = s
    BY <2>2, <1>7 DEF CInv, Estimated
  <2> QED BY <2>1, <2>2, <1>7
<1>10. sg.counter \in Nat /\ sg.timeZero \in Int
  BY <1>7, SignerFields
<1>11. x \in Nat /\ x <= MaxCounter /\ age <= x
  BY <1>0, <1>6, <1>9, <1>10 DEF Estimate, now
<1>12. SUFFICES ASSUME sg.counter < MaxCounter, S!CanSign(sg, Lifetime, now)
                PROVE  Answer(v, m, clock, clock, TRUE).result = Accepted
  BY DEF InStep, sg
<1>13. S!ExpiresAt(sg, Lifetime, now) = x /\ x <= EpochLength
  <2>1. S!Wrap(x) = x
    BY <1>11, Wraps
  <2> QED BY <2>1, <1>12 DEF S!ExpiresAt, S!CanSign
<1>14. S!NextCounter(sg) = sg.counter + 1
  BY <1>10, <1>12, Wraps DEF S!NextCounter
<1>15. /\ m.flaw = "none" /\ m.epoch = v.epoch /\ m.tagEpoch = v.epoch
       /\ m.counter = sg.counter + 1 /\ m.expiresAt = x
  BY <1>7, <1>13, <1>14 DEF CommandFrom
<1> HIDE DEF m, x
<1>16. m.counter \in Nat /\ m.counter > adj.ver.counter /\ m.counter # 0
  BY <1>0, <1>4, <1>8, <1>10, <1>15
<1>17. VerifySessionInfo(adj.ver, m, clock, clock) = Accepted
  <2>1. ~(m.expiresAt < Timestamp(adj.ver, clock)) /\ ~(m.expiresAt > EpochLength)
    BY <1>6, <1>11, <1>13, <1>15 DEF age
  <2>2. ~(m.counter = 0 \/ m.counter < adj.ver.counter)
    BY <1>3, <1>16
  <2>3. m.flaw # "misaddressed" /\ m.epoch \in {NoEpoch, adj.ver.epoch}
    BY <1>2, <1>15
  <2> QED BY <2>1, <2>2, <2>3 DEF VerifySessionInfo
<1>18. TagFault(adj.ver, m) = Accepted
  BY <1>2, <1>15 DEF TagFault
<1>19. UpdateSlidingWindow(adj.ver.counter, adj.ver.window, m.counter).ok
  BY <1>3, <1>16, UpdateGrows
<1> QED BY <1>1, <1>15, <1>16, <1>17, <1>18, <1>19 DEF Answer, PlainFaults, Accepted, adj

(***************************************************************************)
(* A reply with the present epoch and counter teaches the client what it   *)
(* needs, if a command may live longer than a reply may take: by default   *)
(* 5 seconds (session.go:16) against 4 over Bluetooth (ble.go:36).  The    *)
(* Internet connector accepts 10 (inet.go:22), where a slow reply can make *)
(* the next command expire before it is sent.                              *)
(***************************************************************************)
THEOREM RefusalsTeach ==
  ASSUME MaxLatency < Lifetime
  PROVE  ChannelSpec => []RefusalTeaches
<1>1. CInv => RefusalTeaches
  BY Teaches DEF RefusalTeaches, ReplyTeaches
<1> QED BY <1>1, ChannelInvariance, PTL
=============================================================================
