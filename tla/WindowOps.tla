------------------------------ MODULE WindowOps ------------------------------
(***************************************************************************)
(* The anti-replay window of internal/authentication/window.go as a pure   *)
(* operator.  The Go code keeps the window in a uint64 of which the        *)
(* acceptance test reads only the low windowSize bits; here the word is    *)
(* the set of the positions of its set bits.  Bit b of the word stands for *)
(* the counter value  counter - (b + 1).                                   *)
(*                                                                         *)
(* The module declares no variable: SlidingWindow (the client's window     *)
(* over response counters) and Verifier (the vehicle's window over command *)
(* counters) both use it.                                                  *)
(***************************************************************************)
EXTENDS Integers

CONSTANTS
  WindowSize,   \* windowSize: how far back the acceptance test looks
  WordSize      \* bits in the word that holds the window (64 for uint64)

\* "Verifier.windowSize is uint64, so must be <= 64" (crypto.go:21).
ASSUME WindowFitsWord ==
  /\ WindowSize \in Nat
  /\ WordSize \in Nat
  /\ WindowSize <= WordSize

Bits == 0 .. (WordSize - 1)

\* word << n on an unsigned word: bits that leave the word are lost.
ShiftLeft(word, n) == {b \in Bits : b - n \in word}

Reject(counter, window) ==
  [counter |-> counter, window |-> window, ok |-> FALSE]

(***************************************************************************)
(* Mutated forms of UpdateSlidingWindow: the shift forgets the previous    *)
(* counter; the bit of an out-of-order counter is not recorded; the oldest *)
(* position of the window is refused.                                      *)
(***************************************************************************)
ForgetsPreviousCounter(counter, window, newCounter) ==
  IF newCounter <= counter
    THEN Reject(counter, window)
    ELSE [counter |-> newCounter,
          window  |-> ShiftLeft(window, newCounter - counter),
          ok      |-> TRUE]

DropsOutOfOrderBit(counter, window, newCounter) ==
  LET age   == counter - newCounter
      shift == newCounter - counter
  IN CASE newCounter = counter -> Reject(counter, window)
       [] newCounter < counter ->
            IF age > WindowSize \/ age - 1 \in window
              THEN Reject(counter, window)
              ELSE [counter |-> counter, window |-> window, ok |-> TRUE]
       [] newCounter > counter ->
            [counter |-> newCounter,
             window  |-> ShiftLeft(window, shift) \cup ({shift - 1} \cap Bits),
             ok      |-> TRUE]

AgeTestOffByOne(counter, window, newCounter) ==
  LET age   == counter - newCounter
      shift == newCounter - counter
  IN CASE newCounter = counter -> Reject(counter, window)
       [] newCounter < counter ->
            IF age >= WindowSize \/ age - 1 \in window
              THEN Reject(counter, window)
              ELSE [counter |-> counter, window |-> window \cup {age - 1}, ok |-> TRUE]
       [] newCounter > counter ->
            [counter |-> newCounter,
             window  |-> ShiftLeft(window, shift) \cup ({shift - 1} \cap Bits),
             ok      |-> TRUE]

(***************************************************************************)
(* updateSlidingWindow: the updated counter and window, and whether        *)
(* newCounter is known never to have been used.                            *)
(***************************************************************************)
UpdateSlidingWindow(counter, window, newCounter) ==
  LET age   == counter - newCounter
      shift == newCounter - counter
  IN CASE newCounter = counter -> Reject(counter, window)
       [] newCounter < counter ->
            IF age > WindowSize \/ age - 1 \in window
              THEN Reject(counter, window)
              ELSE [counter |-> counter, window |-> window \cup {age - 1}, ok |-> TRUE]
       [] newCounter > counter ->
            [counter |-> newCounter,
             window  |-> ShiftLeft(window, shift) \cup ({shift - 1} \cap Bits),
             ok      |-> TRUE]

-----------------------------------------------------------------------------
(***************************************************************************)
(* What the pair (counter, window) must mean: counter is the largest value *)
(* of used, and among the values less than windowSize + 1 behind it        *)
(* exactly those of used have their bit set.  Bits that stand for older    *)
(* (or negative) values may hold anything.                                 *)
(***************************************************************************)
Represents(counter, window, used) ==
  /\ counter \in used
  /\ \A n \in used : n <= counter
  /\ \A n \in 0 .. (counter - 1) :
       counter - n <= WindowSize => (n \in used <=> counter - n - 1 \in window)

\* A value the window can vouch for: unused, and within reach of the largest.
Fresh(n, used) ==
  /\ n \notin used
  /\ \A m \in used : m - n <= WindowSize
=============================================================================
