--------------------------- MODULE WindowOpsProofs ---------------------------
(***************************************************************************)
(* The contract of the window operator, for every window size and every    *)
(* word that holds it.                                                     *)
(***************************************************************************)
EXTENDS WindowOps, TLAPS

(***************************************************************************)
(* The operator's contract: applied to a counter and window that describe  *)
(* a set of used values, updateSlidingWindow accepts exactly the values    *)
(* that are fresh for that set, and returns a counter and window that      *)
(* describe the set with the accepted value added (window.go:3-8).         *)
(***************************************************************************)
LEMMA UpdateContract ==
  ASSUME NEW c \in Nat, NEW w \in SUBSET Bits, NEW U \in SUBSET Nat,
         NEW n \in Nat, Represents(c, w, U)
  PROVE  LET r == UpdateSlidingWindow(c, w, n) IN
         /\ r.ok \in BOOLEAN
         /\ r.counter \in {c, n}
         /\ r.window \in SUBSET Bits
         /\ r.ok <=> Fresh(n, U)
         /\ Represents(r.counter, r.window, IF r.ok THEN U \cup {n} ELSE U)
<1> DEFINE r == UpdateSlidingWindow(c, w, n)
<1> USE WindowFitsWord
<1>1. CASE n = c
  <2>1. r = [counter |-> c, window |-> w, ok |-> FALSE]
    BY <1>1 DEF UpdateSlidingWindow, Reject
  <2>2. ~Fresh(n, U)
    BY <1>1 DEF Fresh, Represents
  <2> QED BY <2>1, <2>2
<1>2. CASE n < c /\ (c - n > WindowSize \/ c - n - 1 \in w)
  <2>1. r = [counter |-> c, window |-> w, ok |-> FALSE]
    BY <1>2 DEF UpdateSlidingWindow, Reject
  <2>2. ~Fresh(n, U)
    BY <1>2 DEF Fresh, Represents
  <2> QED BY <2>1, <2>2
<1>3. CASE n < c /\ c - n <= WindowSize /\ c - n - 1 \notin w
  <2>1. r = [counter |-> c, window |-> w \cup {c - n - 1}, ok |-> TRUE]
    BY <1>3 DEF UpdateSlidingWindow
  <2>2. w \cup {c - n - 1} \in SUBSET Bits
    BY <1>3 DEF Bits
  <2>3. Fresh(n, U)
    <3>1. n \notin U
      BY <1>3 DEF Represents
    <3>2. \A m \in U : m - n <= WindowSize
      BY <1>3 DEF Represents
    <3> QED BY <3>1, <3>2 DEF Fresh
  <2>4. Represents(c, w \cup {c - n - 1}, U \cup {n})
    <3>1. ASSUME NEW k \in 0 .. (c - 1), c - k <= WindowSize
          PROVE  k \in U \cup {n} <=> c - k - 1 \in w \cup {c - n - 1}
      BY <3>1, <1>3 DEF Represents
    <3> QED BY <3>1, <1>3 DEF Represents
  <2> QED BY <2>1, <2>2, <2>3, <2>4
<1>4. CASE n > c
  <2> DEFINE w2 == ShiftLeft(w, n - c) \cup ({n - c - 1} \cap Bits)
  <2>1. r = [counter |-> n, window |-> w2, ok |-> TRUE]
    BY <1>4 DEF UpdateSlidingWindow
  <2>2. w2 \in SUBSET Bits
    BY DEF ShiftLeft
  <2>3. Fresh(n, U)
    BY <1>4 DEF Fresh, Represents
  <2>4. Represents(n, w2, U \cup {n})
    <3>1. ASSUME NEW k \in 0 .. (n - 1), n - k <= WindowSize
          PROVE  k \in U \cup {n} <=> n - k - 1 \in w2
      <4>1. n - k - 1 \in Bits
        BY <3>1 DEF Bits
      <4>2. CASE k < c
        <5>1. k \in U <=> c - k - 1 \in w
          BY <4>2, <3>1, <1>4 DEF Represents
        <5>2. (n - k - 1) - (n - c) = c - k - 1 /\ n - k - 1 # n - c - 1
          BY <4>2, <3>1, <1>4
        <5> QED BY <5>1, <5>2, <4>1, <4>2, <3>1, <1>4 DEF ShiftLeft
      <4>3. CASE k = c
        <5>1. k \in U
          BY <4>3 DEF Represents
        <5> QED BY <5>1, <4>1, <4>3
      <4>4. CASE k > c
        <5>1. k \notin U /\ k # n
          BY <4>4, <3>1, <1>4 DEF Represents
        <5>2. n - k - 1 # n - c - 1 /\ (n - k - 1) - (n - c) < 0
          BY <4>4, <3>1, <1>4
        <5> QED BY <5>1, <5>2, <4>1 DEF ShiftLeft, Bits
      <4> QED BY <4>2, <4>3, <4>4, <3>1
    <3>2. \A m \in U \cup {n} : m <= n
      BY <1>4 DEF Represents
    <3> QED BY <3>1, <3>2 DEF Represents
  <2> QED BY <2>1, <2>2, <2>3, <2>4
<1> QED BY <1>1, <1>2, <1>3, <1>4

=============================================================================
