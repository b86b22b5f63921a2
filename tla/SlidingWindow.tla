---------------------------- MODULE SlidingWindow ----------------------------
(***************************************************************************)
(* The SlidingWindow type of internal/authentication/window.go: the filter *)
(* a dispatcher keeps for each pending request over the counters of the    *)
(* encrypted responses (dispatcher.go decrypt).  Responses may be lost,    *)
(* duplicated or reordered, so any counter may be submitted at any time.   *)
(***************************************************************************)
EXTENDS WindowOps

CONSTANT MaxCounter   \* largest counter value (2^32 - 1 for uint32)

ASSUME MaxCounterIsNat == MaxCounter \in Nat

Counters == 0 .. MaxCounter

VARIABLES
  used,      \* SlidingWindow.used
  counter,   \* SlidingWindow.counter
  history,   \* SlidingWindow.history
  seen,      \* history variable: the values Update has accepted
  verdict    \* history variable: the last value submitted and the answer

vars == <<used, counter, history, seen, verdict>>

TypeOK ==
  /\ used \in BOOLEAN
  /\ counter \in Counters
  /\ history \subseteq Bits
  /\ seen \subseteq Counters
  /\ verdict \in {<<>>} \cup (Counters \X BOOLEAN)

Init ==
  /\ used = FALSE
  /\ counter = 0
  /\ history = {}
  /\ seen = {}
  /\ verdict = <<>>

\* Mutated form of First: the counter of the first response is not kept.
FirstForgetsCounter(n) ==
  /\ ~used
  /\ used' = TRUE
  /\ seen' = seen \cup {n}
  /\ verdict' = <<n, TRUE>>
  /\ UNCHANGED <<counter, history>>

\* Update on a window that has accepted nothing yet.
First(n) ==
  /\ ~used
  /\ used' = TRUE
  /\ counter' = n
  /\ seen' = seen \cup {n}
  /\ verdict' = <<n, TRUE>>
  /\ UNCHANGED history

\* Update on a window in use.
Later(n) ==
  LET r == UpdateSlidingWindow(counter, history, n) IN
  /\ used
  /\ counter' = r.counter
  /\ history' = r.window
  /\ seen' = IF r.ok THEN seen \cup {n} ELSE seen
  /\ verdict' = <<n, r.ok>>
  /\ UNCHANGED used

Update(n) == First(n) \/ Later(n)

Next == \E n \in Counters : Update(n)

Spec == Init /\ [][Next]_vars

-----------------------------------------------------------------------------
(***************************************************************************)
(* The fields always describe the set of accepted values: what the window  *)
(* says about a recent counter is true in both directions, over any        *)
(* sequence of in-order, out-of-order and far-ahead responses.             *)
(***************************************************************************)
WindowTellsTruth ==
  IF used
    THEN Represents(counter, history, seen)
    ELSE counter = 0 /\ history = {} /\ seen = {}

(***************************************************************************)
(* The type implements the anti-replay filter: a response counter is       *)
(* accepted exactly when it is new and at most windowSize behind the       *)
(* largest accepted one (decrypt drops every response Update refuses).     *)
(***************************************************************************)
Filter == INSTANCE AntiReplay WITH Reach <- WindowSize
ImplementsAntiReplay == Filter!Spec
=============================================================================
