------------------------------ MODULE AntiReplay -----------------------------
(***************************************************************************)
(* What an anti-replay filter promises, with no word, shift or bit in      *)
(* sight: a counter value is accepted exactly when it was never accepted   *)
(* before and does not lag the largest accepted value by more than Reach.  *)
(***************************************************************************)
EXTENDS Integers

CONSTANTS Counters, Reach

VARIABLES
  seen,    \* the counter values accepted so far
  verdict  \* <<n, ok>>: the last value submitted and the answer; <<>> at first

Acceptable(n) ==
  /\ n \notin seen
  /\ \A m \in seen : m - n <= Reach

Init ==
  /\ seen = {}
  /\ verdict = <<>>

Accept(n) ==
  /\ Acceptable(n)
  /\ seen' = seen \cup {n}
  /\ verdict' = <<n, TRUE>>

Refuse(n) ==
  /\ ~Acceptable(n)
  /\ verdict' = <<n, FALSE>>
  /\ UNCHANGED seen

Next == \E n \in Counters : Accept(n) \/ Refuse(n)

Spec == Init /\ [][Next]_<<seen, verdict>>
=============================================================================
