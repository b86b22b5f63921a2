----------------------------- MODULE CommandCall -----------------------------
(***************************************************************************)
(* What the caller of one command is promised (pkg/protocol/error.go),     *)
(* with no attempt, transmission, reply or timeout in sight: it is told    *)
(* once that the command succeeded, that it failed, or that it may have    *)
(* succeeded.  Success is only claimed of a command that the vehicle has   *)
(* executed, and failure only of one that it has not executed and will     *)
(* not, as long as no exchange with the vehicle was wrongly taken for      *)
(* harmless; each of those allows one more execution.                      *)
(***************************************************************************)
EXTENDS Naturals

VARIABLES
  result,  \* what the caller is told: "pending" until the call returns
  runs,    \* how often the vehicle has executed the command
  risked   \* how many exchanges were wrongly taken for harmless

Init == result = "pending" /\ runs = 0 /\ risked = 0

\* The vehicle may be late: it may still execute a command whose call has returned.
Execute ==
  /\ runs <= risked
  /\ result = "failed" => risked > 0
  /\ runs' = runs + 1
  /\ UNCHANGED <<result, risked>>

Misjudge ==
  /\ result = "pending"
  /\ risked' = risked + 1
  /\ UNCHANGED <<result, runs>>

Succeed ==
  /\ result = "pending" /\ result' = "ok"
  /\ runs > 0
  /\ UNCHANGED <<runs, risked>>

\* The exchange that ends the call may be the first that is misjudged.
Deny ==
  /\ result = "pending" /\ result' = "failed"
  /\ risked' \in {risked, risked + 1}
  /\ runs > 0 => risked' > 0
  /\ UNCHANGED runs

Admit ==
  /\ result = "pending" /\ result' = "maybe"
  /\ UNCHANGED <<runs, risked>>

Next == Execute \/ Misjudge \/ Succeed \/ Deny \/ Admit

Spec == Init /\ [][Next]_<<result, runs, risked>>
=============================================================================
