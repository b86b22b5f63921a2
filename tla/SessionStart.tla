---------------------------- MODULE SessionStart -----------------------------
(***************************************************************************)
(* What a call that starts sessions with a vehicle's domains promises,     *)
(* with no goroutine, request, reply or channel in sight: the answer is    *)
(* given once; it is "nil" only when every session is ready or the caller  *)
(* canceled, "canceled" and "expired" only when that is how the caller's   *)
(* context ended, and otherwise the error of a domain that failed, which   *)
(* neither "nil" nor "canceled" hides.  Sessions become ready one by one,  *)
(* before the answer or after it, and stay so.                             *)
(***************************************************************************)
CONSTANTS Domains, Errors

VARIABLES
  context,  \* "live", "canceled" or "expired"
  ready,    \* the domains whose session is ready
  failed,   \* the domains that failed, each with its error
  told      \* the answer: "pending" until the call returns

\* Earlier calls may have made sessions ready.
Init ==
  /\ context = "live"
  /\ ready \in SUBSET Domains /\ failed = {}
  /\ told = "pending"

Prepare(d) ==
  /\ ready' = ready \cup {d}
  /\ UNCHANGED <<context, failed, told>>

Break(d, e) ==
  /\ \A f \in failed : f[1] # d
  /\ failed' = failed \cup {<<d, e>>}
  /\ UNCHANGED <<context, ready, told>>

EndContext(how) ==
  /\ context = "live" /\ context' = how
  /\ UNCHANGED <<ready, failed, told>>

Give(a) ==
  /\ told = "pending" /\ told' = a
  /\ UNCHANGED <<context, ready, failed>>

Succeed ==
  /\ failed = {}
  /\ ready = Domains \/ context = "canceled"
  /\ Give("nil")

GiveUp ==
  /\ context # "live"
  /\ context = "canceled" => failed = {}
  /\ Give(context)

Fail == \E f \in failed : Give(f[2])

Next ==
  \/ \E d \in Domains : Prepare(d) \/ \E e \in Errors : Break(d, e)
  \/ \E how \in {"canceled", "expired"} : EndContext(how)
  \/ Succeed \/ GiveUp \/ Fail

Spec == Init /\ [][Next]_<<context, ready, failed, told>>
=============================================================================
