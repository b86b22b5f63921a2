--------------------------- MODULE TimelyExecution ---------------------------
(***************************************************************************)
(* What a session promises of the commands signed under it, with no        *)
(* network, window, epoch or expiry time in sight: what takes effect was   *)
(* ordered, at most once, unless another order signed with the same key    *)
(* took effect, and no later than Grace after it was ordered.              *)
(***************************************************************************)
EXTENDS Integers

CONSTANTS
  Numbers,  \* what tells orders apart
  Weak,     \* the keys that do not count: what they sign may take effect again
  Grace     \* how long an order may take

VARIABLES
  time,
  orders,   \* the orders given: [number, key, at]
  times     \* how often each has taken effect

Init ==
  /\ time = 0
  /\ orders = {}
  /\ times = [n \in Numbers |-> 0]

\* A new order with a number of its own and any key.
Give ==
  \E o \in orders' :
    /\ o.number \in Numbers /\ o.at = time
    /\ \A p \in orders : p.number # o.number
    /\ orders' = orders \cup {o}
    /\ UNCHANGED <<time, times>>

Unspent(k) == \A o \in orders : o.key = k => times[o.number] = 0

TakeEffect(o) ==
  /\ o.key \notin Weak => Unspent(o.key)
  /\ time - o.at <= Grace
  /\ times' = [times EXCEPT ![o.number] = @ + 1]
  /\ UNCHANGED <<time, orders>>

Pass ==
  /\ time' = time + 1
  /\ UNCHANGED <<orders, times>>

Next == Give \/ Pass \/ \E o \in orders : TakeEffect(o)

Spec == Init /\ [][Next]_<<time, orders, times>>
=============================================================================
