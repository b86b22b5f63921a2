------------------------- MODULE SlidingWindowProofs -------------------------
(***************************************************************************)
(* Theorems about the client's window over response counters.              *)
(***************************************************************************)
EXTENDS SlidingWindow, WindowOpsProofs

(* The fields of a SlidingWindow keep their types and always describe the   *)
(* set of accepted values.                                                  *)
IInv == TypeOK /\ WindowTellsTruth

LEMMA InitIInv == Init => IInv
<1> SUFFICES ASSUME Init PROVE IInv
  OBVIOUS
<1>1. counter \in Counters
  BY MaxCounterIsNat DEF Init, Counters
<1>2. TypeOK
  BY <1>1 DEF Init, TypeOK
<1>3. WindowTellsTruth
  BY DEF Init, WindowTellsTruth
<1> QED BY <1>2, <1>3 DEF IInv

LEMMA StepIInv == IInv /\ [Next]_vars => IInv'
<1> SUFFICES ASSUME IInv, [Next]_vars PROVE IInv'
  OBVIOUS
<1> USE MaxCounterIsNat DEF IInv
<1>1. ASSUME NEW n \in Counters, First(n) PROVE IInv'
  <2>1. seen' = {n} /\ counter' = n /\ history' = {} /\ used' = TRUE
    BY <1>1 DEF First, WindowTellsTruth
  <2>2. Represents(n, {}, {n})
    BY DEF Represents, Counters
  <2>3. TypeOK'
    BY <1>1, <2>1 DEF TypeOK, First, Counters
  <2> QED BY <2>1, <2>2, <2>3 DEF WindowTellsTruth
<1>2. ASSUME NEW n \in Counters, Later(n) PROVE IInv'
  <2> DEFINE r == UpdateSlidingWindow(counter, history, n)
  <2>1. Represents(counter, history, seen) /\ used
    BY <1>2 DEF Later, WindowTellsTruth
  <2>2. counter \in Nat /\ history \in SUBSET Bits /\ seen \in SUBSET Nat /\ n \in Nat
    BY DEF TypeOK, Counters
  <2>3. /\ r.ok \in BOOLEAN
        /\ r.counter \in {counter, n}
        /\ r.window \in SUBSET Bits
        /\ Represents(r.counter, r.window, IF r.ok THEN seen \cup {n} ELSE seen)
    BY <2>1, <2>2, UpdateContract
  <2> HIDE DEF r
  <2>4. /\ used' = used /\ counter' = r.counter /\ history' = r.window
        /\ seen' = IF r.ok THEN seen \cup {n} ELSE seen
        /\ verdict' = <<n, r.ok>>
    BY <1>2 DEF Later, r
  <2>5. TypeOK'
    BY <2>3, <2>4 DEF TypeOK
  <2>6. WindowTellsTruth'
    BY <2>1, <2>3, <2>4 DEF WindowTellsTruth
  <2> QED BY <2>5, <2>6
<1>3. CASE UNCHANGED vars
  BY <1>3 DEF vars, TypeOK, WindowTellsTruth
<1> QED BY <1>1, <1>2, <1>3 DEF Next, Update

THEOREM TypeCorrect == Spec => []TypeOK
<1>1. IInv => TypeOK
  BY DEF IInv
<1> QED BY <1>1, InitIInv, StepIInv, PTL DEF Spec

(* Whatever responses arrive in whatever order, the counter and history of  *)
(* a SlidingWindow say the truth about the values it has accepted.          *)
THEOREM WindowCorrect == Spec => []WindowTellsTruth
<1>1. IInv => WindowTellsTruth
  BY DEF IInv
<1> QED BY <1>1, InitIInv, StepIInv, PTL DEF Spec

(* The window is an exact anti-replay filter of reach windowSize: no        *)
(* response counter is accepted twice, and a new one within reach is never  *)
(* refused.                                                                 *)
THEOREM Refinement == Spec => ImplementsAntiReplay
<1>1. Init => Filter!Init
  BY DEF Init, Filter!Init
<1>2. IInv /\ [Next]_vars => [Filter!Next]_<<seen, verdict>>
  <2> SUFFICES ASSUME IInv, [Next]_vars PROVE [Filter!Next]_<<seen, verdict>>
    OBVIOUS
  <2> USE MaxCounterIsNat DEF IInv
  <2>1. ASSUME NEW n \in Counters, First(n) PROVE Filter!Accept(n)
    BY <2>1 DEF First, WindowTellsTruth, Filter!Accept, Filter!Acceptable
  <2>2. ASSUME NEW n \in Counters, Later(n) PROVE Filter!Accept(n) \/ Filter!Refuse(n)
    <3> DEFINE r == UpdateSlidingWindow(counter, history, n)
    <3>1. Represents(counter, history, seen)
      BY <2>2 DEF Later, WindowTellsTruth
    <3>2. counter \in Nat /\ history \in SUBSET Bits /\ seen \in SUBSET Nat /\ n \in Nat
      BY DEF TypeOK, Counters
    <3>3. r.ok \in BOOLEAN /\ (r.ok <=> Fresh(n, seen))
      BY <3>1, <3>2, UpdateContract
    <3> HIDE DEF r
    <3>4. /\ seen' = IF r.ok THEN seen \cup {n} ELSE seen
          /\ verdict' = <<n, r.ok>>
      BY <2>2 DEF Later, r
    <3>5. Fresh(n, seen) <=> Filter!Acceptable(n)
      BY DEF Fresh, Filter!Acceptable
    <3>6. CASE r.ok
      BY <3>3, <3>4, <3>5, <3>6 DEF Filter!Accept
    <3>7. CASE ~r.ok
      BY <3>3, <3>4, <3>5, <3>7 DEF Filter!Refuse
    <3> QED BY <3>6, <3>7
  <2>3. CASE UNCHANGED vars
    BY <2>3 DEF vars
  <2> QED BY <2>1, <2>2, <2>3 DEF Next, Update, Filter!Next
<1> QED BY <1>1, <1>2, InitIInv, StepIInv, PTL DEF Spec, ImplementsAntiReplay, Filter!Spec
=============================================================================
