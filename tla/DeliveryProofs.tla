---------------------------- MODULE DeliveryProofs ----------------------------
(***************************************************************************)
(* Theorems about a command's way to the vehicle and back: what its caller *)
(* is told, for any number of attempts, of transmissions and of repeated   *)
(* replies, any size of the handlers' queues, and any losses and delays;   *)
(* that the call keeps the promise of CommandCall; what size of the queues *)
(* loses no reply; and the messages that arrive over Bluetooth, for any    *)
(* fragments, losses, delays and sizes.                                    *)
(***************************************************************************)
EXTENDS Delivery, Ble, FiniteSetTheorems, SequenceTheorems, TLAPS

Texts == {"done", "mtu exceeded", "status", "empty", "whitelisted", "answer",
          "nominal", "busy", "error", "bare", "wait", "denied", "replayed"}
Requests == [attempt : Nat, tx : Nat]
Replies == [attempt : Nat, tx : Nat, seq : Nat, what : Texts]
Stages == {"sign", "transmit", "exchange", "pause", "await", "backoff", "done"}

TypeOK ==
  /\ job \in Jobs /\ over \in BOOLEAN /\ pc \in Stages
  /\ attempt \in Nat /\ tx \in Nat
  /\ wire \subseteq Requests /\ executed \subseteq Requests
  /\ http \subseteq Replies /\ inbox \in Seq(Replies) /\ queue \in Seq(Replies)
  /\ result \in {"pending", "ok", "maybe", "failed"}
  /\ result = "pending" <=> pc # "done"
  /\ misjudged \subseteq Nat /\ IsFiniteSet(misjudged)

Members(s) == {s[i] : i \in DOMAIN s}
Underway == http \cup Members(inbox) \cup Members(queue)
Known == wire \cup executed
RequestOf(r) == [attempt |-> r.attempt, tx |-> r.tx]

(***************************************************************************)
(* A transmission is a request of one attempt, reaches the vehicle at most *)
(* once, and is the current attempt's while that waits for it.             *)
(***************************************************************************)
TransmissionsDiffer ==
  /\ wire \cap executed = {}
  /\ \A c \in Known : c.attempt <= attempt /\ c.tx <= tx
  /\ \A c, d \in Known : c.tx = d.tx => c = d
  /\ \A c \in Known : pc \in {"exchange", "await"} /\ c.tx = tx => c.attempt = attempt

\* Replies say what happened to the request they answer, which has left the network.
RepliesTrue ==
  \A r \in Underway :
    /\ r.attempt <= attempt /\ r.tx <= tx
    /\ RequestOf(r) \notin wire
    /\ ClassOf(job.kind, r.what) = "ok" => RequestOf(r) \in executed
    /\ ClassOf(job.kind, r.what) \in {"retry", "final"} => RequestOf(r) \notin executed

(***************************************************************************)
(* The listener has replies to the current attempt only when that no       *)
(* longer transmits, and they answer its last transmission.                *)
(***************************************************************************)
RepliesCurrent ==
  /\ \A r \in Members(inbox) \cup Members(queue) :
       r.attempt = attempt => r.tx = tx /\ pc \notin {"transmit", "exchange", "pause"}
  /\ \A r \in Members(queue) : r.attempt = attempt
  /\ job.link = "ble" =>
       /\ pc \notin {"exchange", "pause"}
       /\ \A c \in wire : c.attempt = attempt => c.tx = tx /\ pc # "transmit"

(***************************************************************************)
(* Whatever the vehicle has executed or may yet execute was misjudged, is  *)
(* being waited for, or is why the caller is not told that it failed.      *)
(***************************************************************************)
Accounted ==
  \A c \in Known :
    \/ c.tx \in misjudged
    \/ c.tx = tx /\ (pc \in {"exchange", "await"} \/ result \in {"ok", "maybe"})

IInv ==
  TypeOK /\ TransmissionsDiffer /\ RepliesTrue /\ RepliesCurrent /\ Accounted /\ SuccessMeansExecuted
-----------------------------------------------------------------------------
(* Answers and sequences.                                                   *)

LEMMA Single ==
  ASSUME NEW S, NEW a \in S
  PROVE  /\ <<a>> \in Seq(S) /\ Len(<<a>>) \in DOMAIN <<a>>
         /\ \A i \in DOMAIN <<a>> : <<a>>[i] = a
OBVIOUS

LEMMA Pair ==
  ASSUME NEW S, NEW a \in S, NEW b \in S
  PROVE  /\ <<a, b>> \in Seq(S) /\ Len(<<a, b>>) \in DOMAIN <<a, b>>
         /\ \A i \in DOMAIN <<a, b>> : <<a, b>>[i] \in {a, b}
OBVIOUS

LEMMA Triple ==
  ASSUME NEW S, NEW a \in S, NEW b \in S, NEW c \in S
  PROVE  /\ <<a, b, c>> \in Seq(S) /\ Len(<<a, b, c>>) \in DOMAIN <<a, b, c>>
         /\ \A i \in DOMAIN <<a, b, c>> : <<a, b, c>>[i] \in {a, b, c}
OBVIOUS

LEMMA ConfirmationClasses ==
  ASSUME NEW kind \in {"infotainment", "rke", "whitelist", "info"},
         NEW whats \in Confirmations(kind)
  PROVE  /\ whats \in Seq(Texts) /\ Len(whats) \in DOMAIN whats
         /\ \A i \in DOMAIN whats : ClassOf(kind, whats[i]) \in {"ok", "maybe", "more"}
<1>1. CASE kind = "infotainment"
  <2>1. whats = <<"done">> \/ whats = <<"mtu exceeded">>
    BY <1>1 DEF Confirmations
  <2>2. ClassOf(kind, "done") = "ok"
    BY DEF ClassOf
  <2>3. ClassOf(kind, "mtu exceeded") = "maybe"
    BY DEF ClassOf
  <2>4. CASE whats = <<"done">>
    BY <2>4, <2>2, Single, Pair DEF Texts
  <2>5. CASE whats = <<"mtu exceeded">>
    BY <2>5, <2>3, Single, "mtu exceeded" \in Texts DEF Texts
  <2> QED BY <2>1, <2>4, <2>5
<1>2. CASE kind = "rke"
  <2>1. whats = <<"status", "status", "empty">> \/ whats = <<"status", "empty">>
        \/ whats = <<"empty">>
    BY <1>2 DEF Confirmations
  <2>2. ClassOf(kind, "status") = "more" /\ ClassOf(kind, "empty") = "ok"
    BY <1>2 DEF ClassOf, OfEmpty
  <2>4. CASE whats = <<"status", "empty">>
    BY <2>4, <2>2, Single, Pair DEF Texts
  <2>5. CASE whats = <<"empty">>
    BY <2>5, <2>2, Single, Pair DEF Texts
  <2>6. CASE whats = <<"status", "status", "empty">>
    BY <2>6, <2>2, Triple DEF Texts
  <2> QED BY <2>1, <2>4, <2>5, <2>6
<1>3. CASE kind = "whitelist"
  <2>1. whats = <<"status", "empty", "whitelisted">> \/ whats = <<"empty", "whitelisted">>
    BY <1>3 DEF Confirmations
  <2>2. /\ ClassOf(kind, "empty") = "more" /\ ClassOf(kind, "whitelisted") = "ok"
        /\ ClassOf(kind, "status") = "more"
    BY <1>3 DEF ClassOf, OfEmpty
  <2>4. CASE whats = <<"empty", "whitelisted">>
    BY <2>4, <2>2, Single, Pair DEF Texts
  <2>5. CASE whats = <<"status", "empty", "whitelisted">>
    BY <2>5, <2>2, Triple DEF Texts
  <2> QED BY <2>1, <2>4, <2>5
<1>4. CASE kind = "info"
  <2>1. whats = <<"answer">>
    BY <1>4 DEF Confirmations
  <2>2. ClassOf(kind, "answer") = "ok"
    BY DEF ClassOf
  <2> QED BY <2>1, <2>2, Single, Pair DEF Texts
<1> QED BY <1>1, <1>2, <1>3, <1>4

LEMMA RefusalClasses ==
  ASSUME NEW kind \in {"infotainment", "rke", "whitelist", "info"},
         NEW whats \in Refusals(kind)
  PROVE  /\ whats \in Seq(Texts) /\ Len(whats) \in DOMAIN whats
         /\ \A i \in DOMAIN whats : ClassOf(kind, whats[i]) \in {"retry", "final", "more"}
<1>0. ClassOf(kind, "status") = "more" /\ ClassOf(kind, "error") = "more"
  BY DEF ClassOf
<1>5. ClassOf(kind, "wait") = "retry" /\ ClassOf(kind, "busy") = "retry"
  BY DEF ClassOf
<1>6. ClassOf(kind, "nominal") = "final" /\ ClassOf(kind, "denied") = "final"
  BY DEF ClassOf
<1>7. ClassOf(kind, "bare") = "final"
  BY DEF ClassOf
<1>1. CASE kind = "infotainment"
  <2>1. whats = <<"nominal">> \/ whats = <<"busy">>
    BY <1>1 DEF Refusals
  <2>4. CASE whats = <<"nominal">>
    BY <2>4, <1>6, Single DEF Texts
  <2>5. CASE whats = <<"busy">>
    BY <2>5, <1>5, Single DEF Texts
  <2> QED BY <2>1, <2>4, <2>5
<1>2. CASE kind = "rke"
  <2>1. whats = <<"status", "error", "nominal">> \/ whats = <<"error", "nominal">>
        \/ whats = <<"bare", "nominal">> \/ whats = <<"wait">>
    BY <1>2 DEF Refusals
  <2>4. CASE whats = <<"error", "nominal">>
    BY <2>4, <1>0, <1>6, Pair DEF Texts
  <2>5. CASE whats = <<"wait">>
    BY <2>5, <1>5, Single DEF Texts
  <2>6. CASE whats = <<"bare", "nominal">>
    BY <2>6, <1>6, <1>7, Pair DEF Texts
  <2>7. CASE whats = <<"status", "error", "nominal">>
    BY <2>7, <1>0, <1>6, Triple DEF Texts
  <2> QED BY <2>1, <2>4, <2>5, <2>6, <2>7
<1>3. CASE kind = "whitelist"
  <2>1. whats = <<"status", "empty", "denied">> \/ whats = <<"empty", "denied">>
        \/ whats = <<"wait">>
    BY <1>3 DEF Refusals
  <2>2. ClassOf(kind, "empty") = "more"
    BY <1>3 DEF ClassOf, OfEmpty
  <2>4. CASE whats = <<"empty", "denied">>
    BY <2>4, <2>2, <1>6, Pair DEF Texts
  <2>5. CASE whats = <<"wait">>
    BY <2>5, <1>5, Single DEF Texts
  <2>6. CASE whats = <<"status", "empty", "denied">>
    BY <2>6, <2>2, <1>0, <1>6, Triple DEF Texts
  <2> QED BY <2>1, <2>4, <2>5, <2>6
<1>4. CASE kind = "info"
  <2>1. whats = <<"wait">>
    BY <1>4 DEF Refusals
  <2> QED BY <2>1, <1>5, Single DEF Texts
<1> QED BY <1>1, <1>2, <1>3, <1>4

LEMMA ReplayClass ==
  ASSUME NEW kind
  PROVE  ClassOf(kind, "replayed") = "retry"
BY DEF ClassOf

LEMMA Classes ==
  ASSUME NEW kind, NEW what
  PROVE  ClassOf(kind, what) \in {"ok", "maybe", "more", "retry", "final"}
BY DEF ClassOf, OfEmpty

LEMMA MembersTail ==
  ASSUME NEW S, NEW s \in Seq(S), s # <<>>
  PROVE  /\ Tail(s) \in Seq(S) /\ Members(Tail(s)) \subseteq Members(s)
         /\ Head(s) \in S /\ Head(s) \in Members(s)
BY DEF Members

LEMMA MembersAppend ==
  ASSUME NEW S, NEW s \in Seq(S), NEW e \in S
  PROVE  /\ Append(s, e) \in Seq(S) /\ Members(Append(s, e)) = Members(s) \cup {e}
<1>1. /\ Append(s, e) \in Seq(S) /\ DOMAIN Append(s, e) = 1 .. Len(s) + 1
      /\ Append(s, e)[Len(s) + 1] = e
  OBVIOUS
<1>2. ASSUME NEW i \in DOMAIN s PROVE i \in 1 .. Len(s) + 1 /\ Append(s, e)[i] = s[i]
  OBVIOUS
<1>3. ASSUME NEW i \in DOMAIN Append(s, e), i \notin DOMAIN s PROVE i = Len(s) + 1
  BY <1>1, <1>3
<1> QED BY <1>1, <1>2, <1>3 DEF Members

LEMMA MembersConcat ==
  ASSUME NEW S, NEW s \in Seq(S), NEW t \in Seq(S)
  PROVE  /\ s \o t \in Seq(S) /\ Members(s \o t) \subseteq Members(s) \cup Members(t)
<1>1. /\ s \o t \in Seq(S) /\ Len(s \o t) = Len(s) + Len(t)
      /\ \A i \in 1 .. Len(s) + Len(t) :
           (s \o t)[i] = IF i <= Len(s) THEN s[i] ELSE t[i - Len(s)]
  <2>1. s \o t \in Seq(S) /\ Len(s \o t) = Len(s) + Len(t)
    OBVIOUS
  <2>2. ASSUME NEW i \in 1 .. Len(s) + Len(t)
        PROVE  (s \o t)[i] = IF i <= Len(s) THEN s[i] ELSE t[i - Len(s)]
    OBVIOUS
  <2> QED BY <2>1, <2>2
<1>2. ASSUME NEW i \in DOMAIN (s \o t) PROVE (s \o t)[i] \in Members(s) \cup Members(t)
  <2>1. i \in 1 .. Len(s) + Len(t) /\ Len(s) \in Nat /\ Len(t) \in Nat
    BY <1>1
  <2>2. CASE i <= Len(s)
    BY <1>1, <2>1, <2>2 DEF Members
  <2>3. CASE ~(i <= Len(s))
    <3>1. i - Len(s) \in DOMAIN t
      BY <2>1, <2>3
    <3> QED BY <1>1, <2>1, <2>3, <3>1 DEF Members
  <2> QED BY <2>2, <2>3
<1> QED BY <1>1, <1>2 DEF Members

LEMMA MembersEmpty == Members(<<>>) = {}
BY DEF Members
-----------------------------------------------------------------------------
(* The invariant holds initially, and each step preserves it.               *)

LEMMA InitIInv == Init => IInv
<1> SUFFICES ASSUME Init PROVE IInv
  OBVIOUS
<1>1. TypeOK
  <2>1. IsFiniteSet({}) /\ <<>> \in Seq(Replies)
    BY FS_EmptySet
  <2> QED BY <2>1 DEF Init, TypeOK, Stages
<1>2. Known = {} /\ Underway = {} /\ Members(inbox) = {} /\ Members(queue) = {}
  BY MembersEmpty DEF Init, Known, Underway
<1>3. TransmissionsDiffer /\ RepliesTrue /\ Accounted
  BY <1>2 DEF Known, TransmissionsDiffer, RepliesTrue, Accounted
<1>4. RepliesCurrent /\ SuccessMeansExecuted
  BY <1>2 DEF Init, Known, RepliesCurrent, SuccessMeansExecuted
<1> QED BY <1>1, <1>3, <1>4 DEF IInv

\* A step of the listener or the network that neither brings a new reply nor moves the caller.
LEMMA ListenerStep ==
  ASSUME IInv, UNCHANGED <<job, pc, attempt, tx, wire, executed, result, misjudged, http>>,
         over' \in BOOLEAN, inbox' \in Seq(Replies), queue' \in Seq(Replies),
         Members(inbox') \subseteq Members(inbox),
         \A r \in Members(queue') : r \in Members(queue) \/ (r \in Members(inbox) /\ r.attempt = attempt)
  PROVE  IInv'
<1>1. TypeOK'
  BY DEF IInv, TypeOK
<1>2. Known' = Known /\ TransmissionsDiffer' /\ Accounted' /\ SuccessMeansExecuted'
  BY DEF IInv, Known, TransmissionsDiffer, Accounted, SuccessMeansExecuted
<1>3. Underway' \subseteq Underway
  BY DEF Underway
<1>4. RepliesTrue'
  BY <1>3 DEF IInv, RepliesTrue, RequestOf
<1>5. RepliesCurrent'
  BY DEF IInv, RepliesCurrent
<1> QED BY <1>1, <1>2, <1>4, <1>5 DEF IInv

\* The attempt ends, in error or for good.
LEMMA FailStep ==
  ASSUME IInv, NEW from \in Stages, from # "done",
         NEW class \in {"retry", "maybe", "final", "ok"}, Fail(from, class),
         UNCHANGED <<job, over, attempt, tx, executed, inbox, http>>,
         wire' \subseteq wire, misjudged \subseteq misjudged',
         misjudged' \subseteq Nat, IsFiniteSet(misjudged'),
         class \in {"retry", "final"} => \A c \in Known' : c.tx \in misjudged',
         class = "ok" => \E c \in executed : c.attempt = attempt
  PROVE  IInv'
<1>1. pc = from /\ pc' = (IF class = "retry" THEN "backoff" ELSE "done") /\ queue' = <<>>
  BY DEF Fail, Goto, CloseHandler
<1>2. /\ result = "pending"
      /\ class = "retry" => result' = "pending"
      /\ class = "maybe" => result' = "maybe"
      /\ class = "final" => result' = "failed"
      /\ class = "ok" => result' = "ok"
  BY <1>1 DEF Fail, IInv, TypeOK
<1>3. TypeOK'
  BY <1>1, <1>2 DEF IInv, TypeOK, Stages
<1>4. Known' \subseteq Known /\ Underway' \subseteq Underway /\ Members(queue') = {}
  BY <1>1, MembersEmpty DEF Known, Underway
<1>5. TransmissionsDiffer'
  BY <1>1, <1>4 DEF IInv, TransmissionsDiffer
<1>6. RepliesTrue'
  BY <1>4 DEF IInv, RepliesTrue, RequestOf
<1>7. RepliesCurrent'
  BY <1>1, <1>4 DEF IInv, RepliesCurrent
<1>8. Accounted'
  <2>1. CASE class \in {"retry", "final"}
    BY <2>1 DEF Accounted
  <2>2. CASE class \in {"ok", "maybe"}
    BY <1>2, <1>4, <2>2 DEF IInv, Accounted
  <2> QED BY <2>1, <2>2
<1>9. SuccessMeansExecuted'
  BY <1>2 DEF SuccessMeansExecuted
<1> QED BY <1>3, <1>5, <1>6, <1>7, <1>8, <1>9 DEF IInv

\* While the caller is neither waiting nor done, nothing is left that it may not know of.
LEMMA AllMisjudged ==
  ASSUME IInv, pc \in {"sign", "transmit", "pause", "backoff"}
  PROVE  \A c \in Known : c.tx \in misjudged
BY DEF IInv, TypeOK, Accounted

\* The current transmission has left the network without being executed.
LEMMA NotExecuted ==
  ASSUME IInv, pc \in {"exchange", "await"},
         NEW c \in Known, c # [attempt |-> attempt, tx |-> tx]
  PROVE  c.tx \in misjudged
<1>1. c \in Requests
  BY DEF IInv, TypeOK, Known
<1>2. c.tx # tx
  BY <1>1 DEF IInv, TransmissionsDiffer, Requests
<1> QED BY <1>2 DEF IInv, TypeOK, Accounted

\* The bytes of the current attempt are handed to the connector.
LEMMA TransmitStep ==
  ASSUME IInv, pc = "transmit", UNCHANGED <<job, over, attempt, executed, http, inbox>>,
         tx' = tx + 1, wire' \in {wire, wire \cup {Copy}},
         \/ /\ pc' = IF job.link = "ble" THEN "await" ELSE "exchange"
            /\ UNCHANGED <<queue, result, misjudged>>
         \/ /\ job.link = "ble"
            /\ pc' = "done" /\ result' = "failed" /\ queue' = <<>>
            /\ misjudged' = misjudged \cup {tx'}
  PROVE  IInv'
<1>1. /\ attempt \in Nat /\ tx \in Nat /\ Copy \in Requests
      /\ Copy.attempt = attempt /\ Copy.tx = tx + 1
  BY DEF IInv, TypeOK, Copy, Requests
<1>2. \A c \in Known : c \in Requests /\ c.tx <= tx /\ c.tx # tx + 1 /\ c.tx \in misjudged
  <2>1. \A c \in Known : c \in Requests /\ c.tx <= tx
    BY DEF IInv, TypeOK, TransmissionsDiffer, Known
  <2>2. \A c \in Known : c.tx \in Nat
    BY <2>1 DEF Requests
  <2> QED BY <1>1, <2>1, <2>2, AllMisjudged
<1>3. Known' \subseteq Known \cup {Copy} /\ Copy \notin Known
  BY <1>1, <1>2 DEF Known
<1>4. misjudged \subseteq misjudged'
  OBVIOUS
<1>5. TypeOK'
  <2>1. IsFiniteSet(misjudged') /\ misjudged' \subseteq Nat
    <3>1. IsFiniteSet(misjudged) /\ misjudged \subseteq Nat /\ tx + 1 \in Nat
      BY <1>1 DEF IInv, TypeOK
    <3>2. IsFiniteSet(misjudged \cup {tx + 1})
      BY <3>1, FS_AddElement
    <3> QED BY <3>1, <3>2
  <2>2. wire' \subseteq Requests /\ queue' \in Seq(Replies)
    <3>1. queue \in Seq(Replies) /\ <<>> \in Seq(Replies) /\ wire \subseteq Requests
      BY DEF IInv, TypeOK
    <3> QED BY <1>1, <3>1
  <2> QED BY <1>1, <2>1, <2>2 DEF IInv, TypeOK, Stages
<1>6. TransmissionsDiffer'
  <2>1. wire' \cap executed' = {}
    BY <1>3 DEF IInv, TransmissionsDiffer, Known
  <2>2. \A c \in Known' : c.attempt <= attempt' /\ c.tx <= tx' /\ (c.tx = tx' => c = Copy)
    <3>1. ASSUME NEW c \in Known PROVE c.attempt <= attempt /\ c.tx <= tx + 1 /\ c.tx # tx + 1
      <4>1. c.tx \in Nat /\ c.tx <= tx /\ c.attempt <= attempt /\ c.tx # tx + 1
        BY <1>2 DEF IInv, TransmissionsDiffer, Requests
      <4> QED BY <1>1, <4>1
    <3> QED BY <1>1, <1>3, <3>1
  <2>3. \A c, d \in Known' : c.tx = d.tx => c = d
    BY <1>1, <1>2, <1>3 DEF IInv, TransmissionsDiffer
  <2> QED BY <1>1, <2>1, <2>2, <2>3 DEF TransmissionsDiffer
<1>7. Members(queue') \subseteq Members(queue) /\ Underway' \subseteq Underway
  BY MembersEmpty DEF Underway
<1>8. RepliesTrue'
  <2>1. ASSUME NEW r \in Underway
        PROVE  r.tx \in Nat /\ r.tx <= tx + 1 /\ RequestOf(r) # Copy
    <3>1. r \in Replies
      BY DEF Underway, IInv, TypeOK, Members
    <3>2. r.tx \in Nat /\ r.tx <= tx
      BY <3>1 DEF IInv, RepliesTrue, Replies
    <3> QED BY <1>1, <3>2 DEF RequestOf
  <2>2. ASSUME NEW r \in Underway'
        PROVE  /\ r.attempt <= attempt' /\ r.tx <= tx'
               /\ RequestOf(r) \notin wire'
               /\ ClassOf(job.kind, r.what) = "ok" => RequestOf(r) \in executed'
               /\ ClassOf(job.kind, r.what) \in {"retry", "final"} => RequestOf(r) \notin executed'
    BY <1>7, <2>1 DEF IInv, RepliesTrue
  <2> QED BY <2>2 DEF RepliesTrue, RequestOf
<1>9. RepliesCurrent'
  <2>1. \A r \in Members(inbox') \cup Members(queue') : r.attempt # attempt
    BY <1>7 DEF IInv, RepliesCurrent
  <2>2. job.link = "ble" => \A c \in wire' : c.attempt = attempt => c.tx = tx'
    BY <1>1 DEF IInv, RepliesCurrent
  <2>3. \A r \in Members(queue') : r.attempt = attempt
    BY <1>7 DEF IInv, RepliesCurrent
  <2> QED BY <2>1, <2>2, <2>3 DEF RepliesCurrent
<1>10. Accounted'
  BY <1>1, <1>2, <1>3 DEF Accounted
<1>11. SuccessMeansExecuted'
  BY DEF IInv, TypeOK, SuccessMeansExecuted
<1> QED BY <1>5, <1>6, <1>8, <1>9, <1>10, <1>11 DEF IInv

\* The vehicle takes a request and answers it.
LEMMA AnswerStep ==
  ASSUME IInv, NEW copy \in wire, NEW whats \in Seq(Texts), Len(whats) \in DOMAIN whats,
         wire' = wire \ {copy}, executed' \in {executed, executed \cup {copy}},
         Reply(copy, whats),
         \A i \in DOMAIN whats :
           /\ ClassOf(job.kind, whats[i]) = "ok" => copy \in executed'
           /\ ClassOf(job.kind, whats[i]) \in {"retry", "final"} => executed' = executed,
         UNCHANGED <<job, over, pc, attempt, tx, queue, result, misjudged>>
  PROVE  IInv'
<1> DEFINE r(i) == [attempt |-> copy.attempt, tx |-> copy.tx, seq |-> i, what |-> whats[i]]
           New == {r(i) : i \in DOMAIN whats}
<1>1. copy \in Requests /\ copy \notin executed /\ copy \in Known
  BY DEF IInv, TypeOK, TransmissionsDiffer, Known
<1>2. \A i \in DOMAIN whats : r(i) \in Replies /\ RequestOf(r(i)) = copy /\ r(i).what = whats[i]
  <2>1. ASSUME NEW i \in DOMAIN whats PROVE i \in Nat /\ whats[i] \in Texts
    OBVIOUS
  <2> QED BY <1>1, <2>1 DEF Requests, Replies, RequestOf
<1>3. New \subseteq Replies
  BY <1>2
<1>4. /\ http' \subseteq http \cup New
      /\ inbox' \in Seq(Replies) /\ Members(inbox') \subseteq Members(inbox) \cup New
      /\ job.link = "fleet" => inbox' = inbox
  <2>1. CASE job.link = "fleet"
    BY <2>1 DEF Reply, IInv, TypeOK
  <2>2. CASE job.link # "fleet"
    <3> DEFINE answer == [i \in DOMAIN whats |-> r(i)]
    <3>1. answer \in Seq(Replies) /\ Members(answer) \subseteq New
      <4>1. DOMAIN whats = 1 .. Len(whats) /\ Len(whats) \in Nat
        OBVIOUS
      <4>2. answer \in [1 .. Len(whats) -> Replies]
        BY <1>2, <4>1
      <4>3. answer \in Seq(Replies)
        BY <4>1, <4>2
      <4> QED BY <4>1, <4>3 DEF Members
    <3>2. inbox' = inbox \o answer /\ http' = http
      BY <2>2 DEF Reply
    <3>3. inbox \in Seq(Replies)
      BY DEF IInv, TypeOK
    <3> HIDE DEF answer, New
    <3>4. inbox \o answer \in Seq(Replies) /\ Members(inbox \o answer) \subseteq Members(inbox) \cup Members(answer)
      BY <3>1, <3>3, MembersConcat
    <3> QED BY <2>2, <3>1, <3>2, <3>4
  <2> QED BY <2>1, <2>2
<1>5. TypeOK'
  BY <1>1, <1>3, <1>4 DEF IInv, TypeOK
<1>6. Known' \subseteq Known /\ wire' \cap executed' = {}
  BY <1>1 DEF IInv, TransmissionsDiffer, Known
<1>7. TransmissionsDiffer'
  BY <1>6 DEF IInv, TransmissionsDiffer
<1>8. Accounted' /\ SuccessMeansExecuted'
  BY <1>6 DEF IInv, Accounted, SuccessMeansExecuted
<1>9. Underway' \subseteq Underway \cup New
  BY <1>4 DEF Underway
<1>10. RepliesTrue'
  <2>1. ASSUME NEW q \in Underway
        PROVE  /\ RequestOf(q) \notin wire'
               /\ RequestOf(q) \in executed => RequestOf(q) \in executed'
               /\ RequestOf(q) \notin executed => RequestOf(q) \notin executed'
    BY DEF IInv, RepliesTrue
  <2>2. ASSUME NEW i \in DOMAIN whats
        PROVE  /\ r(i).attempt <= attempt /\ r(i).tx <= tx
               /\ RequestOf(r(i)) \notin wire'
               /\ ClassOf(job.kind, r(i).what) = "ok" => RequestOf(r(i)) \in executed'
               /\ ClassOf(job.kind, r(i).what) \in {"retry", "final"} => RequestOf(r(i)) \notin executed'
    BY <1>1, <1>2 DEF IInv, TransmissionsDiffer
  <2>3. ASSUME NEW q \in New PROVE \E i \in DOMAIN whats : q = r(i)
    OBVIOUS
  <2> HIDE DEF New, r
  <2>4. ASSUME NEW q \in Underway'
        PROVE  /\ q.attempt <= attempt /\ q.tx <= tx
               /\ RequestOf(q) \notin wire'
               /\ ClassOf(job.kind, q.what) = "ok" => RequestOf(q) \in executed'
               /\ ClassOf(job.kind, q.what) \in {"retry", "final"} => RequestOf(q) \notin executed'
    <3>1. CASE q \in Underway
      BY <2>1, <3>1 DEF IInv, RepliesTrue
    <3>2. CASE q \in New
      BY <2>2, <2>3, <3>2
    <3> QED BY <1>9, <3>1, <3>2
  <2> QED BY <2>4 DEF RepliesTrue, RequestOf
<1>11. RepliesCurrent'
  <2>1. CASE job.link = "fleet"
    BY <1>4, <2>1 DEF IInv, RepliesCurrent
  <2>2. CASE job.link = "ble"
    <3>1. ASSUME NEW q \in New, q.attempt = attempt
          PROVE  q.tx = tx /\ pc \notin {"transmit", "exchange", "pause"}
      BY <2>2, <3>1 DEF IInv, RepliesCurrent
    <3> HIDE DEF New
    <3> QED BY <1>4, <2>2, <3>1 DEF IInv, RepliesCurrent
  <2>3. job.link \in {"ble", "fleet"}
    BY DeliveryAssumption DEF IInv, TypeOK, Jobs
  <2> QED BY <2>1, <2>2, <2>3
<1> QED BY <1>5, <1>7, <1>8, <1>10, <1>11 DEF IInv

\* The caller moves on between attempts or transmissions.
LEMMA PauseEnds ==
  ASSUME IInv, \/ pc = "pause" /\ pc' = "transmit"
               \/ pc = "backoff" /\ pc' = "sign",
         UNCHANGED <<job, over, attempt, tx, executed, wire, http, inbox, queue, result, misjudged>>
  PROVE  IInv'
<1>1. TypeOK'
  BY DEF IInv, TypeOK, Stages
<1>2. Known' = Known /\ Underway' = Underway
  BY DEF Known, Underway
<1>3. TransmissionsDiffer' /\ RepliesTrue' /\ SuccessMeansExecuted'
  BY <1>2 DEF IInv, TransmissionsDiffer, RepliesTrue, RequestOf, SuccessMeansExecuted
<1>4. RepliesCurrent'
  BY DEF IInv, RepliesCurrent
<1>5. Accounted'
  BY <1>2, AllMisjudged DEF Accounted
<1> QED BY <1>1, <1>3, <1>4, <1>5 DEF IInv

LEMMA SignStep == IInv /\ Sign => IInv'
<1> SUFFICES ASSUME IInv, Sign PROVE IInv'
  OBVIOUS
<1>1. /\ pc = "sign" /\ pc' = "transmit" /\ attempt' = attempt + 1 /\ queue' = <<>>
      /\ UNCHANGED <<job, over, tx, wire, executed, http, inbox, result, misjudged>>
  BY DEF Sign, Goto, CloseHandler, network, vehicle
<1>2. attempt \in Nat /\ tx \in Nat
  BY DEF IInv, TypeOK
<1>3. TypeOK'
  <2>1. <<>> \in Seq(Replies)
    OBVIOUS
  <2> QED BY <1>1, <2>1 DEF IInv, TypeOK, Stages
<1>4. Known' = Known /\ Underway' \subseteq Underway /\ Members(queue') = {} /\ Members(inbox') = Members(inbox)
  BY <1>1, MembersEmpty DEF Known, Underway
<1>5. ASSUME NEW n \in Nat, n <= attempt PROVE n <= attempt + 1 /\ n # attempt + 1
  BY <1>2, <1>5
<1>6. \A c \in Known : c.attempt \in Nat /\ c.attempt <= attempt
  <2>1. \A c \in Known : c \in Requests
    BY DEF IInv, TypeOK, Known
  <2> QED BY <2>1 DEF IInv, TransmissionsDiffer, Requests
<1>7. \A r \in Underway : r.attempt \in Nat /\ r.attempt <= attempt
  <2>1. \A r \in Underway : r \in Replies
    BY DEF IInv, TypeOK, Underway, Members
  <2> QED BY <2>1 DEF IInv, RepliesTrue, Replies
<1>8. TransmissionsDiffer'
  BY <1>1, <1>4, <1>5, <1>6 DEF IInv, TransmissionsDiffer
<1>9. RepliesTrue'
  BY <1>1, <1>4, <1>5, <1>7 DEF IInv, RepliesTrue, RequestOf
<1>10. RepliesCurrent'
  <2>1. \A r \in Members(inbox') \cup Members(queue') : r.attempt # attempt'
    BY <1>1, <1>4, <1>5, <1>7 DEF Underway
  <2>2. \A c \in wire' : c.attempt # attempt'
    BY <1>1, <1>5, <1>6 DEF Known
  <2> QED BY <1>1, <1>4, <2>1, <2>2 DEF RepliesCurrent
<1>11. Accounted'
  BY <1>1, <1>4, AllMisjudged DEF Accounted
<1>12. SuccessMeansExecuted'
  BY <1>1 DEF IInv, TypeOK, SuccessMeansExecuted
<1> QED BY <1>3, <1>8, <1>9, <1>10, <1>11, <1>12 DEF IInv

LEMMA ExchangeStep == IInv /\ Exchange => IInv'
<1> SUFFICES ASSUME IInv, Exchange PROVE IInv'
  OBVIOUS
<1>1. PICK r \in http :
        /\ pc = "exchange" /\ pc' = "await"
        /\ r.tx = tx /\ inbox' = Append(inbox, r) /\ http' = http \ {r}
        /\ UNCHANGED <<job, over, attempt, tx, wire, executed, queue, result, misjudged>>
  BY DEF Exchange, Goto, vehicle
<1>2. r \in Replies /\ inbox \in Seq(Replies) /\ job.link # "ble"
  BY <1>1 DEF IInv, TypeOK, RepliesCurrent
<1>3. inbox' \in Seq(Replies) /\ Members(inbox') = Members(inbox) \cup {r}
  BY <1>1, <1>2, MembersAppend
<1>4. TypeOK'
  BY <1>1, <1>3 DEF IInv, TypeOK, Stages
<1>5. Known' = Known /\ Underway' \subseteq Underway /\ Members(queue') = Members(queue)
  BY <1>1, <1>3 DEF Known, Underway
<1>6. TransmissionsDiffer' /\ Accounted' /\ SuccessMeansExecuted'
  BY <1>1, <1>5 DEF IInv, TransmissionsDiffer, Accounted, SuccessMeansExecuted
<1>7. RepliesTrue'
  BY <1>1, <1>5 DEF IInv, RepliesTrue, RequestOf
<1>8. RepliesCurrent'
  BY <1>1, <1>2, <1>3, <1>5 DEF IInv, RepliesCurrent
<1> QED BY <1>4, <1>6, <1>7, <1>8 DEF IInv

LEMMA ExchangeFailsStep ==
  ASSUME IInv, NEW o \in Outcomes, ExchangeFails(o)
  PROVE  IInv'
<1> DEFINE copy == [attempt |-> attempt, tx |-> tx]
<1>1. /\ pc = "exchange"
      /\ o \in NotPassedOn => copy \in wire
      /\ wire' = IF o \in NotPassedOn THEN wire \ {copy} ELSE wire
      /\ misjudged' = misjudged \cup (IF Misjudges(o) THEN {tx} ELSE {})
      /\ UNCHANGED <<job, over, attempt, tx, executed, http, inbox>>
  BY DEF ExchangeFails, Fail, Goto, vehicle
<1>2. ClassOfOutcome(o) \in {"retry", "maybe", "final"}
  BY DEF ClassOfOutcome, Outcomes, Statuses
<1>3. misjudged' \subseteq Nat /\ IsFiniteSet(misjudged')
  <2>1. misjudged \subseteq Nat /\ IsFiniteSet(misjudged) /\ tx \in Nat
    BY DEF IInv, TypeOK
  <2>2. IsFiniteSet(misjudged \cup {tx})
    BY <2>1, FS_AddElement
  <2> QED BY <1>1, <2>1, <2>2
<1>4. ASSUME ClassOfOutcome(o) # "maybe", NEW c \in Known' PROVE c.tx \in misjudged'
  <2>1. c \in Known
    BY <1>1 DEF Known
  <2>2. CASE c = copy
    <3>1. o \notin NotPassedOn
      BY <1>1, <2>2 DEF Known, IInv, TransmissionsDiffer
    <3>2. Misjudges(o)
      BY <1>4, <3>1 DEF Misjudges
    <3> QED BY <1>1, <2>2, <3>2
  <2>3. CASE c # copy
    <3>1. c.tx \in misjudged
      BY <1>1, <2>1, <2>3, NotExecuted
    <3> QED BY <1>1, <3>1
  <2> QED BY <2>2, <2>3
<1>5. CASE ClassOfOutcome(o) # "retry"
  <2>1. Fail("exchange", ClassOfOutcome(o))
    BY <1>5 DEF ExchangeFails
  <2> HIDE DEF copy
  <2> QED BY <1>1, <1>2, <1>3, <1>4, <1>5, <2>1, FailStep DEF Stages
<1>6. CASE ClassOfOutcome(o) = "retry"
  <2>1. pc' = "pause" /\ UNCHANGED <<queue, result>>
    BY <1>6 DEF ExchangeFails, Goto
  <2>2. TypeOK'
    BY <1>1, <1>3, <2>1 DEF IInv, TypeOK, Stages
  <2>3. Known' \subseteq Known /\ wire' \subseteq wire /\ Underway' = Underway
    BY <1>1, <2>1 DEF Known, Underway
  <2>4. TransmissionsDiffer' /\ SuccessMeansExecuted'
    BY <1>1, <2>1, <2>3 DEF IInv, TransmissionsDiffer, SuccessMeansExecuted
  <2>5. RepliesTrue'
    BY <1>1, <2>3 DEF IInv, RepliesTrue, RequestOf
  <2>6. RepliesCurrent'
    BY <1>1, <2>1, <2>3 DEF IInv, RepliesCurrent
  <2>7. Accounted'
    BY <1>4, <1>6 DEF Accounted
  <2> QED BY <2>2, <2>4, <2>5, <2>6, <2>7 DEF IInv
<1> QED BY <1>5, <1>6

LEMMA TakeReplyStep == IInv /\ TakeReply => IInv'
<1> SUFFICES ASSUME IInv, TakeReply PROVE IInv'
  OBVIOUS
<1> DEFINE r == Head(queue)
           class == ClassOf(job.kind, r.what)
<1>1. /\ queue # <<>> /\ queue \in Seq(Replies)
      /\ UNCHANGED <<job, over, attempt, tx, wire, executed, http, inbox, misjudged>>
  BY DEF TakeReply, network, vehicle, IInv, TypeOK
<1>2. /\ Tail(queue) \in Seq(Replies) /\ Members(Tail(queue)) \subseteq Members(queue)
      /\ r \in Members(queue)
  BY <1>1, MembersTail
<1>3. class \in {"ok", "maybe", "more", "retry", "final"}
  BY Classes
<1>4. CASE class = "more"
  <2>1. pc' = pc /\ queue' = Tail(queue) /\ UNCHANGED result
    BY <1>4 DEF TakeReply, Goto
  <2>2. over' \in BOOLEAN /\ inbox' \in Seq(Replies)
    BY <1>1 DEF IInv, TypeOK
  <2> QED BY <1>1, <1>2, <2>1, <2>2, ListenerStep
<1>5. CASE class # "more"
  <2>1. Fail("await", class) /\ pc = "await"
    BY <1>5 DEF TakeReply, Fail, Goto
  <2>2. /\ r \in Underway /\ r.attempt = attempt /\ r.tx = tx
        /\ RequestOf(r) = [attempt |-> attempt, tx |-> tx]
    BY <1>2 DEF Underway, IInv, RepliesCurrent, RequestOf
  <2>3. class = "ok" => RequestOf(r) \in executed
    BY <2>2 DEF IInv, RepliesTrue
  <2>4. ASSUME class \in {"retry", "final"}, NEW c \in Known PROVE c.tx \in misjudged
    <3>1. RequestOf(r) \notin Known
      BY <2>2, <2>4 DEF IInv, RepliesTrue, Known
    <3> QED BY <2>1, <2>2, <3>1, NotExecuted
  <2>5. misjudged' \subseteq Nat /\ IsFiniteSet(misjudged')
    BY <1>1 DEF IInv, TypeOK
  <2>6. Known' = Known
    BY <1>1 DEF Known
  <2>7. class = "ok" => \E c \in executed : c.attempt = attempt
    BY <2>2, <2>3
  <2> HIDE DEF class
  <2> QED BY <1>1, <1>3, <1>5, <2>1, <2>4, <2>5, <2>6, <2>7, FailStep DEF Stages
<1> QED BY <1>4, <1>5

LEMMA TakeStep ==
  ASSUME IInv, NEW copy \in wire, Take(copy)
  PROVE  IInv'
<1>1. /\ wire' = wire \ {copy}
      /\ UNCHANGED <<job, over, pc, attempt, tx, queue, result, misjudged>>
  BY DEF Take, caller
<1>2. job.kind \in {"infotainment", "rke", "whitelist", "info"}
  BY DEF IInv, TypeOK, Jobs
<1>3. CASE Execute(copy)
  <2>1. PICK whats \in Confirmations(job.kind) : Reply(copy, whats)
    BY <1>3 DEF Execute
  <2>2. executed' = executed \cup {copy}
    BY <1>3 DEF Execute
  <2>3. /\ whats \in Seq(Texts) /\ Len(whats) \in DOMAIN whats
        /\ \A i \in DOMAIN whats : ClassOf(job.kind, whats[i]) \in {"ok", "maybe", "more"}
    BY <1>2, ConfirmationClasses
  <2> QED BY <1>1, <2>1, <2>2, <2>3, AnswerStep
<1>4. CASE Refuse(copy)
  <2>1. PICK whats \in Refusals(job.kind) : Reply(copy, whats)
    BY <1>4 DEF Refuse
  <2>2. executed' = executed
    BY <1>4 DEF Refuse
  <2>3. /\ whats \in Seq(Texts) /\ Len(whats) \in DOMAIN whats
        /\ \A i \in DOMAIN whats : ClassOf(job.kind, whats[i]) \in {"retry", "final", "more"}
    BY <1>2, RefusalClasses
  <2> QED BY <1>1, <2>1, <2>2, <2>3, AnswerStep
<1>5. CASE RefuseReplay(copy)
  <2>1. Reply(copy, <<"replayed">>) /\ executed' = executed
    BY <1>5 DEF RefuseReplay, vehicle
  <2>2. "replayed" \in Texts
    BY DEF Texts
  <2>3. /\ <<"replayed">> \in Seq(Texts) /\ Len(<<"replayed">>) \in DOMAIN <<"replayed">>
        /\ \A i \in DOMAIN <<"replayed">> : <<"replayed">>[i] = "replayed"
    BY <2>2, Single
  <2>4. ClassOf(job.kind, "replayed") = "retry"
    BY ReplayClass
  <2> QED BY <1>1, <2>1, <2>3, <2>4, AnswerStep
<1> QED BY <1>3, <1>4, <1>5 DEF Take

LEMMA RouteStep == IInv /\ Route => IInv'
<1> SUFFICES ASSUME IInv, Route PROVE IInv'
  OBVIOUS
<1> DEFINE r == Head(inbox)
<1>1. /\ inbox # <<>> /\ inbox \in Seq(Replies) /\ queue \in Seq(Replies)
      /\ inbox' = Tail(inbox)
      /\ UNCHANGED <<job, over, pc, attempt, tx, wire, executed, http, result, misjudged>>
  BY DEF Route, vehicle, IInv, TypeOK
<1>2. /\ inbox' \in Seq(Replies) /\ Members(inbox') \subseteq Members(inbox)
      /\ r \in Members(inbox) /\ r \in Replies
  BY <1>1, MembersTail
<1>3. queue' = queue \/ (queue' = Append(queue, r) /\ r.attempt = attempt)
  BY DEF Route, HasHandler
<1>4. /\ queue' \in Seq(Replies)
      /\ \A q \in Members(queue') : q \in Members(queue) \/ (q \in Members(inbox) /\ q.attempt = attempt)
  <2>1. CASE queue' = queue
    BY <1>1, <2>1
  <2>2. CASE queue' = Append(queue, r) /\ r.attempt = attempt
    <3>1. Append(queue, r) \in Seq(Replies) /\ Members(Append(queue, r)) = Members(queue) \cup {r}
      BY <1>1, <1>2, MembersAppend
    <3> QED BY <1>2, <2>2, <3>1
  <2> QED BY <1>3, <2>1, <2>2
<1>5. over' \in BOOLEAN
  BY <1>1 DEF IInv, TypeOK
<1> QED BY <1>1, <1>2, <1>4, <1>5, ListenerStep

LEMMA NetworkStep == IInv /\ (Lose \/ Repeat \/ EndContext) => IInv'
<1> SUFFICES ASSUME IInv, Lose \/ Repeat \/ EndContext PROVE IInv'
  OBVIOUS
<1>1. inbox \in Seq(Replies) /\ queue \in Seq(Replies) /\ over \in BOOLEAN
  BY DEF IInv, TypeOK
<1>2. UNCHANGED <<job, pc, attempt, tx, wire, executed, result, misjudged, http, queue>>
  BY DEF Lose, Repeat, EndContext, caller, vehicle, network
<1>3. inbox' \in Seq(Replies) /\ Members(inbox') \subseteq Members(inbox)
  <2>1. CASE Lose
    BY <1>1, <2>1, MembersTail DEF Lose
  <2>2. CASE Repeat
    <3>1. inbox # <<>> /\ inbox' = Append(inbox, Head(inbox))
      BY <2>2 DEF Repeat
    <3>2. Head(inbox) \in Replies /\ Head(inbox) \in Members(inbox)
      BY <1>1, <3>1, MembersTail
    <3>3. Append(inbox, Head(inbox)) \in Seq(Replies)
          /\ Members(Append(inbox, Head(inbox))) = Members(inbox) \cup {Head(inbox)}
      BY <1>1, <3>2, MembersAppend
    <3> QED BY <3>1, <3>2, <3>3
  <2>3. CASE EndContext
    BY <1>1, <2>3 DEF EndContext, network
  <2> QED BY <2>1, <2>2, <2>3
<1>4. over' \in BOOLEAN
  BY <1>1 DEF Lose, Repeat, EndContext
<1> QED BY <1>1, <1>2, <1>3, <1>4, ListenerStep

LEMMA StepIInv == IInv /\ [Next]_vars => IInv'
<1> SUFFICES ASSUME IInv, [Next]_vars PROVE IInv'
  OBVIOUS
<1>0. misjudged \subseteq Nat /\ IsFiniteSet(misjudged)
  BY DEF IInv, TypeOK
<1>1. CASE SignOver
  <2>1. /\ Fail("sign", "final") /\ pc = "sign"
        /\ UNCHANGED <<job, over, attempt, tx, executed, inbox, http, wire, misjudged>>
    BY <1>1 DEF SignOver, Fail, Goto, network, vehicle
  <2>2. Known' = Known
    BY <2>1 DEF Known
  <2> QED BY <1>0, <2>1, <2>2, AllMisjudged, FailStep DEF Stages
<1>2. CASE PauseOver
  <2>1. /\ Fail("pause", "retry") /\ pc = "pause"
        /\ UNCHANGED <<job, over, attempt, tx, executed, inbox, http, wire, misjudged>>
    BY <1>2 DEF PauseOver, Fail, Goto, network, vehicle
  <2>2. Known' = Known
    BY <2>1 DEF Known
  <2> QED BY <1>0, <2>1, <2>2, AllMisjudged, FailStep DEF Stages
<1>3. CASE BackoffOver
  <2>1. /\ Fail("backoff", "final") /\ pc = "backoff"
        /\ UNCHANGED <<job, over, attempt, tx, executed, inbox, http, wire, misjudged>>
    BY <1>3 DEF BackoffOver, Fail, Goto, network, vehicle
  <2>2. Known' = Known
    BY <2>1 DEF Known
  <2> QED BY <1>0, <2>1, <2>2, AllMisjudged, FailStep DEF Stages
<1>4. CASE AwaitOver
  <2>1. /\ Fail("await", "maybe")
        /\ UNCHANGED <<job, over, attempt, tx, executed, inbox, http, wire, misjudged>>
    BY <1>4 DEF AwaitOver, network, vehicle
  <2> QED BY <1>0, <2>1, FailStep DEF Stages
<1>5. CASE Write \/ WriteFails \/ Post
  <2>1. job.link \in {"ble", "fleet"}
    BY DeliveryAssumption DEF IInv, TypeOK, Jobs
  <2>2. /\ pc = "transmit" /\ tx' = tx + 1 /\ wire' \in {wire, wire \cup {Copy}}
        /\ UNCHANGED <<job, over, attempt, executed, http, inbox>>
    BY <1>5 DEF Write, WriteFails, Post, Fail, Goto, vehicle
  <2>3. CASE WriteFails
    <3>1. /\ job.link = "ble" /\ pc' = "done" /\ result' = "failed" /\ queue' = <<>>
          /\ misjudged' = misjudged \cup {tx'}
      BY <2>3 DEF WriteFails, Fail, Goto, CloseHandler
    <3> QED BY <2>2, <3>1, TransmitStep
  <2>4. CASE Write \/ Post
    <3>1. /\ pc' = IF job.link = "ble" THEN "await" ELSE "exchange"
          /\ UNCHANGED <<queue, result, misjudged>>
      BY <2>1, <2>4 DEF Write, Post, Goto
    <3> QED BY <2>2, <3>1, TransmitStep
  <2> QED BY <1>5, <2>3, <2>4
<1>6. CASE Retransmit \/ Again
  <2>1. /\ \/ pc = "pause" /\ pc' = "transmit"
           \/ pc = "backoff" /\ pc' = "sign"
        /\ UNCHANGED <<job, over, attempt, tx, executed, wire, http, inbox, queue, result, misjudged>>
    BY <1>6 DEF Retransmit, Again, Goto, network, vehicle
  <2> QED BY <2>1, PauseEnds
<1>7. ASSUME NEW o \in Outcomes, ExchangeFails(o) PROVE IInv'
  BY <1>7, ExchangeFailsStep
<1>8. ASSUME NEW copy \in wire, Take(copy) PROVE IInv'
  BY <1>8, TakeStep
<1>9. CASE UNCHANGED vars
  <2>1. /\ UNCHANGED <<job, pc, over, attempt, tx, wire, executed, result, misjudged, http, inbox, queue>>
        /\ inbox \in Seq(Replies) /\ queue \in Seq(Replies) /\ over \in BOOLEAN
    BY <1>9 DEF vars, caller, network, vehicle, IInv, TypeOK
  <2> QED BY <2>1, ListenerStep
<1> QED BY <1>1, <1>2, <1>3, <1>4, <1>5, <1>6, <1>7, <1>8, <1>9,
           SignStep, ExchangeStep, TakeReplyStep, RouteStep, NetworkStep DEF Next, Caller

LEMMA Invariance == Spec => []IInv
BY InitIInv, StepIInv, PTL DEF Spec
-----------------------------------------------------------------------------
(* What the caller is told.                                                 *)

LEMMA FailureAccounted == ASSUME IInv PROVE FailureExplained
<1> SUFFICES ASSUME result = "failed", NEW c \in executed PROVE misjudged # {}
  BY DEF FailureExplained
<1>1. pc = "done" /\ c \in Known
  BY DEF IInv, TypeOK, Known
<1> QED BY <1>1 DEF IInv, Accounted

LEMMA ExecutionsCounted ==
  ASSUME IInv
  PROVE  /\ IsFiniteSet(executed) /\ Cardinality(executed) \in Nat
         /\ IsFiniteSet(misjudged) /\ Cardinality(misjudged) \in Nat
         /\ ExecutedOnce
<1> DEFINE T == misjudged \cup {tx}
           f == [c \in executed |-> c.tx]
<1>1. /\ IsFiniteSet(misjudged) /\ Cardinality(misjudged) \in Nat
      /\ IsFiniteSet(T) /\ Cardinality(T) \in Nat /\ Cardinality(T) <= 1 + Cardinality(misjudged)
  <2>1. IsFiniteSet(misjudged)
    BY DEF IInv, TypeOK
  <2>2. Cardinality(misjudged) \in Nat
    BY <2>1, FS_CardinalityType
  <2>3. /\ IsFiniteSet(misjudged \cup {tx})
        /\ Cardinality(misjudged \cup {tx}) =
             IF tx \in misjudged THEN Cardinality(misjudged) ELSE Cardinality(misjudged) + 1
    BY <2>1, FS_AddElement
  <2> QED BY <2>1, <2>2, <2>3
<1>2. f \in Injection(executed, T)
  <2>1. \A c \in executed : c \in Known /\ c.tx \in T
    BY DEF IInv, Accounted, Known
  <2>2. \A c, d \in executed : c.tx = d.tx => c = d
    BY <2>1 DEF IInv, TransmissionsDiffer
  <2>3. f \in [executed -> T]
    BY <2>1
  <2>4. IsInjective(f)
    BY <2>2 DEF IsInjective
  <2> QED BY <2>3, <2>4 DEF Injection
<1> HIDE DEF T, f
<1>3. IsFiniteSet(executed) /\ Cardinality(executed) <= Cardinality(T)
  BY <1>1, <1>2, FS_Injection
<1>4. Cardinality(executed) \in Nat
  BY <1>3, FS_CardinalityType
<1> QED BY <1>1, <1>3, <1>4 DEF ExecutedOnce

(***************************************************************************)
(* However many retries, losses, late and repeated replies: a caller that  *)
(* is told of success had its last attempt executed.                       *)
(***************************************************************************)
THEOREM SuccessTrue == Spec => []SuccessMeansExecuted
<1>1. IInv => SuccessMeansExecuted
  BY DEF IInv
<1> QED BY <1>1, Invariance, PTL

(***************************************************************************)
(* A caller that is told of failure, though the command was executed, met  *)
(* an exchange that was declared harmless and was not.                     *)
(***************************************************************************)
THEOREM FailureTrue == Spec => []FailureExplained
BY FailureAccounted, Invariance, PTL

(***************************************************************************)
(* The vehicle executes a command once, and once more at most for every    *)
(* such exchange.                                                          *)
(***************************************************************************)
THEOREM FewExecutions == Spec => []ExecutedOnce
BY ExecutionsCounted, Invariance, PTL
-----------------------------------------------------------------------------
(* The promise of CommandCall.                                              *)

LEMMA PromisesKept == IInv => SuccessMeansExecuted /\ FailureExplained /\ ExecutedOnce
BY FailureAccounted, ExecutionsCounted DEF IInv

LEMMA GrowsByOne ==
  ASSUME NEW S, IsFiniteSet(S), NEW e
  PROVE  Cardinality(S \cup {e}) \in {Cardinality(S), Cardinality(S) + 1}
BY FS_AddElement

\* What the caller does with its result and with what it takes for harmless.
LEMMA CallerStep ==
  ASSUME IInv, Caller
  PROVE  /\ UNCHANGED executed /\ result = "pending"
         /\ \E e \in Nat : misjudged' \in {misjudged, misjudged \cup {e}}
         /\ result' \in {"pending", "ok", "maybe", "failed"}
         /\ result' \in {"ok", "maybe"} => UNCHANGED misjudged
<1>1. /\ tx \in Nat /\ result \in {"pending", "ok", "maybe", "failed"}
      /\ result = "pending" <=> pc # "done"
  BY DEF IInv, TypeOK
<1>2. CASE Sign \/ Write \/ Post \/ Exchange \/ Retransmit \/ Again
  BY <1>1, <1>2 DEF Sign, Write, Post, Exchange, Retransmit, Again, Goto, network, vehicle
<1>3. CASE SignOver \/ PauseOver \/ AwaitOver \/ BackoffOver
  BY <1>1, <1>3 DEF SignOver, PauseOver, AwaitOver, BackoffOver, Fail, Goto, vehicle
<1>4. CASE TakeReply
  <2> DEFINE class == ClassOf(job.kind, Head(queue).what)
  <2>1. class \in {"retry", "maybe", "final", "more", "ok"}
    BY DEF ClassOf, OfEmpty
  <2> HIDE DEF class
  <2>2. /\ pc = "await" /\ UNCHANGED <<executed, misjudged>>
        /\ \/ UNCHANGED result
           \/ class # "more" /\ Fail("await", class)
    BY <1>4 DEF TakeReply, Fail, Goto, vehicle, class
  <2>3. class # "more" /\ Fail("await", class) => result' \in {"pending", "ok", "maybe", "failed"}
    BY <1>1, <2>1, <2>2 DEF Fail
  <2> QED BY <1>1, <2>2, <2>3
<1>5. CASE WriteFails
  <2>1. pc = "transmit" /\ result' = "failed" /\ UNCHANGED executed
    BY <1>5 DEF WriteFails, Fail, Goto, vehicle
  <2>2. misjudged' = misjudged \cup {tx + 1} /\ tx + 1 \in Nat
    BY <1>1, <1>5 DEF WriteFails
  <2> QED BY <1>1, <2>1, <2>2
<1>6. ASSUME NEW o \in Outcomes, ExchangeFails(o)
      PROVE  /\ pc = "exchange" /\ UNCHANGED executed
             /\ misjudged' \in {misjudged, misjudged \cup {tx}}
             /\ result' \in {"pending", "maybe", "failed"}
             /\ result' = "maybe" => UNCHANGED misjudged
  <2> DEFINE class == ClassOfOutcome(o)
  <2>1. class \in {"retry", "maybe", "final"}
    BY DEF ClassOfOutcome, Outcomes, Statuses
  <2>2. /\ UNCHANGED executed
        /\ misjudged' = misjudged \cup (IF Misjudges(o) THEN {tx} ELSE {})
        /\ Misjudges(o) => class # "maybe"
    BY <1>6 DEF ExchangeFails, Misjudges, vehicle
  <2>3. IF class = "retry" THEN pc = "exchange" /\ UNCHANGED result ELSE Fail("exchange", class)
    BY <1>6 DEF ExchangeFails, Goto
  <2> HIDE DEF class
  <2>4. CASE class = "retry"
    BY <1>1, <2>2, <2>3, <2>4
  <2>5. CASE class = "maybe"
    BY <2>2, <2>3, <2>5 DEF Fail, Goto
  <2>6. CASE class = "final"
    BY <2>2, <2>3, <2>6 DEF Fail, Goto
  <2> QED BY <2>1, <2>4, <2>5, <2>6
<1> QED BY <1>1, <1>2, <1>3, <1>4, <1>5, <1>6 DEF Caller

\* The vehicle executes one request at a time, and no request twice.
LEMMA VehicleStep ==
  ASSUME IInv, [Next]_vars, ~Caller
  PROVE  /\ UNCHANGED <<result, misjudged>>
         /\ \/ UNCHANGED executed
            \/ \E copy \in wire : copy \notin executed /\ executed' = executed \cup {copy}
<1>1. CASE Route \/ Lose \/ Repeat \/ EndContext \/ UNCHANGED vars
  BY <1>1 DEF Route, Lose, Repeat, EndContext, vars, caller, vehicle
<1>2. ASSUME NEW copy \in wire, Take(copy)
      PROVE  /\ UNCHANGED <<result, misjudged>> /\ copy \notin executed
             /\ executed' \in {executed, executed \cup {copy}}
  <2>1. copy \notin executed
    BY DEF IInv, TransmissionsDiffer
  <2> QED BY <1>2, <2>1 DEF Take, Execute, Refuse, RefuseReplay, vehicle, caller
<1> QED BY <1>1, <1>2 DEF Next

(***************************************************************************)
(* The call keeps the promise of CommandCall for any number of attempts,   *)
(* transmissions and repetitions, over either connector, whatever is lost, *)
(* late or misjudged, before and after it has returned.                    *)
(***************************************************************************)
THEOREM CallRefinement == Spec => ImplementsCommandCall
<1>1. Init => Call!Init
  BY FS_EmptySet DEF Init, Call!Init
<1>2. IInv /\ IInv' /\ [Next]_vars =>
        [Call!Next]_<<result, Cardinality(executed), Cardinality(misjudged)>>
  <2> SUFFICES ASSUME IInv, IInv', [Next]_vars
               PROVE  [Call!Next]_<<result, Cardinality(executed), Cardinality(misjudged)>>
    OBVIOUS
  <2> DEFINE runs == Cardinality(executed)
             risked == Cardinality(misjudged)
  <2>1. /\ IsFiniteSet(executed) /\ IsFiniteSet(misjudged)
        /\ runs \in Nat /\ risked \in Nat
    BY ExecutionsCounted
  <2>2. SuccessMeansExecuted' /\ FailureExplained' /\ ExecutedOnce'
    BY PromisesKept, PTL
  <2>3. executed # {} <=> runs > 0
    BY <2>1, FS_EmptySet
  <2>4. CASE Caller
    <3>1. UNCHANGED <<executed, runs>> /\ result = "pending"
      BY <2>4, CallerStep
    <3>2. PICK e \in Nat : misjudged' \in {misjudged, misjudged \cup {e}}
      BY <2>4, CallerStep
    <3>3. risked' \in {risked, risked + 1} /\ (UNCHANGED misjudged => UNCHANGED risked)
      BY <2>1, <3>2, GrowsByOne
    <3>4. CASE result' = "pending"
      BY <3>1, <3>3, <3>4 DEF Call!Next, Call!Misjudge
    <3>5. CASE result' = "ok"
      <4>1. executed # {}
        BY <2>2, <3>1, <3>5 DEF SuccessMeansExecuted
      <4>2. UNCHANGED risked
        BY <2>4, <3>3, <3>5, CallerStep
      <4> QED BY <2>3, <3>1, <3>5, <4>1, <4>2 DEF Call!Next, Call!Succeed
    <3>6. CASE result' = "maybe"
      <4>1. UNCHANGED risked
        BY <2>4, <3>3, <3>6, CallerStep
      <4> QED BY <3>1, <3>6, <4>1 DEF Call!Next, Call!Admit
    <3>7. CASE result' = "failed"
      <4>1. executed # {} => misjudged' # {}
        BY <2>2, <3>1, <3>7 DEF FailureExplained
      <4>2. misjudged' # {} => risked' > 0
        <5>1. IsFiniteSet(misjudged') /\ risked' \in Nat
          BY <2>1, <3>2, <3>3, FS_AddElement
        <5> QED BY <5>1, FS_EmptySet
      <4> QED BY <2>3, <3>1, <3>3, <3>7, <4>1, <4>2 DEF Call!Next, Call!Deny
    <3> QED BY <2>4, <3>4, <3>5, <3>6, <3>7, CallerStep
  <2>5. CASE ~Caller
    <3>1. UNCHANGED <<result, misjudged, risked>>
      BY <2>5, VehicleStep
    <3>2. CASE UNCHANGED executed
      BY <3>1, <3>2
    <3>3. CASE \E copy \in wire : copy \notin executed /\ executed' = executed \cup {copy}
      <4>1. PICK copy \in wire : copy \notin executed /\ executed' = executed \cup {copy}
        BY <3>3
      <4>2. runs' = runs + 1
        BY <2>1, <4>1, FS_AddElement
      <4>3. runs <= risked
        BY <2>1, <2>2, <3>1, <4>2 DEF ExecutedOnce
      <4>4. result = "failed" => risked > 0
        <5>1. result = "failed" => misjudged # {}
          BY <2>2, <3>1, <4>1 DEF FailureExplained
        <5> QED BY <2>1, <5>1, FS_EmptySet
      <4> QED BY <3>1, <4>2, <4>3, <4>4 DEF Call!Next, Call!Execute
    <3> QED BY <2>5, <3>2, <3>3, VehicleStep
  <2> QED BY <2>4, <2>5
<1>3. IInv /\ [Next]_vars => IInv'
  BY StepIInv
<1> QED BY <1>1, <1>2, <1>3, InitIInv, PTL DEF Spec, ImplementsCommandCall, Call!Spec
-----------------------------------------------------------------------------
(* The handler's queue.                                                     *)

Listened == Members(inbox) \cup Members(queue)

\* The replies to the current attempt that the anti-replay window does not check.
PlainReplies == {r \in Replies : r.attempt = attempt /\ ~Encrypted(r.what)}

Positions(s, S) == {i \in DOMAIN s : s[i] \in S}
Count(s, S) == Cardinality(Positions(s, S))

\* A request is answered in one message, or in up to three that are encrypted.
OneAnswer ==
  \A r \in Underway :
    /\ r.seq \in {1, 2, 3}
    /\ \A q \in Underway :
         RequestOf(r) = RequestOf(q) => (Encrypted(r.what) <=> Encrypted(q.what))

\* The handler has heard what is in its queue, and took an encrypted message once.
QueueHeard ==
  /\ \A i \in DOMAIN queue : <<queue[i].tx, queue[i].seq>> \in heard
  /\ \A i, j \in DOMAIN queue :
       /\ Encrypted(queue[i].what)
       /\ queue[i].tx = queue[j].tx /\ queue[i].seq = queue[j].seq
       => i = j

(***************************************************************************)
(* A reply in plaintext is the only one to its attempt, so that it and its *)
(* repetitions are all that the queue holds and may yet get.               *)
(***************************************************************************)
PlainBudget ==
  Listened \cap PlainReplies # {} => Count(inbox, PlainReplies) + Len(queue) <= 1 + repeats

QueueInv ==
  /\ repeats \in 0 .. MaxRepeats
  /\ OneAnswer /\ QueueHeard /\ PlainBudget /\ NoReplyDropped

LEMMA PositionsFinite ==
  ASSUME NEW S, NEW T, NEW s \in Seq(T)
  PROVE  IsFiniteSet(Positions(s, S)) /\ Count(s, S) \in Nat
<1>1. IsFiniteSet(1 .. Len(s)) /\ Positions(s, S) \subseteq 1 .. Len(s)
  BY FS_Interval DEF Positions
<1>2. IsFiniteSet(Positions(s, S))
  BY <1>1, FS_Subset
<1> QED BY <1>2, FS_CardinalityType DEF Count

LEMMA FewerPositions ==
  ASSUME NEW S, NEW T, NEW s \in Seq(T), NEW t \in Seq(T),
         Positions(t, S) \subseteq Positions(s, S)
  PROVE  Count(t, S) <= Count(s, S)
BY PositionsFinite, FS_Subset DEF Count

LEMMA OnePosition ==
  ASSUME NEW S, NEW T, NEW s \in Seq(T), NEW i, Positions(s, S) \subseteq {i}
  PROVE  Count(s, S) <= 1
<1>1. IsFiniteSet({i}) /\ Cardinality({i}) = 1
  BY FS_Singleton
<1>2. Cardinality(Positions(s, S)) <= Cardinality({i})
  BY <1>1, FS_Subset
<1> QED BY <1>1, <1>2 DEF Count

\* Taking the head of a sequence takes it from the count.
LEMMA CountTail ==
  ASSUME NEW S, NEW T, NEW s \in Seq(T), s # <<>>
  PROVE  Count(Tail(s), S) + (IF Head(s) \in S THEN 1 ELSE 0) <= Count(s, S)
<1> DEFINE P == Positions(s, S)
           Q == Positions(Tail(s), S)
           f == [i \in Q |-> i + 1]
<1>1. /\ Tail(s) \in Seq(T) /\ Len(s) \in Nat \ {0} /\ Len(Tail(s)) = Len(s) - 1
      /\ Head(s) = s[1]
      /\ \A i \in 1 .. Len(s) - 1 : Tail(s)[i] = s[i + 1]
  OBVIOUS
<1>2. /\ P = {i \in 1 .. Len(s) : s[i] \in S}
      /\ Q = {i \in 1 .. Len(s) - 1 : s[i + 1] \in S}
  BY <1>1 DEF Positions
<1>3. IsFiniteSet(P) /\ Cardinality(P) \in Nat /\ IsFiniteSet(Q) /\ Cardinality(Q) \in Nat
  BY <1>1, PositionsFinite DEF Count
<1> HIDE DEF P, Q
<1>4. f \in Injection(Q, P \ {1})
  <2>1. \A i \in Q : i \in Nat \ {0} /\ i + 1 \in P \ {1}
    BY <1>1, <1>2
  <2>2. f \in [Q -> P \ {1}]
    BY <2>1
  <2>3. IsInjective(f)
    BY <2>1 DEF IsInjective
  <2> QED BY <2>2, <2>3 DEF Injection
<1> HIDE DEF f
<1>5. /\ IsFiniteSet(P \ {1})
      /\ Cardinality(P \ {1}) = IF 1 \in P THEN Cardinality(P) - 1 ELSE Cardinality(P)
  BY <1>3, FS_RemoveElement
<1>6. Cardinality(Q) <= Cardinality(P \ {1})
  BY <1>4, <1>5, FS_Injection
<1>7. 1 \in P <=> Head(s) \in S
  BY <1>1, <1>2
<1>8. Count(s, S) = Cardinality(P) /\ Count(Tail(s), S) = Cardinality(Q)
  BY DEF Count, P, Q
<1> QED BY <1>3, <1>5, <1>6, <1>7, <1>8

\* One more message adds one to the count at most.
LEMMA CountAppend ==
  ASSUME NEW S, NEW T, NEW s \in Seq(T), NEW e \in T
  PROVE  Count(Append(s, e), S) <= Count(s, S) + 1
<1>1. /\ Append(s, e) \in Seq(T) /\ Len(s) \in Nat /\ Len(Append(s, e)) = Len(s) + 1
      /\ \A i \in 1 .. Len(s) : Append(s, e)[i] = s[i]
  OBVIOUS
<1>2. Positions(Append(s, e), S) \subseteq Positions(s, S) \cup {Len(s) + 1}
  BY <1>1 DEF Positions
<1>3. IsFiniteSet(Positions(s, S)) /\ Cardinality(Positions(s, S)) \in Nat
  BY PositionsFinite DEF Count
<1> DEFINE P == Positions(s, S)
           Q == Positions(Append(s, e), S)
           R == P \cup {Len(s) + 1}
<1>4. /\ IsFiniteSet(R)
      /\ Cardinality(R) = IF Len(s) + 1 \in P THEN Cardinality(P) ELSE Cardinality(P) + 1
  BY <1>3, FS_AddElement
<1>5. Cardinality(Q) <= Cardinality(R)
  <2> HIDE DEF P, Q
  <2> QED BY <1>2, <1>4, FS_Subset DEF P, Q
<1>6. Cardinality(Q) \in Nat /\ Cardinality(P) \in Nat
  BY <1>1, <1>3, PositionsFinite DEF Count
<1> HIDE DEF P, Q, R
<1>7. Count(s, S) = Cardinality(P) /\ Count(Append(s, e), S) = Cardinality(Q)
  BY DEF Count, P, Q
<1> QED BY <1>4, <1>5, <1>6, <1>7

LEMMA InitQueueInv == Init => QueueInv
<1> SUFFICES ASSUME Init PROVE QueueInv
  OBVIOUS
<1>1. Members(inbox) = {} /\ Members(queue) = {} /\ http = {} /\ DOMAIN queue = {}
  BY MembersEmpty DEF Init
<1>2. Underway = {} /\ Listened = {}
  BY <1>1 DEF Underway, Listened
<1>3. repeats \in 0 .. MaxRepeats /\ ~dropped
  BY DeliveryAssumption DEF Init
<1> QED BY <1>1, <1>2, <1>3
        DEF QueueInv, OneAnswer, QueueHeard, PlainBudget, NoReplyDropped

\* What the vehicle may answer a request.
Answers == Confirmations(job.kind) \cup Refusals(job.kind) \cup {<<"replayed">>}

LEMMA AnswerShape ==
  ASSUME job \in Jobs, NEW whats \in Answers
  PROVE  /\ whats \in Seq(Texts) /\ Len(whats) \in {1, 2, 3}
         /\ Len(whats) = 1 \/ \A i \in DOMAIN whats : Encrypted(whats[i])
<1>1. job.kind \in {"infotainment", "rke", "whitelist", "info"}
  BY DEF Jobs
<1>2. /\ "done" \in Texts /\ "mtu exceeded" \in Texts /\ "status" \in Texts /\ "empty" \in Texts
      /\ "whitelisted" \in Texts /\ "answer" \in Texts /\ "nominal" \in Texts /\ "busy" \in Texts
      /\ "bare" \in Texts
      /\ "error" \in Texts /\ "wait" \in Texts /\ "denied" \in Texts /\ "replayed" \in Texts
  BY DEF Texts
<1>3. \/ \E t \in Texts : whats = <<t>>
      \/ job.kind # "info" /\ \E t, u \in Texts \ Faults : whats = <<t, u>>
      \/ job.kind # "info" /\ \E t, u, w \in Texts \ Faults : whats = <<t, u, w>>
  <2>1. CASE job.kind = "infotainment"
    <3>1. whats = <<"done">> \/ whats = <<"mtu exceeded">> \/ whats = <<"nominal">>
          \/ whats = <<"busy">> \/ whats = <<"replayed">>
      BY <2>1 DEF Answers, Confirmations, Refusals
    <3> QED BY <1>2, <3>1
  <2>2. CASE job.kind = "rke"
    <3>1. \/ whats = <<"status", "status", "empty">> \/ whats = <<"status", "error", "nominal">>
          \/ whats = <<"status", "empty">> \/ whats = <<"error", "nominal">>
          \/ whats = <<"bare", "nominal">>
          \/ whats = <<"empty">> \/ whats = <<"wait">> \/ whats = <<"replayed">>
      BY <2>2 DEF Answers, Confirmations, Refusals
    <3>2. /\ "status" \notin Faults /\ "empty" \notin Faults
          /\ "error" \notin Faults /\ "bare" \notin Faults /\ "nominal" \notin Faults
      BY DEF Faults
    <3> QED BY <1>2, <2>2, <3>1, <3>2
  <2>3. CASE job.kind = "whitelist"
    <3>1. \/ whats = <<"status", "empty", "whitelisted">> \/ whats = <<"status", "empty", "denied">>
          \/ whats = <<"empty", "whitelisted">> \/ whats = <<"empty", "denied">>
          \/ whats = <<"wait">> \/ whats = <<"replayed">>
      BY <2>3 DEF Answers, Confirmations, Refusals
    <3>2. /\ "status" \notin Faults /\ "empty" \notin Faults
          /\ "whitelisted" \notin Faults /\ "denied" \notin Faults
      BY DEF Faults
    <3> QED BY <1>2, <2>3, <3>1, <3>2
  <2>4. CASE job.kind = "info"
    <3>1. whats = <<"answer">> \/ whats = <<"wait">> \/ whats = <<"replayed">>
      BY <2>4 DEF Answers, Confirmations, Refusals
    <3> QED BY <1>2, <3>1
  <2> QED BY <1>1, <2>1, <2>2, <2>3, <2>4
<1>4. ASSUME NEW t \in Texts, whats = <<t>> PROVE whats \in Seq(Texts) /\ Len(whats) = 1
  BY <1>4
<1>5. ASSUME NEW t \in Texts \ Faults, NEW u \in Texts \ Faults, whats = <<t, u>>, job.kind # "info"
      PROVE  /\ whats \in Seq(Texts) /\ Len(whats) = 2
             /\ \A i \in DOMAIN whats : Encrypted(whats[i])
  <2>1. Encrypted(t) /\ Encrypted(u)
    BY <1>5 DEF Encrypted
  <2>2. whats \in Seq(Texts) /\ Len(whats) = 2 /\ \A i \in DOMAIN whats : whats[i] \in {t, u}
    BY <1>5, Pair
  <2> QED BY <2>1, <2>2
<1>6. ASSUME NEW t \in Texts \ Faults, NEW u \in Texts \ Faults, NEW w \in Texts \ Faults,
             whats = <<t, u, w>>, job.kind # "info"
      PROVE  /\ whats \in Seq(Texts) /\ Len(whats) = 3
             /\ \A i \in DOMAIN whats : Encrypted(whats[i])
  <2>1. Encrypted(t) /\ Encrypted(u) /\ Encrypted(w)
    BY <1>6 DEF Encrypted
  <2>2. whats \in Seq(Texts) /\ Len(whats) = 3 /\ \A i \in DOMAIN whats : whats[i] \in {t, u, w}
    BY <1>6, Triple
  <2> QED BY <2>1, <2>2
<1> QED BY <1>3, <1>4, <1>5, <1>6

\* The messages of an answer.
Messages(copy, whats) ==
  {[attempt |-> copy.attempt, tx |-> copy.tx, seq |-> i, what |-> whats[i]] : i \in DOMAIN whats}

LEMMA MessageFields ==
  ASSUME NEW copy \in Requests, NEW whats \in Seq(Texts), Len(whats) \in {1, 2, 3},
         Len(whats) = 1 \/ \A i \in DOMAIN whats : Encrypted(whats[i]),
         NEW r \in Messages(copy, whats)
  PROVE  /\ r \in Replies /\ r.seq \in {1, 2, 3} /\ RequestOf(r) = copy
         /\ r.attempt = copy.attempt /\ r.tx = copy.tx
         /\ ~Encrypted(r.what) => Len(whats) = 1
         /\ \A q \in Messages(copy, whats) : Encrypted(r.what) <=> Encrypted(q.what)
<1> DEFINE m(i) == [attempt |-> copy.attempt, tx |-> copy.tx, seq |-> i, what |-> whats[i]]
<1>1. \A i \in DOMAIN whats : i \in {1, 2, 3} /\ whats[i] \in Texts /\ (Len(whats) = 1 => i = 1)
  OBVIOUS
<1>2. \A i \in DOMAIN whats : m(i) \in Replies /\ RequestOf(m(i)) = copy
  BY <1>1 DEF Requests, Replies, RequestOf
<1>3. PICK i \in DOMAIN whats : r = m(i)
  BY DEF Messages
<1>4. ASSUME NEW q \in Messages(copy, whats) PROVE Encrypted(r.what) <=> Encrypted(q.what)
  <2>1. PICK j \in DOMAIN whats : q = m(j)
    BY DEF Messages
  <2>2. r.what = whats[i] /\ q.what = whats[j]
    BY <1>3, <2>1
  <2>3. CASE Len(whats) = 1
    BY <1>1, <2>2, <2>3
  <2>4. CASE \A k \in DOMAIN whats : Encrypted(whats[k])
    BY <2>2, <2>4
  <2> QED BY <2>3, <2>4
<1> QED BY <1>1, <1>2, <1>3, <1>4

\* An answer puts its messages into the response, or behind what the connector holds.
LEMMA ReplyBrings ==
  ASSUME IInv, NEW copy \in Requests, NEW whats \in Seq(Texts), Len(whats) \in {1, 2, 3},
         Len(whats) = 1 \/ \A i \in DOMAIN whats : Encrypted(whats[i]), Reply(copy, whats)
  PROVE  /\ inbox' \in Seq(Replies)
         /\ http' \subseteq http \cup Messages(copy, whats)
         /\ \A i \in DOMAIN inbox' :
              \/ i \in DOMAIN inbox /\ inbox'[i] = inbox[i]
              \/ /\ job.link = "ble" /\ inbox'[i] \in Messages(copy, whats)
                 /\ Len(whats) = 1 => i = Len(inbox) + 1
<1> DEFINE m(i) == [attempt |-> copy.attempt, tx |-> copy.tx, seq |-> i, what |-> whats[i]]
           answer == [i \in DOMAIN whats |-> m(i)]
<1>1. inbox \in Seq(Replies) /\ http \subseteq Replies /\ job.link \in {"ble", "fleet"}
  BY DeliveryAssumption DEF IInv, TypeOK, Jobs
<1>2. \A i \in DOMAIN whats : m(i) \in Messages(copy, whats) /\ m(i) \in Replies
  <2>1. \A i \in DOMAIN whats : m(i) \in Messages(copy, whats)
    BY DEF Messages
  <2> QED BY <2>1, MessageFields
<1>3. DOMAIN whats = 1 .. Len(whats) /\ Len(whats) \in DOMAIN whats
  OBVIOUS
<1>4. CASE job.link = "fleet"
  <2>1. inbox' = inbox /\ http' = http \cup {m(Len(whats))}
    BY <1>4 DEF Reply
  <2> QED BY <1>1, <1>2, <1>3, <2>1
<1>5. CASE job.link = "ble"
  <2>1. inbox' = inbox \o answer /\ http' = http
    BY <1>5 DEF Reply
  <2>2. answer \in Seq(Replies) /\ Len(answer) = Len(whats)
        /\ \A i \in 1 .. Len(whats) : answer[i] \in Messages(copy, whats)
    <3>1. answer \in [1 .. Len(whats) -> Replies]
      BY <1>2, <1>3
    <3> QED BY <1>2, <1>3, <3>1
  <2> HIDE DEF answer
  <2>3. /\ inbox \o answer \in Seq(Replies) /\ Len(inbox \o answer) = Len(inbox) + Len(answer)
        /\ \A i \in 1 .. Len(inbox) + Len(answer) :
             (inbox \o answer)[i] = IF i <= Len(inbox) THEN inbox[i] ELSE answer[i - Len(inbox)]
    <3>1. answer \in Seq(Replies) /\ inbox \in Seq(Replies)
      BY <1>1, <2>2
    <3> QED BY <3>1, ConcatProperties
  <2>4. ASSUME NEW i \in DOMAIN inbox'
        PROVE  \/ i \in DOMAIN inbox /\ inbox'[i] = inbox[i]
               \/ /\ inbox'[i] \in Messages(copy, whats)
                  /\ Len(whats) = 1 => i = Len(inbox) + 1
    <3>1. i \in 1 .. Len(inbox) + Len(whats) /\ Len(inbox) \in Nat
      BY <1>1, <2>1, <2>2, <2>3
    <3>2. CASE i <= Len(inbox)
      BY <1>1, <2>1, <2>2, <2>3, <3>1, <3>2
    <3>3. CASE ~(i <= Len(inbox))
      <4>1. i - Len(inbox) \in 1 .. Len(whats)
        BY <3>1, <3>3
      <4> QED BY <2>1, <2>2, <2>3, <3>1, <3>3, <4>1
    <3> QED BY <3>2, <3>3
  <2> QED BY <1>5, <2>1, <2>3, <2>4
<1> QED BY <1>1, <1>4, <1>5

LEMMA QueueTypes ==
  ASSUME IInv, QueueInv
  PROVE  /\ inbox \in Seq(Replies) /\ queue \in Seq(Replies) /\ Underway \subseteq Replies
         /\ attempt \in Nat /\ tx \in Nat /\ job \in Jobs
         /\ repeats \in Nat /\ repeats <= MaxRepeats /\ MaxRepeats \in Nat
         /\ Listened \subseteq Underway
BY DeliveryAssumption DEF IInv, TypeOK, QueueInv, Listened, Underway, Members

\* No message comes and none is put into the queue.
LEMMA QueueShrinks ==
  ASSUME IInv, QueueInv, UNCHANGED <<job, attempt, http, repeats, dropped>>,
         inbox' = inbox \/ (inbox # <<>> /\ inbox' = Tail(inbox)),
         \/ UNCHANGED <<queue, heard>>
         \/ queue # <<>> /\ queue' = Tail(queue) /\ UNCHANGED heard
         \/ queue' = <<>>
  PROVE  QueueInv'
<1>1. inbox \in Seq(Replies) /\ queue \in Seq(Replies) /\ repeats \in Nat
  BY QueueTypes
<1>2. /\ inbox' \in Seq(Replies) /\ Members(inbox') \subseteq Members(inbox)
      /\ queue' \in Seq(Replies) /\ Members(queue') \subseteq Members(queue)
      /\ Len(queue') \in Nat /\ Len(queue) \in Nat /\ Len(queue') <= Len(queue)
  <2>1. inbox' \in Seq(Replies) /\ Members(inbox') \subseteq Members(inbox)
    BY <1>1, MembersTail
  <2>2. queue' \in Seq(Replies) /\ Members(queue') \subseteq Members(queue)
    <3>1. CASE queue' = <<>>
      BY <3>1, MembersEmpty
    <3>2. CASE queue # <<>> /\ queue' = Tail(queue)
      BY <1>1, <3>2, MembersTail
    <3>3. CASE UNCHANGED queue
      BY <1>1, <3>3
    <3> QED BY <3>1, <3>2, <3>3
  <2>3. Len(queue') \in Nat /\ Len(queue) \in Nat /\ Len(queue') <= Len(queue)
    BY <1>1
  <2> QED BY <2>1, <2>2, <2>3
<1>3. Underway' \subseteq Underway /\ Listened' \subseteq Listened /\ PlainReplies' = PlainReplies
  BY <1>2 DEF Underway, Listened, PlainReplies, Encrypted
<1>4. OneAnswer'
  BY <1>3 DEF QueueInv, OneAnswer, RequestOf, Encrypted
<1>5. QueueHeard'
  <2>1. CASE UNCHANGED <<queue, heard>>
    BY <2>1 DEF QueueInv, QueueHeard, Encrypted
  <2>2. CASE queue # <<>> /\ queue' = Tail(queue) /\ UNCHANGED heard
    <3>1. \A i \in DOMAIN queue' : i \in Nat /\ i + 1 \in DOMAIN queue /\ queue'[i] = queue[i + 1]
      BY <1>1, <2>2
    <3>2. \A i, j \in DOMAIN queue' : i + 1 = j + 1 => i = j
      BY <3>1
    <3> QED BY <2>2, <3>1, <3>2 DEF QueueInv, QueueHeard, Encrypted
  <2>3. CASE queue' = <<>>
    BY <2>3 DEF QueueHeard
  <2> QED BY <2>1, <2>2, <2>3
<1>6. Count(inbox', PlainReplies) <= Count(inbox, PlainReplies)
      /\ Count(inbox', PlainReplies) \in Nat /\ Count(inbox, PlainReplies) \in Nat
  <2>1. Count(inbox', PlainReplies) \in Nat /\ Count(inbox, PlainReplies) \in Nat
    BY <1>1, <1>2, PositionsFinite
  <2>2. CASE inbox' = inbox
    BY <2>1, <2>2
  <2>3. CASE inbox # <<>> /\ inbox' = Tail(inbox)
    BY <1>1, <2>1, <2>3, CountTail
  <2> QED BY <2>1, <2>2, <2>3
<1>7. PlainBudget'
  <2> SUFFICES ASSUME Listened \cap PlainReplies # {}
               PROVE  Count(inbox', PlainReplies) + Len(queue') <= 1 + repeats
    BY <1>3 DEF PlainBudget
  <2>1. Count(inbox, PlainReplies) + Len(queue) <= 1 + repeats
    BY DEF QueueInv, PlainBudget
  <2> QED BY <1>1, <1>2, <1>6, <2>1
<1> QED BY <1>4, <1>5, <1>7 DEF QueueInv, NoReplyDropped

\* While the current attempt transmits, or its request has not reached the vehicle,
\* there is no reply to it.
LEMMA NothingHeard ==
  ASSUME IInv, \/ pc \in {"transmit", "exchange", "pause"}
               \/ [attempt |-> attempt, tx |-> tx] \in wire
  PROVE  queue = <<>> /\ \A r \in Members(inbox) : r.attempt # attempt
<1>1. \A r \in Listened : r.attempt # attempt
  <2> SUFFICES ASSUME NEW r \in Listened, r.attempt = attempt PROVE FALSE
    OBVIOUS
  <2>1. r.tx = tx /\ pc \notin {"transmit", "exchange", "pause"}
    BY DEF Listened, IInv, RepliesCurrent
  <2>2. RequestOf(r) \notin wire
    BY DEF Listened, Underway, IInv, RepliesTrue
  <2> QED BY <2>1, <2>2 DEF RequestOf
<1>2. Members(queue) = {}
  BY <1>1 DEF Listened, IInv, RepliesCurrent
<1>3. queue \in Seq(Replies)
  BY DEF IInv, TypeOK
<1>4. queue = <<>>
  <2>1. DOMAIN queue = {}
    BY <1>2 DEF Members
  <2> QED BY <1>3, <2>1
<1> QED BY <1>1, <1>4 DEF Listened

LEMMA SignQueue == IInv /\ QueueInv /\ Sign => QueueInv'
<1> SUFFICES ASSUME IInv, QueueInv, Sign PROVE QueueInv'
  OBVIOUS
<1>1. /\ attempt' = attempt + 1 /\ queue' = <<>>
      /\ UNCHANGED <<job, http, inbox, repeats, dropped>>
  BY DEF Sign, CloseHandler, network
<1>2. Underway' \subseteq Underway /\ Listened' \subseteq Underway /\ DOMAIN queue' = {}
  BY <1>1, MembersEmpty DEF Underway, Listened
<1>3. OneAnswer'
  BY <1>1, <1>2 DEF QueueInv, OneAnswer, RequestOf, Encrypted
<1>4. \A r \in Underway : r.attempt # attempt'
  <2>1. \A r \in Underway : r.attempt \in Nat /\ r.attempt <= attempt
    BY QueueTypes DEF Replies, IInv, RepliesTrue
  <2>2. attempt \in Nat
    BY QueueTypes
  <2> QED BY <1>1, <2>1, <2>2
<1>5. PlainBudget' /\ QueueHeard'
  BY <1>2, <1>4 DEF PlainBudget, PlainReplies, QueueHeard
<1> QED BY <1>1, <1>3, <1>5 DEF QueueInv, NoReplyDropped

\* The vehicle's answer is the only one to the request.
LEMMA AnswerQueue ==
  ASSUME IInv, QueueInv, NEW copy \in wire, NEW whats \in Answers, Reply(copy, whats),
         UNCHANGED <<job, attempt, queue, heard, repeats, dropped>>
  PROVE  QueueInv'
<1> DEFINE New == Messages(copy, whats)
<1>1. /\ inbox \in Seq(Replies) /\ queue \in Seq(Replies) /\ repeats \in Nat /\ job \in Jobs
      /\ copy \in Requests
  BY QueueTypes DEF IInv, TypeOK
<1>2. /\ whats \in Seq(Texts) /\ Len(whats) \in {1, 2, 3}
      /\ Len(whats) = 1 \/ \A i \in DOMAIN whats : Encrypted(whats[i])
  BY <1>1, AnswerShape
<1>3. /\ inbox' \in Seq(Replies) /\ http' \subseteq http \cup New
      /\ \A i \in DOMAIN inbox' :
           \/ i \in DOMAIN inbox /\ inbox'[i] = inbox[i]
           \/ /\ job.link = "ble" /\ inbox'[i] \in New
              /\ Len(whats) = 1 => i = Len(inbox) + 1
  BY <1>1, <1>2, ReplyBrings
<1>4. \A r \in New : /\ r \in Replies /\ r.seq \in {1, 2, 3} /\ RequestOf(r) = copy
                     /\ r.attempt = copy.attempt
                     /\ ~Encrypted(r.what) => Len(whats) = 1
                     /\ \A q \in New : Encrypted(r.what) <=> Encrypted(q.what)
  BY <1>1, <1>2, MessageFields
<1> HIDE DEF New
<1>5. Members(inbox') \subseteq Members(inbox) \cup New /\ Underway' \subseteq Underway \cup New
  BY <1>3 DEF Members, Underway
<1>6. PlainReplies' = PlainReplies /\ \A t : Encrypted(t)' = Encrypted(t)
  BY DEF PlainReplies, Encrypted
<1>7. \A r \in Underway : RequestOf(r) # copy
  BY DEF IInv, RepliesTrue
<1>8. OneAnswer'
  <2>1. ASSUME NEW r \in Underway \cup New
        PROVE  /\ r.seq \in {1, 2, 3}
               /\ \A q \in Underway \cup New :
                    RequestOf(r) = RequestOf(q) => (Encrypted(r.what) <=> Encrypted(q.what))
    BY <1>4, <1>7 DEF QueueInv, OneAnswer
  <2> QED BY <1>5, <1>6, <2>1 DEF OneAnswer, RequestOf, Encrypted
<1>9. QueueHeard'
  BY DEF QueueInv, QueueHeard, Encrypted
<1>10. PlainBudget'
  <2>1. CASE job.link = "ble" /\ copy.attempt = attempt
    <3>1. queue = <<>> /\ \A r \in Members(inbox) : r.attempt # attempt
      <4>1. copy.tx = tx
        BY <2>1 DEF IInv, RepliesCurrent
      <4>2. copy = [attempt |-> attempt, tx |-> tx]
        BY <1>1, <2>1, <4>1 DEF Requests
      <4> QED BY <4>2, NothingHeard
    <3>2. ASSUME Listened' \cap PlainReplies # {}
          PROVE  Positions(inbox', PlainReplies) \subseteq {Len(inbox) + 1}
      <4>1. PICK r \in Listened' : r \in PlainReplies
        BY <3>2
      <4>2. r \in New /\ ~Encrypted(r.what)
        BY <1>5, <3>1, <4>1, MembersEmpty DEF Listened, PlainReplies
      <4>3. Len(whats) = 1
        BY <1>4, <4>2
      <4>4. \A i \in DOMAIN inbox' : i # Len(inbox) + 1 => inbox'[i] \in Members(inbox)
        BY <1>3, <4>3 DEF Members
      <4> QED BY <3>1, <4>4 DEF Positions, PlainReplies
    <3>3. ASSUME Listened' \cap PlainReplies # {}
          PROVE  Count(inbox', PlainReplies) <= 1
      BY <1>3, <3>2, <3>3, OnePosition
    <3>4. Count(inbox', PlainReplies) \in Nat /\ Len(queue) = 0
      BY <1>3, <3>1, PositionsFinite
    <3> QED BY <1>1, <1>6, <3>3, <3>4 DEF PlainBudget
  <2>2. CASE ~(job.link = "ble" /\ copy.attempt = attempt)
    <3>1. \A i \in DOMAIN inbox' : inbox'[i] \in PlainReplies =>
            i \in DOMAIN inbox /\ inbox'[i] = inbox[i]
      BY <1>3, <1>4, <2>2 DEF PlainReplies
    <3>2. Positions(inbox', PlainReplies) \subseteq Positions(inbox, PlainReplies)
      BY <3>1 DEF Positions
    <3>3. Listened' \cap PlainReplies \subseteq Listened \cap PlainReplies
      BY <3>1 DEF Listened, Members
    <3>4. Count(inbox', PlainReplies) <= Count(inbox, PlainReplies)
      BY <1>1, <1>3, <3>2, FewerPositions
    <3>5. Count(inbox', PlainReplies) \in Nat /\ Count(inbox, PlainReplies) \in Nat
      BY <1>1, <1>3, PositionsFinite
    <3>7. Len(queue) \in Nat
      BY <1>1
    <3>6. ASSUME Listened' \cap PlainReplies # {}
          PROVE  Count(inbox, PlainReplies) + Len(queue) <= 1 + repeats
      BY <3>3, <3>6 DEF QueueInv, PlainBudget
    <3> QED BY <1>1, <1>6, <3>4, <3>5, <3>6, <3>7 DEF PlainBudget
  <2> QED BY <2>1, <2>2
<1> QED BY <1>8, <1>9, <1>10 DEF QueueInv, NoReplyDropped

LEMMA TakeQueue ==
  ASSUME IInv, QueueInv, NEW copy \in wire, Take(copy)
  PROVE  QueueInv'
<1>1. UNCHANGED <<job, attempt, queue, heard, repeats, dropped>>
  BY DEF Take, caller
<1>2. \E whats \in Answers : Reply(copy, whats)
  BY DEF Take, Execute, Refuse, RefuseReplay, Answers
<1> QED BY <1>1, <1>2, AnswerQueue

\* The response to the last transmission is the first reply to the attempt.
LEMMA ExchangeQueue == IInv /\ QueueInv /\ Exchange => QueueInv'
<1> SUFFICES ASSUME IInv, QueueInv, Exchange PROVE QueueInv'
  OBVIOUS
<1>1. PICK r \in http :
        /\ pc = "exchange" /\ inbox' = Append(inbox, r) /\ http' = http \ {r}
        /\ UNCHANGED <<job, attempt, queue, heard, repeats, dropped>>
  BY DEF Exchange, Goto
<1>2. /\ inbox \in Seq(Replies) /\ repeats \in Nat /\ r \in Replies /\ r \in Underway
  BY <1>1, QueueTypes DEF IInv, TypeOK, Underway
<1>3. inbox' \in Seq(Replies) /\ Members(inbox') = Members(inbox) \cup {r}
  BY <1>1, <1>2, MembersAppend
<1>4. Underway' \subseteq Underway
  BY <1>1, <1>2, <1>3 DEF Underway
<1>5. OneAnswer' /\ QueueHeard'
  BY <1>1, <1>4 DEF QueueInv, OneAnswer, QueueHeard, RequestOf, Encrypted
<1>6. queue = <<>> /\ \A q \in Members(inbox) : q.attempt # attempt
  BY <1>1, NothingHeard
<1>7. PlainReplies' = PlainReplies
  BY <1>1 DEF PlainReplies, Encrypted
<1>8. Positions(inbox', PlainReplies) \subseteq {Len(inbox) + 1}
  <2>1. \A i \in DOMAIN inbox' : i # Len(inbox) + 1 => inbox'[i] \in Members(inbox)
    BY <1>1, <1>2 DEF Members
  <2> QED BY <1>6, <2>1 DEF Positions, PlainReplies
<1>9. Count(inbox', PlainReplies) <= 1 /\ Count(inbox', PlainReplies) \in Nat
  BY <1>3, <1>8, OnePosition, PositionsFinite
<1>10. PlainBudget'
  BY <1>1, <1>2, <1>6, <1>7, <1>9 DEF PlainBudget
<1> QED BY <1>1, <1>5, <1>10 DEF QueueInv, NoReplyDropped

LEMMA RepeatQueue == IInv /\ QueueInv /\ Repeat => QueueInv'
<1> SUFFICES ASSUME IInv, QueueInv, Repeat PROVE QueueInv'
  OBVIOUS
<1>1. /\ inbox # <<>> /\ repeats < MaxRepeats
      /\ inbox' = Append(inbox, Head(inbox)) /\ repeats' = repeats + 1
      /\ UNCHANGED <<job, attempt, http, queue, heard, dropped>>
  BY DEF Repeat, caller
<1>2. /\ inbox \in Seq(Replies) /\ queue \in Seq(Replies) /\ repeats \in Nat /\ MaxRepeats \in Nat
      /\ Len(queue) \in Nat
  BY QueueTypes
<1>3. Head(inbox) \in Replies /\ Head(inbox) \in Members(inbox)
  BY <1>1, <1>2, MembersTail
<1>4. inbox' \in Seq(Replies) /\ Members(inbox') = Members(inbox)
  <2>1. /\ Append(inbox, Head(inbox)) \in Seq(Replies)
        /\ Members(Append(inbox, Head(inbox))) = Members(inbox) \cup {Head(inbox)}
    BY <1>2, <1>3, MembersAppend
  <2> QED BY <1>1, <1>3, <2>1
<1>5. Underway' = Underway /\ Listened' = Listened /\ PlainReplies' = PlainReplies
  BY <1>1, <1>4 DEF Underway, Listened, PlainReplies, Encrypted
<1>6. OneAnswer' /\ QueueHeard'
  BY <1>1, <1>5 DEF QueueInv, OneAnswer, QueueHeard, RequestOf, Encrypted
<1>7. /\ Count(inbox', PlainReplies) <= Count(inbox, PlainReplies) + 1
      /\ Count(inbox', PlainReplies) \in Nat /\ Count(inbox, PlainReplies) \in Nat
  BY <1>1, <1>2, <1>3, <1>4, CountAppend, PositionsFinite
<1>8. PlainBudget'
  BY <1>1, <1>2, <1>5, <1>7 DEF QueueInv, PlainBudget
<1>9. repeats' \in 0 .. MaxRepeats
  BY <1>1, <1>2
<1> QED BY <1>1, <1>6, <1>8, <1>9 DEF QueueInv, NoReplyDropped

\* The listener puts a reply into the handler's queue.
LEMMA RoutedQueue ==
  ASSUME 3 <= QueueSize, MaxRepeats < QueueSize,
         IInv, QueueInv, Route, HasHandler(Head(inbox)), ~Replayed(Head(inbox))
  PROVE  QueueInv'
<1> DEFINE r == Head(inbox)
<1>1. /\ inbox # <<>> /\ inbox' = Tail(inbox)
      /\ heard' = heard \cup {<<r.tx, r.seq>>}
      /\ IF Len(queue) < QueueSize
           THEN queue' = Append(queue, r) /\ UNCHANGED dropped
           ELSE dropped' = TRUE /\ UNCHANGED queue
      /\ UNCHANGED <<job, attempt, http, repeats>>
  BY DEF Route
<1>2. /\ inbox \in Seq(Replies) /\ queue \in Seq(Replies) /\ Len(queue) \in Nat
      /\ repeats \in Nat /\ repeats <= MaxRepeats /\ MaxRepeats \in Nat /\ QueueSize \in Nat
  BY QueueTypes, DeliveryAssumption
<1>3. /\ inbox' \in Seq(Replies) /\ Members(inbox') \subseteq Members(inbox)
      /\ r \in Members(inbox) /\ r \in Replies /\ r \in Listened
  BY <1>1, <1>2, MembersTail DEF Listened
<1>4. r.attempt = attempt
  BY DEF HasHandler
<1> HIDE DEF r
<1>5. ASSUME NEW q \in Listened, q.attempt = attempt
      PROVE  /\ q.tx = tx /\ q.seq \in {1, 2, 3}
             /\ Encrypted(q.what) <=> Encrypted(r.what)
  <2>1. q.tx = tx /\ r.tx = tx
    BY <1>3, <1>4, <1>5 DEF Listened, IInv, RepliesCurrent
  <2>2. RequestOf(q) = RequestOf(r)
    BY <1>4, <1>5, <2>1 DEF RequestOf
  <2>3. q \in Underway /\ r \in Underway
    BY <1>3, QueueTypes
  <2> QED BY <2>1, <2>2, <2>3 DEF QueueInv, OneAnswer
<1>6. \A i \in DOMAIN queue : queue[i] \in Listened /\ queue[i].attempt = attempt
  BY DEF Listened, Members, IInv, RepliesCurrent
<1>7. PlainReplies' = PlainReplies
  BY <1>1 DEF PlainReplies, Encrypted
<1>8. Encrypted(r.what) => <<r.tx, r.seq>> \notin heard
  BY DEF Replayed, r
<1>9. Len(queue) < QueueSize
  <2>1. CASE Encrypted(r.what)
    <3> SUFFICES ASSUME Len(queue) >= 3 PROVE FALSE
      BY <1>2
    <3>1. 1 \in DOMAIN queue /\ 2 \in DOMAIN queue /\ 3 \in DOMAIN queue
      BY <1>2
    <3>2. /\ r.tx = tx /\ r.seq \in {1, 2, 3}
          /\ \A i \in {1, 2, 3} : /\ queue[i].tx = tx /\ queue[i].seq \in {1, 2, 3}
                                 /\ Encrypted(queue[i].what)
      BY <1>3, <1>4, <1>5, <1>6, <2>1, <3>1
    <3>3. /\ queue[1].seq # queue[2].seq /\ queue[1].seq # queue[3].seq
          /\ queue[2].seq # queue[3].seq
      BY <3>1, <3>2 DEF QueueInv, QueueHeard
    <3>4. \A i \in {1, 2, 3} : queue[i].seq # r.seq
      BY <1>8, <2>1, <3>1, <3>2 DEF QueueInv, QueueHeard
    <3> QED BY <3>2, <3>3, <3>4
  <2>2. CASE ~Encrypted(r.what)
    <3>1. r \in PlainReplies
      BY <1>3, <1>4, <2>2 DEF PlainReplies
    <3>2. Count(inbox, PlainReplies) + Len(queue) <= 1 + repeats
      BY <1>3, <3>1 DEF QueueInv, PlainBudget
    <3>3. /\ Count(Tail(inbox), PlainReplies) + 1 <= Count(inbox, PlainReplies)
          /\ Count(Tail(inbox), PlainReplies) \in Nat /\ Count(inbox, PlainReplies) \in Nat
      BY <1>1, <1>2, <1>3, <3>1, CountTail, PositionsFinite DEF r
    <3> QED BY <1>2, <3>2, <3>3
  <2> QED BY <2>1, <2>2
<1>10. /\ queue' = Append(queue, r) /\ queue' \in Seq(Replies) /\ Len(queue') = Len(queue) + 1
       /\ Members(queue') = Members(queue) \cup {r} /\ UNCHANGED dropped
  <2>1. queue' = Append(queue, r) /\ UNCHANGED dropped
    BY <1>1, <1>9
  <2>2. Append(queue, r) \in Seq(Replies) /\ Members(Append(queue, r)) = Members(queue) \cup {r}
    BY <1>2, <1>3, MembersAppend
  <2> QED BY <1>2, <1>3, <2>1, <2>2
<1>11. Underway' \subseteq Underway /\ Listened' \subseteq Listened
  BY <1>1, <1>3, <1>10 DEF Underway, Listened
<1>12. OneAnswer'
  BY <1>1, <1>11 DEF QueueInv, OneAnswer, RequestOf, Encrypted
<1>13. QueueHeard'
  <2>1. \A i \in DOMAIN queue' : \/ i \in DOMAIN queue /\ queue'[i] = queue[i]
                                 \/ i = Len(queue) + 1 /\ queue'[i] = r
    BY <1>2, <1>3, <1>10
  <2>2. ASSUME NEW i \in DOMAIN queue'
        PROVE  <<queue'[i].tx, queue'[i].seq>> \in heard'
    BY <1>1, <2>1, <2>2 DEF QueueInv, QueueHeard
  <2>3. ASSUME NEW i \in DOMAIN queue, Encrypted(r.what)
        PROVE  ~(queue[i].tx = r.tx /\ queue[i].seq = r.seq)
    BY <1>8, <2>3 DEF QueueInv, QueueHeard
  <2>4. \A i \in DOMAIN queue : Encrypted(queue[i].what) => Encrypted(r.what)
    BY <1>5, <1>6
  <2>5. ASSUME NEW i \in DOMAIN queue', NEW j \in DOMAIN queue', Encrypted(queue'[i].what),
               queue'[i].tx = queue'[j].tx, queue'[i].seq = queue'[j].seq
        PROVE  i = j
    <3>1. CASE /\ queue'[i] = queue[i] /\ i \in DOMAIN queue
               /\ queue'[j] = queue[j] /\ j \in DOMAIN queue
      BY <2>5, <3>1 DEF QueueInv, QueueHeard
    <3>2. CASE queue'[i] = queue[i] /\ i \in DOMAIN queue /\ j = Len(queue) + 1 /\ queue'[j] = r
      BY <2>3, <2>4, <2>5, <3>2
    <3>3. CASE i = Len(queue) + 1 /\ queue'[i] = r /\ queue'[j] = queue[j] /\ j \in DOMAIN queue
      BY <2>3, <2>5, <3>3
    <3>4. CASE i = Len(queue) + 1 /\ j = Len(queue) + 1
      BY <3>4
    <3> QED BY <2>1, <3>1, <3>2, <3>3, <3>4
  <2>6. \A t : Encrypted(t)' <=> Encrypted(t)
    BY <1>1 DEF Encrypted
  <2> QED BY <1>1, <2>2, <2>5 DEF QueueHeard, Encrypted
<1>14. PlainBudget'
  <2> SUFFICES ASSUME Listened' \cap PlainReplies # {}
               PROVE  Count(inbox', PlainReplies) + Len(queue') <= 1 + repeats
    BY <1>1, <1>7 DEF PlainBudget
  <2>1. PICK q \in Listened' : q \in PlainReplies
    OBVIOUS
  <2>2. q \in Listened /\ q.attempt = attempt /\ ~Encrypted(q.what)
    BY <1>11, <2>1 DEF PlainReplies
  <2>3. r \in PlainReplies
    BY <1>3, <1>4, <1>5, <2>2 DEF PlainReplies
  <2>4. Count(inbox, PlainReplies) + Len(queue) <= 1 + repeats
    BY <1>3, <2>3 DEF QueueInv, PlainBudget
  <2>5. /\ Count(Tail(inbox), PlainReplies) + 1 <= Count(inbox, PlainReplies)
        /\ Count(Tail(inbox), PlainReplies) \in Nat /\ Count(inbox, PlainReplies) \in Nat
    BY <1>1, <1>2, <1>3, <2>3, CountTail, PositionsFinite DEF r
  <2> QED BY <1>1, <1>2, <1>10, <2>4, <2>5
<1> QED BY <1>1, <1>10, <1>12, <1>13, <1>14 DEF QueueInv, NoReplyDropped

LEMMA StepQueueInv ==
  ASSUME 3 <= QueueSize, MaxRepeats < QueueSize, IInv, QueueInv, [Next]_vars
  PROVE  QueueInv'
<1>1. CASE \/ SignOver \/ Write \/ WriteFails \/ Post \/ Retransmit \/ PauseOver
           \/ AwaitOver \/ Again \/ BackoffOver \/ EndContext \/ UNCHANGED vars
  <2>1. UNCHANGED <<job, attempt, http, repeats, dropped, inbox>>
    BY <1>1 DEF SignOver, Write, WriteFails, Post, Retransmit, PauseOver, AwaitOver, Again,
                BackoffOver, EndContext, vars, caller, network
  <2>2. UNCHANGED <<queue, heard>> \/ queue' = <<>>
    BY <1>1 DEF SignOver, Write, WriteFails, Post, Retransmit, PauseOver, AwaitOver, Again,
                BackoffOver, EndContext, vars, caller, Fail, CloseHandler
  <2> QED BY <2>1, <2>2, QueueShrinks
<1>2. ASSUME NEW o \in Outcomes, ExchangeFails(o) PROVE QueueInv'
  <2>1. UNCHANGED <<job, attempt, http, repeats, dropped, inbox>>
    BY <1>2 DEF ExchangeFails
  <2>2. UNCHANGED <<queue, heard>> \/ queue' = <<>>
    BY <1>2 DEF ExchangeFails, Fail, CloseHandler
  <2> QED BY <2>1, <2>2, QueueShrinks
<1>3. CASE TakeReply
  <2>1. UNCHANGED <<job, attempt, http, repeats, dropped, inbox>>
    BY <1>3 DEF TakeReply, network
  <2>2. (queue # <<>> /\ queue' = Tail(queue) /\ UNCHANGED heard) \/ queue' = <<>>
    BY <1>3 DEF TakeReply, Fail, CloseHandler
  <2> QED BY <2>1, <2>2, QueueShrinks
<1>4. CASE Lose
  BY <1>4, QueueShrinks DEF Lose, caller
<1>5. CASE Route
  <2>1. CASE HasHandler(Head(inbox)) /\ ~Replayed(Head(inbox))
    BY <1>5, <2>1, RoutedQueue
  <2>2. CASE ~(HasHandler(Head(inbox)) /\ ~Replayed(Head(inbox)))
    BY <1>5, <2>2, QueueShrinks DEF Route
  <2> QED BY <2>1, <2>2
<1>6. ASSUME NEW copy \in wire, Take(copy) PROVE QueueInv'
  BY <1>6, TakeQueue
<1> QED BY <1>1, <1>2, <1>3, <1>4, <1>5, <1>6, SignQueue, ExchangeQueue, RepeatQueue
        DEF Next, Caller

(***************************************************************************)
(* A handler's queue that holds three messages, and one more than the      *)
(* network repeats, never drops a reply to its attempt, however many       *)
(* attempts and transmissions there are: encrypted replies are taken once, *)
(* and a reply in plaintext is the only one to its attempt.  The code's    *)
(* queue of 10 (receiverBufferSize) bears nine repetitions.                *)
(***************************************************************************)
THEOREM QueueSuffices ==
  ASSUME 3 <= QueueSize, MaxRepeats < QueueSize
  PROVE  Spec => []NoReplyDropped
<1>1. IInv /\ QueueInv /\ [Next]_vars => QueueInv'
  BY StepQueueInv
<1>2. QueueInv => NoReplyDropped
  BY DEF QueueInv
<1> QED BY <1>1, <1>2, InitQueueInv, Invariance, PTL DEF Spec
-----------------------------------------------------------------------------
(* The messages that arrive over Bluetooth.                                 *)

\* A byte of a frame; the first two tell the length of the payload.
Bytes ==
  {b \in [val : 0 .. Base - 1, msg : Nat, place : Nat \ {0}, size : Nat] :
     /\ b.place <= b.size /\ 2 <= b.size
     /\ b.place = 1 => b.val = (b.size - 2) \div Base
     /\ b.place = 2 => b.val = (b.size - 2) % Base}

BleTypeOK ==
  /\ sent \in Nat /\ faults \in Nat
  /\ air \in Seq(Bytes) /\ inputBuffer \in Seq(Bytes) /\ bleInbox \in Seq(Seq(Bytes))
  /\ flushing \in BOOLEAN /\ inStep \in BOOLEAN /\ overflowed \in BOOLEAN
  /\ due \subseteq Nat
  /\ got \in Seq([head : Bytes, payload : Seq(Bytes)])

\* Where the frame ends that the byte at i belongs to.
End(s, i) == i + s[i].size - s[i].place

(***************************************************************************)
(* Bytes that are the rest of a frame followed by whole frames, in the     *)
(* order of their messages.                                                *)
(***************************************************************************)
Framed(s) ==
  \A i \in DOMAIN s :
    /\ End(s, i) <= Len(s)
    /\ \A k \in i .. End(s, i) : /\ s[k].msg = s[i].msg /\ s[k].size = s[i].size
                                 /\ s[k].place = s[i].place + (k - i)
    /\ \A k \in End(s, i) + 1 .. Len(s) : s[i].msg < s[k].msg
    /\ End(s, i) < Len(s) => s[End(s, i) + 1].place = 1

WholeFrames(s) == Framed(s) /\ (s # <<>> => s[1].place = 1)

Coming == inputBuffer \o air
Heads == {got[i].head.msg : i \in DOMAIN got}

\* Messages are numbered as they are sent.
Numbered ==
  /\ \A i \in DOMAIN Coming : Coming[i].msg <= sent
  /\ \A h \in Heads : h <= sent

\* In step, whole frames are to come, of later messages than those handed on.
InOrder ==
  inStep =>
    /\ WholeFrames(Coming)
    /\ \A h \in Heads, i \in DOMAIN Coming : h < Coming[i].msg

\* What has arrived was handed on or is in the buffer, the latter only while rx works on it.
Arrived ==
  inStep /\ ~overflowed =>
    /\ due = Heads \cup Completed(inputBuffer)
    /\ ~flushing => Completed(inputBuffer) = {}

BleInv ==
  BleTypeOK /\ Framed(air) /\ Numbered /\ InOrder /\ MessagesIntact /\ Arrived /\ BufferBounded

\* What a byte is known to be.
LEMMA ByteFields ==
  ASSUME NEW b \in Bytes
  PROVE  /\ b.val \in 0 .. Base - 1 /\ b.msg \in Nat /\ b.place \in Nat /\ b.size \in Nat
         /\ 1 <= b.place /\ b.place <= b.size /\ 2 <= b.size
         /\ b.place = 1 => b.val = (b.size - 2) \div Base
         /\ b.place = 2 => b.val = (b.size - 2) % Base
BY BleAssumption DEF Bytes

\* What is left of a sequence without its first n elements.
LEMMA RestElements ==
  ASSUME NEW S, NEW s \in Seq(S), NEW n \in 0 .. Len(s)
  PROVE  /\ Rest(s, n) \in Seq(S)
         /\ Len(Rest(s, n)) = Len(s) - n
         /\ \A i \in 1 .. Len(s) - n : Rest(s, n)[i] = s[i + n]
BY DEF Rest

LEMMA PrefixElements ==
  ASSUME NEW S, NEW s \in Seq(S), NEW n \in 0 .. Len(s)
  PROVE  /\ Prefix(s, n) \in Seq(S)
         /\ Len(Prefix(s, n)) = n
         /\ \A i \in 1 .. n : Prefix(s, n)[i] = s[i]
BY DEF Prefix

LEMMA ConcatElements ==
  ASSUME NEW S, NEW s \in Seq(S), NEW t \in Seq(S)
  PROVE  /\ s \o t \in Seq(S)
         /\ Len(s \o t) = Len(s) + Len(t)
         /\ \A i \in 1 .. Len(s) : (s \o t)[i] = s[i]
         /\ \A i \in 1 .. Len(t) : (s \o t)[Len(s) + i] = t[i]
OBVIOUS

\* A frame consists of bytes that tell their message, place and size.
LEMMA FrameBytes ==
  ASSUME NEW m \in Nat, NEW p \in Payloads
  PROVE  /\ Frame(m, p) \in Seq(Bytes)
         /\ Len(Frame(m, p)) = Len(p) + 2
         /\ Len(p) \in Nat
         /\ \A i \in 1 .. Len(p) + 2 : /\ Frame(m, p)[i].msg = m /\ Frame(m, p)[i].place = i
                                       /\ Frame(m, p)[i].size = Len(p) + 2
<1> DEFINE l == Len(p)
           lengths == <<l \div Base, l % Base>>
           values == lengths \o p
<1>1. p \in Seq(0 .. Base - 1) /\ l \in Nat /\ l < Base * Base /\ Base \in Nat \ {0}
  BY BleAssumption
<1>2. l \div Base \in 0 .. Base - 1 /\ l % Base \in 0 .. Base - 1
  <2>1. l = Base * (l \div Base) + (l % Base) /\ l % Base \in 0 .. Base - 1 /\ l \div Base \in Nat
    BY <1>1
  <2>2. l \div Base < Base
    <3>1. ASSUME NEW q \in Nat, q >= Base PROVE Base * q >= Base * Base
      BY <3>1, <1>1
    <3>2. ASSUME l \div Base >= Base PROVE FALSE
      <4> HIDE DEF l
      <4> DEFINE q == l \div Base
      <4>1. Base * q >= Base * Base
        BY <3>1, <3>2, <2>1
      <4>2. l >= Base * q
        BY <2>1, <1>1
      <4> QED BY <4>1, <4>2, <1>1, <2>1
    <3> QED BY <3>2, <2>1, <1>1
  <2> QED BY <2>1, <2>2, <1>1
<1>3. /\ values \in Seq(0 .. Base - 1) /\ Len(values) = l + 2
      /\ values[1] = l \div Base /\ values[2] = l % Base
  <2>1. lengths \in Seq(0 .. Base - 1) /\ Len(lengths) = 2
    BY <1>2
  <2>2. lengths[1] = l \div Base /\ lengths[2] = l % Base
    OBVIOUS
  <2>3. Len(p) = l
    OBVIOUS
  <2> HIDE DEF l, lengths
  <2>4. /\ values \in Seq(0 .. Base - 1)
        /\ Len(values) = Len(lengths) + Len(p)
        /\ \A i \in 1 .. Len(lengths) : values[i] = lengths[i]
    <3>1. p \in Seq(0 .. Base - 1)
      BY <1>1
    <3> QED BY <3>1, <2>1, ConcatElements
  <2>5. 1 \in 1 .. Len(lengths) /\ 2 \in 1 .. Len(lengths) /\ Len(lengths) + l = l + 2
    BY <2>1, <1>1
  <2> QED BY <2>2, <2>3, <2>4, <2>5
<1>4. Frame(m, p) = [i \in 1 .. l + 2 |->
                       [val |-> values[i], msg |-> m, place |-> i, size |-> l + 2]]
  BY <1>3 DEF Frame
<1> HIDE DEF values
<1>5. \A i \in 1 .. l + 2 : [val |-> values[i], msg |-> m, place |-> i, size |-> l + 2] \in Bytes
  <2>1. TAKE i \in 1 .. l + 2
  <2>2. values[i] \in 0 .. Base - 1
    BY <1>3, <1>1
  <2> HIDE DEF l
  <2> QED BY <2>2, <1>1, <1>3 DEF Bytes
<1> HIDE DEF l
<1>6. Frame(m, p) \in Seq(Bytes) /\ Len(Frame(m, p)) = l + 2
  BY <1>4, <1>5, <1>1
<1> QED BY <1>4, <1>6, <1>1 DEF l

\* Whatever is lost or taken from the front of framed bytes, the rest is framed.
LEMMA RestFramed ==
  ASSUME NEW s \in Seq(Bytes), Framed(s), NEW n \in 0 .. Len(s)
  PROVE  Framed(Rest(s, n))
<1> DEFINE r == Rest(s, n)
<1>1. r \in Seq(Bytes) /\ Len(r) = Len(s) - n /\ \A i \in 1 .. Len(s) - n : r[i] = s[i + n]
  BY RestElements
<1> HIDE DEF r
<1>2. SUFFICES ASSUME NEW i \in 1 .. Len(r)
               PROVE  /\ End(r, i) <= Len(r)
                      /\ \A k \in i .. End(r, i) : /\ r[k].msg = r[i].msg /\ r[k].size = r[i].size
                                                   /\ r[k].place = r[i].place + (k - i)
                      /\ \A k \in End(r, i) + 1 .. Len(r) : r[i].msg < r[k].msg
                      /\ End(r, i) < Len(r) => r[End(r, i) + 1].place = 1
  BY <1>1 DEF Framed, r
<1>3. i + n \in DOMAIN s /\ r[i] = s[i + n] /\ s[i + n] \in Bytes
  BY <1>1
<1>4. End(s, i + n) = End(r, i) + n /\ End(r, i) \in Nat /\ End(r, i) >= i
  <2>1. /\ r[i].size \in Nat /\ r[i].place \in Nat /\ r[i].place <= r[i].size
        /\ n \in Nat /\ i \in Nat
    BY <1>3, <1>1, ByteFields
  <2>2. End(s, i + n) = (i + n) + r[i].size - r[i].place /\ End(r, i) = i + r[i].size - r[i].place
    BY <1>3 DEF End
  <2> QED BY <2>1, <2>2
<1>5. End(s, i + n) <= Len(s) /\ End(r, i) <= Len(r)
  <2>1. End(s, i + n) <= Len(s)
    BY <1>3 DEF Framed
  <2> QED BY <2>1, <1>4, <1>1
<1>6. \A k \in i .. Len(r) : k + n \in DOMAIN s /\ r[k] = s[k + n]
  BY <1>1
<1>7. ASSUME NEW k \in i .. End(r, i)
      PROVE  /\ r[k].msg = r[i].msg /\ r[k].size = r[i].size
             /\ r[k].place = r[i].place + (k - i)
  <2>1. k + n \in (i + n) .. End(s, i + n) /\ k \in i .. Len(r)
    BY <1>4, <1>5, <1>1
  <2>2. /\ s[k + n].msg = s[i + n].msg /\ s[k + n].size = s[i + n].size
        /\ s[k + n].place = s[i + n].place + ((k + n) - (i + n))
    BY <2>1, <1>3 DEF Framed
  <2>3. (k + n) - (i + n) = k - i
    BY <2>1, <1>4
  <2> QED BY <2>1, <2>2, <2>3, <1>3, <1>6
<1>8. ASSUME NEW k \in End(r, i) + 1 .. Len(r)
      PROVE  r[i].msg < r[k].msg
  <2>1. k + n \in End(s, i + n) + 1 .. Len(s) /\ k \in i .. Len(r)
    BY <1>4, <1>5, <1>1
  <2> QED BY <2>1, <1>3, <1>6 DEF Framed
<1>9. ASSUME End(r, i) < Len(r) PROVE r[End(r, i) + 1].place = 1
  <2>1. End(s, i + n) < Len(s) /\ End(r, i) + 1 \in i .. Len(r)
    BY <1>9, <1>4, <1>1
  <2>2. s[End(s, i + n) + 1].place = 1
    BY <2>1, <1>3 DEF Framed
  <2>3. End(s, i + n) + 1 = (End(r, i) + 1) + n
    BY <1>4
  <2> QED BY <2>1, <2>2, <2>3, <1>6
<1> QED BY <1>5, <1>7, <1>8, <1>9

\* The vehicle appends a whole frame.
LEMMA FrameAppended ==
  ASSUME NEW s \in Seq(Bytes), Framed(s), NEW m \in Nat, NEW p \in Payloads,
         \A i \in DOMAIN s : s[i].msg < m
  PROVE  /\ Framed(s \o Frame(m, p))
         /\ WholeFrames(s) => WholeFrames(s \o Frame(m, p))
<1> DEFINE f == Frame(m, p)
           t == s \o f
<1>1. /\ f \in Seq(Bytes) /\ Len(f) >= 2
      /\ \A i \in 1 .. Len(f) : f[i].msg = m /\ f[i].place = i /\ f[i].size = Len(f)
  BY FrameBytes
<1> HIDE DEF f
<1>2. /\ t \in Seq(Bytes) /\ Len(t) = Len(s) + Len(f)
      /\ \A i \in 1 .. Len(s) : t[i] = s[i]
      /\ \A i \in Len(s) + 1 .. Len(t) : t[i] = f[i - Len(s)]
  BY <1>1
<1> HIDE DEF t
<1>3. \A i \in Len(s) + 1 .. Len(t) :
        t[i].msg = m /\ t[i].place = i - Len(s) /\ t[i].size = Len(f)
  BY <1>1, <1>2
<1>4. ASSUME NEW i \in 1 .. Len(t)
      PROVE  /\ End(t, i) <= Len(t)
             /\ \A k \in i .. End(t, i) : /\ t[k].msg = t[i].msg /\ t[k].size = t[i].size
                                          /\ t[k].place = t[i].place + (k - i)
             /\ \A k \in End(t, i) + 1 .. Len(t) : t[i].msg < t[k].msg
             /\ End(t, i) < Len(t) => t[End(t, i) + 1].place = 1
  <2>1. CASE i > Len(s)
    <3>1. End(t, i) = Len(t)
      <4>1. t[i].place = i - Len(s) /\ t[i].size = Len(f)
        BY <2>1, <1>3
      <4> QED BY <4>1, <1>2, <1>1 DEF End
    <3>2. \A k \in i .. Len(t) : k \in Len(s) + 1 .. Len(t)
      BY <2>1
    <3>3. \A k \in i .. Len(t) : /\ t[k].msg = t[i].msg /\ t[k].size = t[i].size
                                  /\ t[k].place = t[i].place + (k - i)
      BY <3>2, <1>3, <1>2, <1>1
    <3>4. Len(t) \in Nat
      BY <1>2
    <3> QED BY <3>1, <3>3, <3>4
  <2>2. CASE i <= Len(s)
    <3>1. i \in DOMAIN s /\ t[i] = s[i] /\ End(t, i) = End(s, i) /\ End(s, i) <= Len(s)
      BY <2>2, <1>2 DEF End, Framed
    <3>2. s[i] \in Bytes /\ End(s, i) \in Nat /\ i <= End(s, i)
      BY <3>1, ByteFields DEF End
    <3>3. \A k \in i .. End(s, i) : k \in 1 .. Len(s) /\ t[k] = s[k]
      BY <3>1, <3>2, <1>2
    <3>4. \A k \in i .. End(t, i) : /\ t[k].msg = t[i].msg /\ t[k].size = t[i].size
                                    /\ t[k].place = t[i].place + (k - i)
      BY <3>1, <3>3 DEF Framed
    <3>5. ASSUME NEW k \in End(t, i) + 1 .. Len(t) PROVE t[i].msg < t[k].msg
      <4>1. CASE k <= Len(s)
        <5>1. k \in End(s, i) + 1 .. Len(s) /\ t[k] = s[k]
          BY <4>1, <3>1, <3>2, <1>2
        <5> QED BY <5>1, <3>1 DEF Framed
      <4>2. CASE k > Len(s)
        <5>1. k \in Len(s) + 1 .. Len(t)
          BY <4>2, <3>1, <3>2, <1>2
        <5> QED BY <5>1, <3>1, <1>3
      <4> QED BY <4>1, <4>2, <3>1, <3>2, <1>2
    <3>6. t[End(t, i) + 1].place = 1
      <4>1. CASE End(s, i) < Len(s)
        <5>1. s[End(s, i) + 1].place = 1
          BY <4>1, <3>1 DEF Framed
        <5>2. End(s, i) + 1 \in 1 .. Len(s)
          BY <4>1, <3>1, <3>2
        <5> QED BY <5>1, <5>2, <3>1, <1>2
      <4>2. CASE End(s, i) = Len(s)
        <5>1. Len(s) + 1 \in Len(s) + 1 .. Len(t) /\ (Len(s) + 1) - Len(s) = 1
          BY <1>2, <1>1
        <5>2. t[Len(s) + 1].place = (Len(s) + 1) - Len(s)
          BY <5>1, <1>3
        <5> QED BY <5>1, <5>2, <4>2, <3>1
      <4> QED BY <4>1, <4>2, <3>1, <3>2
    <3> QED BY <3>1, <3>2, <3>4, <3>5, <3>6, <1>2, <1>1
  <2> QED BY <2>1, <2>2, <1>2
<1>5. Framed(t)
  BY <1>4, <1>2 DEF Framed
<1>6. ASSUME WholeFrames(s) PROVE t[1].place = 1
  <2>1. CASE s = <<>>
    BY <2>1, <1>3, <1>2, <1>1
  <2>2. CASE s # <<>>
    <3>1. 1 \in 1 .. Len(s) /\ s[1].place = 1
      BY <2>2, <1>6 DEF WholeFrames
    <3> QED BY <3>1, <1>2
  <2> QED BY <2>1, <2>2
<1> QED BY <1>5, <1>6 DEF WholeFrames, t, f

\* Without its first frame, a sequence of whole frames is one; the others are of later messages.
LEMMA FrameTaken ==
  ASSUME NEW s \in Seq(Bytes), WholeFrames(s), s # <<>>
  PROVE  /\ s[1] \in Bytes /\ s[1].place = 1 /\ s[1].size <= Len(s)
         /\ \A k \in 1 .. s[1].size : s[k].msg = s[1].msg /\ s[k].size = s[1].size /\ s[k].place = k
         /\ \A k \in s[1].size + 1 .. Len(s) : s[1].msg < s[k].msg
         /\ WholeFrames(Rest(s, s[1].size))
<1>1. 1 \in DOMAIN s /\ s[1] \in Bytes /\ s[1].place = 1
  BY DEF WholeFrames
<1>2. End(s, 1) = s[1].size /\ s[1].size \in Nat /\ s[1].size >= 2
  BY <1>1, ByteFields DEF End
<1>3. /\ s[1].size <= Len(s)
      /\ \A k \in 1 .. s[1].size : /\ s[k].msg = s[1].msg /\ s[k].size = s[1].size
                                   /\ s[k].place = s[1].place + (k - 1)
      /\ \A k \in s[1].size + 1 .. Len(s) : s[1].msg < s[k].msg
      /\ s[1].size < Len(s) => s[s[1].size + 1].place = 1
  BY <1>1, <1>2 DEF WholeFrames, Framed
<1>4. \A k \in 1 .. s[1].size : s[k].place = k
  BY <1>1, <1>2, <1>3
<1>5. Framed(Rest(s, s[1].size))
  BY RestFramed, <1>2, <1>3 DEF WholeFrames
<1>6. Rest(s, s[1].size) # <<>> => Rest(s, s[1].size)[1].place = 1
  <2>1. /\ Rest(s, s[1].size) \in Seq(Bytes) /\ Len(Rest(s, s[1].size)) = Len(s) - s[1].size
        /\ \A i \in 1 .. Len(s) - s[1].size : Rest(s, s[1].size)[i] = s[i + s[1].size]
    <3>1. s[1].size \in 0 .. Len(s)
      BY <1>2, <1>3
    <3> QED BY <3>1, RestElements
  <2>2. ASSUME Rest(s, s[1].size) # <<>> PROVE 1 \in 1 .. Len(s) - s[1].size
    BY <2>1, <2>2, <1>2, <1>3
  <2> QED BY <2>1, <2>2, <1>2, <1>3
<1> QED BY <1>1, <1>3, <1>4, <1>5, <1>6 DEF WholeFrames

LEMMA ConcatSplit ==
  ASSUME NEW S, NEW s \in Seq(S), NEW t \in Seq(S), NEW n \in 0 .. Len(t)
  PROVE  /\ (s \o Prefix(t, n)) \o Rest(t, n) = s \o t
         /\ <<>> \o Prefix(t, n) = Prefix(t, n)
         /\ Prefix(t, n) \o Rest(t, n) = t
<1>1. Prefix(t, n) \in Seq(S) /\ Rest(t, n) \in Seq(S)
  BY PrefixElements, RestElements
<1>2. Prefix(t, n) \o Rest(t, n) = t
  <2>1. 1 \in 1 .. Len(t) + 1 /\ n \in 1 - 1 .. Len(t) /\ Len(t) \in n .. Len(t)
    BY LenProperties
  <2>2. SubSeq(t, 1, n) \o SubSeq(t, n + 1, Len(t)) = SubSeq(t, 1, Len(t))
    BY <2>1, ConcatAdjacentSubSeq
  <2> QED BY <2>2, SubSeqFull DEF Prefix, Rest
<1> DEFINE a == Prefix(t, n)
           b == Rest(t, n)
<1>3. (s \o a) \o b = s \o (a \o b)
  <2> HIDE DEF a, b
  <2> QED BY <1>1, ConcatAssociative DEF a, b
<1>4. <<>> \o a = a
  <2> HIDE DEF a
  <2> QED BY <1>1, ConcatEmptySeq DEF a
<1> QED BY <1>2, <1>3, <1>4

LEMMA RestOfConcat ==
  ASSUME NEW S, NEW s \in Seq(S), NEW t \in Seq(S), NEW n \in 0 .. Len(s)
  PROVE  Rest(s, n) \o t = Rest(s \o t, n)
<1> DEFINE a == Prefix(s, n)
           b == Rest(s, n)
<1>1. /\ a \in Seq(S) /\ Len(a) = n /\ b \in Seq(S) /\ a \o b = s
      /\ b \o t \in Seq(S)
  BY PrefixElements, RestElements, ConcatSplit, ConcatProperties
<1> HIDE DEF a, b
<1>2. s \o t = a \o (b \o t)
  <2>1. (a \o b) \o t = a \o (b \o t)
    <3>1. a \in Seq(S) /\ b \in Seq(S)
      BY <1>1
    <3> QED BY <3>1, ConcatAssociative
  <2> QED BY <2>1, <1>1
<1>3. s \o t \in Seq(S) /\ n \in 0 .. Len(s \o t) /\ Len(s \o t) = Len(s) + Len(t)
  BY ConcatProperties
<1>4. /\ Rest(s \o t, n) \in Seq(S) /\ Len(Rest(s \o t, n)) = Len(s \o t) - n
      /\ \A i \in 1 .. Len(s \o t) - n : Rest(s \o t, n)[i] = (s \o t)[i + n]
  BY <1>3, RestElements
<1>5. Len(s \o t) = n + Len(b \o t) /\ Len(b \o t) \in Nat
  <2>1. Len(a \o (b \o t)) = Len(a) + Len(b \o t)
    BY <1>1, ConcatProperties
  <2>2. Len(b \o t) \in Nat
    BY <1>1, LenProperties
  <2> QED BY <2>1, <2>2, <1>1, <1>2
<1>6. ASSUME NEW i \in 1 .. Len(b \o t) PROVE (s \o t)[i + n] = (b \o t)[i]
  <2>1. i + n \in 1 .. Len(a) + Len(b \o t) /\ ~(i + n <= Len(a)) /\ (i + n) - Len(a) = i
    BY <1>1, <1>5
  <2>2. (a \o (b \o t))[i + n] = (b \o t)[(i + n) - Len(a)]
    BY <2>1, <1>1, ConcatProperties
  <2> QED BY <2>1, <2>2, <1>2
<1>7. b \o t = Rest(s \o t, n)
  <2>1. /\ Len(Rest(s \o t, n)) = Len(b \o t)
        /\ \A i \in 1 .. Len(b \o t) : (b \o t)[i] = Rest(s \o t, n)[i]
    <3>1. Len(Rest(s \o t, n)) = Len(b \o t)
      BY <1>1, <1>3, <1>4, <1>5
    <3>2. ASSUME NEW i \in 1 .. Len(b \o t) PROVE (b \o t)[i] = Rest(s \o t, n)[i]
      <4>1. i \in 1 .. Len(s \o t) - n
        BY <1>1, <1>5
      <4> QED BY <4>1, <1>4, <1>6
    <3> QED BY <3>1, <3>2
  <2> QED BY <2>1, <1>1, <1>4, SeqEqual
<1> QED BY <1>7 DEF b

\* The messages that end in a sequence end in one of its parts.
LEMMA CompletedConcat ==
  ASSUME NEW S, NEW s \in Seq(S), NEW t \in Seq(S)
  PROVE  Completed(s \o t) = Completed(s) \cup Completed(t)
<1>1. /\ s \o t \in Seq(S) /\ Len(s \o t) = Len(s) + Len(t)
      /\ \A i \in 1 .. Len(s) : (s \o t)[i] = s[i]
      /\ \A i \in 1 .. Len(t) : (s \o t)[Len(s) + i] = t[i]
  BY ConcatElements
<1> DEFINE st == s \o t
<1> HIDE DEF st
<1>2. ASSUME NEW i \in 1 .. Len(s) + Len(t), st[i].place = st[i].size
      PROVE  st[i].msg \in Completed(s) \cup Completed(t)
  <2>1. CASE i <= Len(s)
    BY <2>1, <1>1, <1>2 DEF Completed, st
  <2>2. CASE i > Len(s)
    <3>1. PICK j \in 1 .. Len(t) : i = Len(s) + j
      <4>1. i - Len(s) \in 1 .. Len(t) /\ i = Len(s) + (i - Len(s))
        BY <2>2
      <4> QED BY <4>1
    <3> QED BY <3>1, <1>1, <1>2 DEF Completed, st
  <2> QED BY <2>1, <2>2
<1>3. ASSUME NEW i \in 1 .. Len(s), s[i].place = s[i].size
      PROVE  s[i].msg \in Completed(st)
  <2>1. i \in DOMAIN st
    BY <1>1 DEF st
  <2>2. st[i] = s[i]
    BY <1>1 DEF st
  <2> QED BY <2>1, <2>2, <1>3 DEF Completed
<1>4. ASSUME NEW i \in 1 .. Len(t), t[i].place = t[i].size
      PROVE  t[i].msg \in Completed(st)
  <2>1. Len(s) + i \in DOMAIN st
    BY <1>1 DEF st
  <2>2. st[Len(s) + i] = t[i]
    BY <1>1 DEF st
  <2> QED BY <2>1, <2>2, <1>4 DEF Completed
<1>5. Completed(st) \subseteq Completed(s) \cup Completed(t)
  BY <1>1, <1>2 DEF Completed, st
<1>6. Completed(s) \subseteq Completed(st) /\ Completed(t) \subseteq Completed(st)
  BY <1>3, <1>4 DEF Completed
<1> QED BY <1>5, <1>6 DEF st

LEMMA DivisionExact ==
  ASSUME NEW n \in Nat, NEW b \in Nat \ {0}
  PROVE  (n \div b) * b + (n % b) = n
OBVIOUS

LEMMA BleTypeCorrect == ASSUME BleTypeOK, [BleNext]_bleVars PROVE BleTypeOK'
<1> USE DEF BleTypeOK
<1>1. ASSUME NEW p \in Payloads, Transmit(p) PROVE BleTypeOK'
  <2>1. air' \in Seq(Bytes)
    <3>1. sent + 1 \in Nat
      OBVIOUS
    <3>2. Frame(sent + 1, p) \in Seq(Bytes)
      BY <3>1, FrameBytes
    <3> QED BY <1>1, <3>2, ConcatProperties DEF Transmit
  <2> QED BY <1>1, <2>1 DEF Transmit, histories
<1>2. ASSUME NEW n \in 1 .. MaxFragment, LoseFragment(n) PROVE BleTypeOK'
  <2>1. air' \in Seq(Bytes)
    BY <1>2, RestElements DEF LoseFragment
  <2>2. inStep' \in BOOLEAN /\ overflowed' \in BOOLEAN /\ flushing' \in BOOLEAN
    BY <1>2 DEF LoseFragment
  <2>3. /\ sent' \in Nat /\ faults' \in Nat
        /\ inputBuffer' \in Seq(Bytes) /\ bleInbox' \in Seq(Seq(Bytes))
    BY <1>2 DEF LoseFragment
  <2>4. due' \subseteq Nat /\ got' \in Seq([head : Bytes, payload : Seq(Bytes)])
    BY <1>2 DEF LoseFragment
  <2> QED BY <2>1, <2>2, <2>3, <2>4
<1>3. ASSUME NEW n \in 1 .. MaxFragment, NEW late \in BOOLEAN, Rx(n, late) PROVE BleTypeOK'
  <2>1. n \in 0 .. Len(air)
    BY <1>3 DEF Rx
  <2>2. Prefix(air, n) \in Seq(Bytes) /\ Kept(late) \in Seq(Bytes)
    <3>1. Prefix(air, n) \in Seq(Bytes)
      BY <2>1, PrefixElements
    <3> QED BY <3>1 DEF Kept
  <2>3. air' \in Seq(Bytes) /\ inputBuffer' \in Seq(Bytes)
    BY <1>3, <2>1, <2>2, RestElements, ConcatProperties DEF Rx
  <2>4. Completed(Prefix(air, n)) \subseteq Nat
    BY <2>2, ByteFields DEF Completed
  <2>5. /\ inStep' \in BOOLEAN /\ overflowed' \in BOOLEAN
        /\ due' \subseteq Nat /\ (got' = <<>> \/ got' = got)
    BY <1>3, <2>4 DEF Rx, Note
  <2>6. sent' \in Nat /\ faults' \in Nat /\ bleInbox' \in Seq(Seq(Bytes)) /\ flushing' \in BOOLEAN
    BY <1>3 DEF Rx
  <2>7. got' \in Seq([head : Bytes, payload : Seq(Bytes)])
    BY <2>5, EmptySeq
  <2> QED BY <2>3, <2>5, <2>6, <2>7
<1>4. ASSUME Complete PROVE /\ msgLength \in Nat /\ 2 + msgLength \in 0 .. Len(inputBuffer)
                            /\ inputBuffer[1] \in Bytes
                            /\ SubSeq(inputBuffer, 3, 2 + msgLength) \in Seq(Bytes)
                            /\ Rest(inputBuffer, 2 + msgLength) \in Seq(Bytes)
  <2>1. inputBuffer[1] \in Bytes /\ inputBuffer[2] \in Bytes
    BY <1>4 DEF Complete
  <2>2. msgLength \in Nat
    <3>1. inputBuffer[1].val \in Nat /\ inputBuffer[2].val \in Nat /\ Base \in Nat
      BY <2>1, ByteFields, BleAssumption
    <3>2. \A a, b \in Nat : a * b \in Nat
      OBVIOUS
    <3>3. \A a, b \in Nat : a + b \in Nat
      OBVIOUS
    <3> QED BY <3>1, <3>2, <3>3 DEF msgLength
  <2>3. 2 + msgLength \in 0 .. Len(inputBuffer)
    BY <2>2, <1>4 DEF Complete
  <2>4. \A i \in 3 .. 2 + msgLength : inputBuffer[i] \in Bytes
    BY <2>2, <2>3, ElementOfSeq
  <2>5. SubSeq(inputBuffer, 3, 2 + msgLength) \in Seq(Bytes)
    <3>1. 3 \in Int /\ 2 + msgLength \in Int
      BY <2>2
    <3> QED BY <3>1, <2>4, SubSeqProperties
  <2>6. Rest(inputBuffer, 2 + msgLength) \in Seq(Bytes)
    BY <2>3, RestElements
  <2> QED BY <2>1, <2>2, <2>3, <2>5, <2>6
<1>5. CASE Deliver
  BY <1>4, <1>5 DEF Deliver, FlushAgain
<1>6. CASE Drop
  BY <1>4, <1>6 DEF Drop
<1>7. CASE Discard
  <2>1. inStep' \in BOOLEAN /\ overflowed' \in BOOLEAN /\ flushing' \in BOOLEAN
    BY <1>7 DEF Discard
  <2>2. inputBuffer' \in Seq(Bytes)
    BY <1>7 DEF Discard
  <2> QED BY <1>7, <2>1, <2>2 DEF Discard
<1>8. CASE AwaitMore
  BY <1>8 DEF AwaitMore, histories
<1>9. CASE Receive
  BY <1>9, HeadTailProperties DEF Receive, histories
<1>10. CASE UNCHANGED bleVars
  BY <1>10 DEF bleVars, histories
<1> QED BY <1>1, <1>2, <1>3, <1>5, <1>6, <1>7, <1>8, <1>9, <1>10 DEF BleNext

\* In step, rx reads the length of the frame that begins its buffer.
LEMMA LengthRead ==
  ASSUME BleTypeOK, WholeFrames(Coming), Len(inputBuffer) >= 2
  PROVE  /\ Coming[1] = inputBuffer[1] /\ Coming # <<>>
         /\ msgLength + 2 = inputBuffer[1].size /\ msgLength \in Nat
<1>1. /\ inputBuffer \in Seq(Bytes) /\ air \in Seq(Bytes) /\ Coming \in Seq(Bytes)
      /\ Len(Coming) = Len(inputBuffer) + Len(air)
      /\ \A i \in 1 .. Len(inputBuffer) : Coming[i] = inputBuffer[i]
  BY ConcatElements DEF BleTypeOK, Coming
<1>2. Coming[1] = inputBuffer[1] /\ Coming[2] = inputBuffer[2] /\ Coming # <<>>
  BY <1>1
<1> DEFINE size == Coming[1].size
<1>3. /\ Coming[1] \in Bytes /\ Coming[1].place = 1 /\ size <= Len(Coming)
      /\ \A k \in 1 .. size : Coming[k].size = size /\ Coming[k].place = k
  BY <1>1, <1>2, FrameTaken
<1>4. size \in Nat /\ 2 <= size /\ Coming[2] \in Bytes
  BY <1>1, <1>3, ByteFields
<1>5. Coming[2].place = 2 /\ Coming[2].size = size
  BY <1>3, <1>4
<1> HIDE DEF size
<1>6. Coming[1].val = (size - 2) \div Base /\ Coming[2].val = (size - 2) % Base
  BY <1>3, <1>4, <1>5, ByteFields DEF size
<1>7. msgLength = ((size - 2) \div Base) * Base + ((size - 2) % Base)
  BY <1>2, <1>6 DEF msgLength
<1>8. size - 2 \in Nat /\ Base \in Nat \ {0}
  BY <1>4, BleAssumption
<1>9. msgLength = size - 2
  BY <1>7, <1>8, DivisionExact
<1> QED BY <1>2, <1>4, <1>8, <1>9 DEF size

LEMMA BleInitially == BleInit => BleInv
<1>1. SUFFICES ASSUME BleInit PROVE BleInv
  OBVIOUS
<1> USE <1>1 DEF BleInit
<1>2. BleTypeOK
  <2>1. /\ air \in Seq(Bytes) /\ inputBuffer \in Seq(Bytes) /\ bleInbox \in Seq(Seq(Bytes))
        /\ got \in Seq([head : Bytes, payload : Seq(Bytes)])
    BY EmptySeq
  <2>2. flushing \in BOOLEAN /\ inStep \in BOOLEAN /\ overflowed \in BOOLEAN
    OBVIOUS
  <2>3. due \subseteq Nat /\ sent \in Nat /\ faults \in Nat
    OBVIOUS
  <2> QED BY <2>1, <2>2, <2>3 DEF BleTypeOK
<1>3. Coming = <<>>
  BY DEF Coming
<1>4. Framed(air) /\ Numbered /\ MessagesIntact
  BY <1>3 DEF Framed, Numbered, Heads, MessagesIntact
<1>5. InOrder
  BY <1>3 DEF InOrder, WholeFrames, Framed
<1>6. Arrived /\ BufferBounded
  BY BleAssumption DEF Arrived, Heads, Completed, BufferBounded
<1> QED BY <1>2, <1>4, <1>5, <1>6 DEF BleInv

\* Coming, byte by byte.
LEMMA ComingBytes ==
  ASSUME BleTypeOK
  PROVE  /\ Coming \in Seq(Bytes) /\ Len(Coming) = Len(inputBuffer) + Len(air)
         /\ \A i \in 1 .. Len(inputBuffer) : Coming[i] = inputBuffer[i]
         /\ \A i \in 1 .. Len(air) : Len(inputBuffer) + i \in DOMAIN Coming
                                     /\ Coming[Len(inputBuffer) + i] = air[i]
<1>1. inputBuffer \in Seq(Bytes) /\ air \in Seq(Bytes)
  BY DEF BleTypeOK
<1>2. /\ Coming \in Seq(Bytes) /\ Len(Coming) = Len(inputBuffer) + Len(air)
      /\ \A i \in 1 .. Len(inputBuffer) : Coming[i] = inputBuffer[i]
      /\ \A i \in 1 .. Len(air) : Coming[Len(inputBuffer) + i] = air[i]
  BY <1>1, ConcatElements DEF Coming
<1>3. \A i \in 1 .. Len(air) : Len(inputBuffer) + i \in DOMAIN Coming
  BY <1>1, <1>2
<1> QED BY <1>2, <1>3

LEMMA FrameSentStep ==
  ASSUME BleInv, BleTypeOK', NEW p \in Payloads, Transmit(p)
  PROVE  BleInv'
<1> DEFINE f == Frame(sent + 1, p)
<1>1. sent \in Nat /\ sent + 1 \in Nat /\ BleTypeOK
  BY DEF BleInv, BleTypeOK
<1>2. /\ f \in Seq(Bytes) /\ Len(f) \in Nat
      /\ \A i \in 1 .. Len(f) : f[i].msg = sent + 1
  <2>1. /\ f \in Seq(Bytes) /\ Len(f) = Len(p) + 2 /\ Len(p) \in Nat
        /\ \A i \in 1 .. Len(p) + 2 : /\ f[i].msg = sent + 1 /\ f[i].place = i
                                      /\ f[i].size = Len(p) + 2
    BY <1>1, FrameBytes, Zenon
  <2> HIDE DEF f
  <2> QED BY <2>1
<1>3. /\ air \in Seq(Bytes) /\ inputBuffer \in Seq(Bytes) /\ Coming \in Seq(Bytes)
      /\ \A i \in 1 .. Len(Coming) :
           Coming[i] \in Bytes /\ Coming[i].msg <= sent /\ Coming[i].msg < sent + 1
  <2>1. air \in Seq(Bytes) /\ inputBuffer \in Seq(Bytes) /\ Coming \in Seq(Bytes)
    BY <1>1, ComingBytes DEF BleTypeOK
  <2>2. \A i \in 1 .. Len(Coming) :
          Coming[i] \in Bytes /\ Coming[i].msg \in Nat /\ Coming[i].msg <= sent
    BY <2>1, ByteFields DEF BleInv, Numbered
  <2> QED BY <2>1, <2>2, <1>1
<1>4. \A i \in DOMAIN air : air[i].msg < sent + 1
  <2>1. TAKE i \in DOMAIN air
  <2>2. i \in 1 .. Len(air)
    BY <1>3
  <2>3. Len(inputBuffer) + i \in DOMAIN Coming /\ Coming[Len(inputBuffer) + i] = air[i]
    BY <1>1, <2>2, ComingBytes
  <2> QED BY <2>3, <1>3
<1>5. Framed(air')
  BY <1>1, <1>3, <1>4, FrameAppended DEF BleInv, Transmit
<1>6. Coming' = Coming \o f
  <2>1. air' = air \o f /\ inputBuffer' = inputBuffer
    BY DEF Transmit
  <2> HIDE DEF f
  <2>2. (inputBuffer \o air) \o f = inputBuffer \o (air \o f)
    BY <1>2, <1>3, ConcatAssociative
  <2> QED BY <2>1, <2>2 DEF Coming
<1>7. UNCHANGED <<inputBuffer, flushing, inStep, overflowed, due, got>> /\ sent' = sent + 1
  BY DEF Transmit, histories
<1>8. Heads' = Heads /\ \A h \in Heads : h \in Nat /\ h <= sent
  <2>1. \A h \in Heads : h \in Nat
    <3>1. SUFFICES ASSUME NEW i \in DOMAIN got PROVE got[i].head.msg \in Nat
      BY DEF Heads
    <3>2. got[i] \in [head : Bytes, payload : Seq(Bytes)]
      <4> DEFINE Passed == [head : Bytes, payload : Seq(Bytes)]
      <4>1. got \in Seq(Passed)
        BY <1>1 DEF BleTypeOK
      <4> HIDE DEF Passed
      <4>2. got[i] \in Passed
        BY <4>1
      <4> QED BY <4>2 DEF Passed
    <3> QED BY <3>2, ByteFields
  <2> QED BY <2>1, <1>7 DEF Heads, BleInv, Numbered
<1> HIDE DEF f
<1>9. /\ DOMAIN Coming' = 1 .. Len(Coming) + Len(f)
      /\ \A i \in DOMAIN Coming' : \/ i \in 1 .. Len(Coming) /\ Coming'[i] = Coming[i]
                                   \/ Coming'[i].msg = sent + 1
  <2>1. /\ Coming' \in Seq(Bytes) /\ Len(Coming') = Len(Coming) + Len(f)
        /\ \A i \in 1 .. Len(Coming) + Len(f) :
             Coming'[i] = IF i <= Len(Coming) THEN Coming[i] ELSE f[i - Len(Coming)]
    BY <1>2, <1>3, <1>6, ConcatProperties
  <2>2. ASSUME NEW i \in 1 .. Len(Coming) + Len(f), ~(i <= Len(Coming))
        PROVE  Coming'[i].msg = sent + 1
    <3>1. i - Len(Coming) \in 1 .. Len(f) /\ Coming'[i] = f[i - Len(Coming)]
      BY <2>1, <2>2, <1>2, <1>3
    <3> QED BY <3>1, <1>2
  <2> QED BY <2>1, <2>2, <1>3
<1>10. Numbered'
  <2>1. ASSUME NEW i \in DOMAIN Coming' PROVE Coming'[i].msg <= sent + 1
    <3>1. CASE Coming'[i].msg = sent + 1
      BY <3>1, <1>1
    <3>2. CASE i \in 1 .. Len(Coming) /\ Coming'[i] = Coming[i]
      <4>1. Coming'[i].msg \in Nat /\ Coming'[i].msg <= sent
        BY <3>2, <1>3, ByteFields
      <4> QED BY <4>1, <1>1
    <3> QED BY <3>1, <3>2, <1>9
  <2>2. \A h \in Heads' : h <= sent + 1
    BY <1>1, <1>8
  <2> QED BY <2>1, <2>2, <1>7 DEF Numbered
<1>11. InOrder'
  <2>1. SUFFICES ASSUME inStep PROVE /\ WholeFrames(Coming')
                                     /\ \A h \in Heads, i \in DOMAIN Coming' : h < Coming'[i].msg
    BY <1>7, <1>8 DEF InOrder
  <2>2. WholeFrames(Coming) /\ \A h \in Heads, i \in DOMAIN Coming : h < Coming[i].msg
    BY <2>1 DEF BleInv, InOrder
  <2>3. WholeFrames(Coming')
    <3>1. Framed(Coming) /\ \A i \in DOMAIN Coming : Coming[i].msg < sent + 1
      BY <2>2, <1>3 DEF WholeFrames
    <3>2. WholeFrames(Coming \o f)
      BY <3>1, <2>2, <1>1, <1>3, FrameAppended DEF f
    <3> QED BY <3>2, <1>6
  <2>4. ASSUME NEW h \in Heads, NEW i \in DOMAIN Coming' PROVE h < Coming'[i].msg
    BY <2>2, <1>1, <1>3, <1>8, <1>9
  <2> QED BY <2>3, <2>4
<1>12. MessagesIntact' /\ Arrived' /\ BufferBounded'
  BY <1>7, <1>8 DEF BleInv, MessagesIntact, Arrived, BufferBounded, Whole, Completed
<1> QED BY <1>5, <1>10, <1>11, <1>12 DEF BleInv

LEMMA RxStep ==
  ASSUME BleInv, BleTypeOK', NEW n \in 1 .. MaxFragment, NEW late \in BOOLEAN, Rx(n, late)
  PROVE  BleInv'
<1> DEFINE f == Prefix(air, n)
           restarts == late /\ ~inStep /\ f[1].place = 1
<1>1. /\ BleTypeOK /\ air \in Seq(Bytes) /\ inputBuffer \in Seq(Bytes)
      /\ n \in 0 .. Len(air) /\ 1 \in 1 .. n /\ 1 \in 1 .. Len(air)
  BY BleAssumption DEF BleInv, BleTypeOK, Rx
<1>2. /\ ~flushing /\ flushing' /\ sent' = sent
      /\ air' = Rest(air, n) /\ inputBuffer' = Kept(late) \o f
      /\ inStep' = (restarts \/ (inStep /\ (late => f[1].place = 1)))
      /\ due' = (IF restarts THEN {} ELSE due) \cup Completed(f)
      /\ got' = IF restarts THEN <<>> ELSE got
      /\ overflowed' = (overflowed /\ ~restarts)
  BY DEF Rx, Note
<1>3. f \in Seq(Bytes) /\ f[1] = air[1]
  BY <1>1, PrefixElements
<1>4. Framed(air')
  BY <1>1, <1>2, RestFramed DEF BleInv
<1>5. /\ ~late => Coming' = Coming /\ inputBuffer' = inputBuffer \o f
      /\ late => Coming' = air /\ inputBuffer' = f
  <2>1. /\ (inputBuffer \o f) \o Rest(air, n) = inputBuffer \o air
        /\ <<>> \o f = f /\ f \o Rest(air, n) = air
    BY <1>1, ConcatSplit
  <2> QED BY <2>1, <1>2 DEF Coming, Kept
<1> HIDE DEF f
<1>6. \A i \in DOMAIN air : \E k \in DOMAIN Coming : air[i] = Coming[k]
  <2>1. \A i \in 1 .. Len(air) : Len(inputBuffer) + i \in DOMAIN Coming
                                 /\ Coming[Len(inputBuffer) + i] = air[i]
    BY <1>1, ComingBytes
  <2> QED BY <2>1, <1>1
<1>7. Heads' = IF restarts THEN {} ELSE Heads
  BY <1>2 DEF Heads
<1> HIDE DEF restarts
<1>8. Numbered'
  BY <1>2, <1>5, <1>6, <1>7 DEF BleInv, Numbered
<1>9. ASSUME inStep' PROVE \/ inStep /\ ~restarts
                           \/ restarts /\ late
  BY <1>2, <1>9 DEF restarts
<1>10. ASSUME inStep', late PROVE WholeFrames(air)
  <2>1. air[1].place = 1
    BY <1>2, <1>3, <1>10 DEF restarts
  <2> QED BY <2>1 DEF WholeFrames, BleInv
<1>11. InOrder'
  <2>1. SUFFICES ASSUME inStep' PROVE /\ WholeFrames(Coming')
                                      /\ \A h \in Heads', i \in DOMAIN Coming' : h < Coming'[i].msg
    BY DEF InOrder
  <2>2. WholeFrames(Coming')
    <3>1. CASE late
      BY <3>1, <2>1, <1>5, <1>10
    <3>2. CASE ~late
      BY <3>2, <2>1, <1>5, <1>9 DEF BleInv, InOrder
    <3> QED BY <3>1, <3>2
  <2>3. ASSUME NEW h \in Heads', NEW i \in DOMAIN Coming' PROVE h < Coming'[i].msg
    <3>1. inStep /\ h \in Heads
      BY <2>1, <2>3, <1>7, <1>9
    <3>2. \E k \in DOMAIN Coming : Coming'[i] = Coming[k]
      BY <1>5, <1>6
    <3> QED BY <3>1, <3>2 DEF BleInv, InOrder
  <2> QED BY <2>2, <2>3
<1>12. MessagesIntact'
  <2>1. SUFFICES ASSUME inStep' PROVE MessagesIntact'
    BY DEF MessagesIntact
  <2>2. CASE restarts
    BY <2>2, <1>2 DEF MessagesIntact
  <2>3. CASE ~restarts
    BY <2>1, <2>3, <1>2, <1>9 DEF BleInv, MessagesIntact, Whole
  <2> QED BY <2>2, <2>3
<1>13. Arrived'
  <2>1. SUFFICES ASSUME inStep', ~overflowed' PROVE due' = Heads' \cup Completed(inputBuffer')
    BY <1>2 DEF Arrived
  <2>2. CASE restarts
    BY <2>2, <2>1, <1>2, <1>5, <1>7, <1>9 DEF restarts
  <2>3. CASE ~restarts
    <3>1. inStep /\ ~overflowed /\ due = Heads /\ Completed(inputBuffer) = {}
      BY <2>1, <2>3, <1>2, <1>9 DEF BleInv, Arrived
    <3>2. Completed(inputBuffer') = Completed(f)
      <4>1. Completed(inputBuffer \o f) = Completed(inputBuffer) \cup Completed(f)
        BY <1>1, <1>3, CompletedConcat
      <4> QED BY <4>1, <3>1, <1>5
    <3> QED BY <3>1, <3>2, <2>3, <1>2, <1>7
  <2> QED BY <2>2, <2>3
<1>14. BufferBounded'
  BY <1>2 DEF BufferBounded
<1> QED BY <1>4, <1>8, <1>11, <1>12, <1>13, <1>14 DEF BleInv

(***************************************************************************)
(* flush takes the frame that begins the buffer: in step, that is one      *)
(* message, and it comes before those in the rest.                         *)
(***************************************************************************)
LEMMA FrameLeavesBuffer ==
  ASSUME BleInv, BleTypeOK', Complete, inputBuffer' = Rest(inputBuffer, 2 + msgLength), air' = air
  PROVE  /\ inputBuffer[1].msg \in Nat /\ inputBuffer[1].msg <= sent
         /\ \A i \in DOMAIN Coming' : \E k \in DOMAIN Coming : Coming'[i] = Coming[k]
         /\ inStep =>
              /\ WholeFrames(Coming')
              /\ \A i \in DOMAIN Coming' : inputBuffer[1].msg < Coming'[i].msg
              /\ \A h \in Heads : h < inputBuffer[1].msg
              /\ Completed(inputBuffer) = {inputBuffer[1].msg} \cup Completed(inputBuffer')
              /\ Whole([head |-> inputBuffer[1], payload |-> SubSeq(inputBuffer, 3, 2 + msgLength)])
<1> DEFINE n == 2 + msgLength
           m == inputBuffer[1].msg
<1>1. /\ BleTypeOK /\ inputBuffer \in Seq(Bytes) /\ air \in Seq(Bytes) /\ Len(inputBuffer) >= 2
      /\ inputBuffer[1] \in Bytes /\ inputBuffer[2] \in Bytes
  BY DEF BleInv, BleTypeOK, Complete
<1>2. msgLength \in Nat /\ n \in 0 .. Len(inputBuffer) /\ n >= 2
  <2>1. inputBuffer[1].val \in Nat /\ inputBuffer[2].val \in Nat /\ Base \in Nat
    BY <1>1, ByteFields, BleAssumption
  <2>2. \A a, b \in Nat : a * b \in Nat
    OBVIOUS
  <2>3. \A a, b \in Nat : a + b \in Nat
    OBVIOUS
  <2>4. msgLength \in Nat
    BY <2>1, <2>2, <2>3 DEF msgLength
  <2> QED BY <2>4, <1>1 DEF Complete
<1>3. /\ Coming \in Seq(Bytes) /\ Len(Coming) = Len(inputBuffer) + Len(air)
      /\ \A i \in 1 .. Len(inputBuffer) : Coming[i] = inputBuffer[i]
  BY <1>1, ComingBytes
<1>4. /\ Coming' = Rest(Coming, n)
      /\ n \in 0 .. Len(Coming) /\ Len(Coming) \in Nat
      /\ DOMAIN Coming' = 1 .. Len(Coming) - n
      /\ \A i \in 1 .. Len(Coming) - n : Coming'[i] = Coming[i + n]
  <2> HIDE DEF n
  <2>1. Coming' = Rest(Coming, n)
    BY <1>1, <1>2, RestOfConcat DEF Coming, n
  <2>2. n \in 0 .. Len(Coming) /\ Len(Coming) \in Nat
    BY <1>1, <1>2, <1>3
  <2>3. /\ Rest(Coming, n) \in Seq(Bytes) /\ Len(Rest(Coming, n)) = Len(Coming) - n
        /\ \A i \in 1 .. Len(Coming) - n : Rest(Coming, n)[i] = Coming[i + n]
    BY <1>3, <2>2, RestElements
  <2> QED BY <2>1, <2>2, <2>3
<1>5. m \in Nat /\ m <= sent
  <2>1. 1 \in DOMAIN Coming /\ Coming[1] = inputBuffer[1]
    <3>1. 1 \in 1 .. Len(inputBuffer) /\ 1 \in 1 .. Len(Coming)
      BY <1>1, <1>3
    <3> QED BY <3>1, <1>3
  <2> QED BY <2>1, <1>1, ByteFields DEF BleInv, Numbered
<1>6. ASSUME NEW i \in DOMAIN Coming' PROVE i + n \in DOMAIN Coming /\ Coming'[i] = Coming[i + n]
  <2> HIDE DEF n
  <2>1. n \in Nat /\ Len(Coming) \in Nat /\ i \in 1 .. Len(Coming) - n
    BY <1>4
  <2>2. i + n \in 1 .. Len(Coming) /\ Coming'[i] = Coming[i + n]
    BY <1>4, <2>1
  <2>3. DOMAIN Coming = 1 .. Len(Coming)
    BY <1>3
  <2> QED BY <2>2, <2>3
<1>7. ASSUME inStep
      PROVE  /\ WholeFrames(Coming')
             /\ \A i \in DOMAIN Coming' : m < Coming'[i].msg
             /\ \A h \in Heads : h < m
             /\ Completed(inputBuffer) = {m} \cup Completed(inputBuffer')
             /\ Whole([head |-> inputBuffer[1], payload |-> SubSeq(inputBuffer, 3, n)])
  <2>1. WholeFrames(Coming) /\ \A h \in Heads, i \in DOMAIN Coming : h < Coming[i].msg
    BY <1>7 DEF BleInv, InOrder
  <2>2. Coming[1] = inputBuffer[1] /\ Coming # <<>> /\ n = Coming[1].size
    <3>1. Coming[1] = inputBuffer[1] /\ Coming # <<>> /\ msgLength + 2 = inputBuffer[1].size
      BY <1>1, <2>1, LengthRead
    <3> QED BY <3>1, <1>2
  <2> HIDE DEF n
  <2>3. /\ Coming[1].place = 1
        /\ \A k \in 1 .. n : Coming[k].msg = m /\ Coming[k].size = n /\ Coming[k].place = k
        /\ \A k \in n + 1 .. Len(Coming) : m < Coming[k].msg
        /\ WholeFrames(Rest(Coming, n))
    BY <1>3, <2>1, <2>2, FrameTaken
  <2>4. ASSUME NEW i \in DOMAIN Coming' PROVE m < Coming'[i].msg
    <3>1. i + n \in n + 1 .. Len(Coming)
      BY <1>2, <1>4
    <3> QED BY <3>1, <1>6, <2>3
  <2>5. ASSUME NEW h \in Heads PROVE h < m
    <3>1. 1 \in DOMAIN Coming
      BY <2>2, <1>3
    <3> QED BY <3>1, <2>1, <2>2
  <2>6. Completed(inputBuffer) = {m} \cup Completed(inputBuffer')
    <3> DEFINE a == Prefix(inputBuffer, n)
               b == Rest(inputBuffer, n)
    <3>1. /\ a \in Seq(Bytes) /\ Len(a) = n /\ b \in Seq(Bytes) /\ a \o b = inputBuffer
          /\ \A i \in 1 .. n : a[i] = inputBuffer[i]
      BY <1>1, <1>2, PrefixElements, RestElements, ConcatSplit
    <3>2. b = inputBuffer'
      BY DEF n
    <3> HIDE DEF a, b
    <3>3. Completed(a \o b) = Completed(a) \cup Completed(b)
      BY <3>1, CompletedConcat
    <3>4. \A i \in 1 .. n : a[i].msg = m /\ a[i].size = n /\ a[i].place = i
      BY <3>1, <2>3, <1>2, <1>3
    <3>5. Completed(a) = {m}
      <4>1. DOMAIN a = 1 .. n /\ n \in 1 .. n
        BY <3>1, <1>2
      <4>2. {j \in DOMAIN a : a[j].place = a[j].size} = {n}
        BY <4>1, <3>4
      <4> QED BY <4>1, <4>2, <3>4 DEF Completed
    <3> QED BY <3>1, <3>2, <3>3, <3>5
  <2>7. Whole([head |-> inputBuffer[1], payload |-> SubSeq(inputBuffer, 3, n)])
    <3>1. \A i \in 3 .. n : inputBuffer[i] \in Bytes
      BY <1>1, <1>2, ElementOfSeq
    <3>2. n \in Int /\ 3 \in Int /\ (3 <= n => n - 3 + 1 = n - 2) /\ (~(3 <= n) => n - 2 = 0)
      BY <1>2
    <3> DEFINE p == SubSeq(inputBuffer, 3, n)
    <3>3. /\ Len(p) = (IF 3 <= n THEN n - 3 + 1 ELSE 0)
          /\ \A i \in 1 .. n - 3 + 1 : p[i] = inputBuffer[3 + i - 1]
      BY <3>1, <3>2, SubSeqProperties
    <3>4. p \in Seq(Bytes)
      BY <3>1, <3>2, SubSeqProperties
    <3> HIDE DEF p
    <3>5. Len(p) + 2 = n /\ DOMAIN p = 1 .. n - 2
      BY <3>2, <3>3, <3>4
    <3>6. ASSUME NEW i \in DOMAIN p PROVE p[i].msg = m /\ p[i].place = i + 2
      <4>1. i \in 1 .. n - 3 + 1 /\ 3 + i - 1 = i + 2 /\ i + 2 \in 1 .. n
        BY <3>5, <1>2
      <4>2. p[i] = Coming[i + 2]
        BY <4>1, <3>3, <1>2, <1>3
      <4> QED BY <4>1, <4>2, <2>3
    <3> QED BY <3>5, <3>6, <2>2, <2>3 DEF Whole, p
  <2> QED BY <2>3, <2>4, <2>5, <2>6, <2>7, <1>4
<1> QED BY <1>5, <1>6, <1>7

LEMMA DeliverStep == ASSUME BleInv, BleTypeOK', Deliver PROVE BleInv'
<1> DEFINE m == inputBuffer[1].msg
           g == [head |-> inputBuffer[1], payload |-> SubSeq(inputBuffer, 3, 2 + msgLength)]
<1>1. /\ Complete /\ flushing /\ flushing' /\ inputBuffer' = Rest(inputBuffer, 2 + msgLength)
      /\ got' = Append(got, g)
      /\ UNCHANGED <<sent, air, inStep, overflowed, due>>
  BY DEF Deliver, FlushAgain
<1>2. /\ m \in Nat /\ m <= sent
      /\ \A i \in DOMAIN Coming' : \E k \in DOMAIN Coming : Coming'[i] = Coming[k]
      /\ inStep => /\ WholeFrames(Coming')
                   /\ \A i \in DOMAIN Coming' : m < Coming'[i].msg
                   /\ \A h \in Heads : h < m
                   /\ Completed(inputBuffer) = {m} \cup Completed(inputBuffer')
                   /\ Whole(g)
  BY <1>1, FrameLeavesBuffer
<1>3. /\ Len(got) \in Nat /\ DOMAIN got = 1 .. Len(got)
      /\ DOMAIN got' = 1 .. Len(got) + 1
      /\ \A i \in 1 .. Len(got) : got'[i] = got[i]
      /\ got'[Len(got) + 1] = g
  <2> DEFINE Passed == [head : Bytes, payload : Seq(Bytes)]
  <2>1. got \in Seq(Passed) /\ got' \in Seq(Passed)
    BY DEF BleInv, BleTypeOK
  <2> HIDE DEF Passed, g
  <2> QED BY <2>1, <1>1
<1>4. g.head.msg = m
  OBVIOUS
<1> HIDE DEF g, m
<1>5. Heads' = Heads \cup {m}
  <2>1. ASSUME NEW i \in DOMAIN got' PROVE got'[i].head.msg \in Heads \cup {m}
    <3>1. CASE i = Len(got) + 1
      BY <3>1, <1>3, <1>4
    <3>2. CASE i # Len(got) + 1
      BY <3>2, <1>3 DEF Heads
    <3> QED BY <3>1, <3>2
  <2>2. Len(got) + 1 \in DOMAIN got' /\ \A i \in DOMAIN got : i \in DOMAIN got'
    BY <1>3
  <2> QED BY <2>1, <2>2, <1>3, <1>4 DEF Heads
<1>6. Framed(air') /\ Numbered' /\ InOrder' /\ Arrived' /\ BufferBounded'
  <2>1. Framed(air') /\ BufferBounded'
    BY <1>1 DEF BleInv, BufferBounded
  <2>2. Numbered'
    BY <1>1, <1>2, <1>5 DEF BleInv, Numbered
  <2>3. InOrder'
    BY <1>1, <1>2, <1>5 DEF BleInv, InOrder
  <2>4. Arrived'
    BY <1>1, <1>2, <1>5 DEF BleInv, Arrived
  <2> QED BY <2>1, <2>2, <2>3, <2>4
<1>7. MessagesIntact'
  <2>1. SUFFICES ASSUME inStep, NEW j \in DOMAIN got'
                 PROVE  /\ Whole(got'[j])
                        /\ \A i \in 1 .. j - 1 : got'[i].head.msg < got'[j].head.msg
    BY <1>1 DEF MessagesIntact, Whole
  <2>2. CASE j = Len(got) + 1
    <3>1. Whole(got'[j]) /\ got'[j].head.msg = m
      BY <2>1, <2>2, <1>2, <1>3, <1>4
    <3>2. ASSUME NEW i \in 1 .. j - 1 PROVE got'[i].head.msg < m
      <4>1. i \in DOMAIN got /\ got'[i] = got[i]
        BY <2>2, <1>3
      <4> QED BY <4>1, <2>1, <1>2 DEF Heads
    <3> QED BY <3>1, <3>2
  <2>3. CASE j # Len(got) + 1
    <3>1. j \in DOMAIN got /\ got'[j] = got[j] /\ \A i \in 1 .. j - 1 : got'[i] = got[i]
      BY <2>3, <1>3
    <3> QED BY <3>1, <2>1 DEF BleInv, MessagesIntact
  <2> QED BY <2>2, <2>3
<1> QED BY <1>6, <1>7 DEF BleInv

LEMMA DropStep == ASSUME BleInv, BleTypeOK', Drop PROVE BleInv'
<1>1. /\ Complete /\ overflowed' /\ inputBuffer' = Rest(inputBuffer, 2 + msgLength)
      /\ UNCHANGED <<sent, air, inStep, due, got>>
  BY DEF Drop
<1>2. /\ \A i \in DOMAIN Coming' : \E k \in DOMAIN Coming : Coming'[i] = Coming[k]
      /\ inStep => WholeFrames(Coming')
  BY <1>1, FrameLeavesBuffer
<1>3. Framed(air') /\ MessagesIntact' /\ Heads' = Heads
  BY <1>1 DEF BleInv, MessagesIntact, Whole, Heads
<1>4. Numbered' /\ InOrder'
  BY <1>1, <1>2, <1>3 DEF BleInv, Numbered, InOrder
<1>5. Arrived' /\ BufferBounded'
  BY <1>1 DEF Arrived, BufferBounded
<1> QED BY <1>3, <1>4, <1>5 DEF BleInv

LEMMA AwaitMoreStep == ASSUME BleInv, BleTypeOK', AwaitMore PROVE BleInv'
<1>1. /\ ~TooLong /\ ~Complete /\ ~flushing'
      /\ UNCHANGED <<sent, air, inputBuffer, inStep, overflowed, due, got>>
  BY DEF AwaitMore, histories
<1>2. Framed(air') /\ Numbered' /\ InOrder' /\ MessagesIntact' /\ Heads' = Heads
  BY <1>1 DEF BleInv, Numbered, InOrder, MessagesIntact, Whole, Heads, Coming
<1>3. BleTypeOK /\ inputBuffer \in Seq(Bytes) /\ Len(inputBuffer) \in Nat
  BY DEF BleInv, BleTypeOK
<1>4. ASSUME Len(inputBuffer) >= 2
      PROVE  msgLength \in Nat /\ msgLength <= maxBLEMessageSize /\ Len(inputBuffer) < 2 + msgLength
  <2>1. inputBuffer[1].val \in Nat /\ inputBuffer[2].val \in Nat /\ Base \in Nat
    <3>1. inputBuffer[1] \in Bytes /\ inputBuffer[2] \in Bytes
      BY <1>3, <1>4
    <3> QED BY <3>1, ByteFields, BleAssumption
  <2>2. \A a, b \in Nat : a * b \in Nat
    OBVIOUS
  <2>3. \A a, b \in Nat : a + b \in Nat
    OBVIOUS
  <2>4. msgLength \in Nat
    BY <2>1, <2>2, <2>3 DEF msgLength
  <2>5. ~(msgLength > maxBLEMessageSize) /\ ~(Len(inputBuffer) >= 2 + msgLength)
    BY <1>1, <1>4 DEF TooLong, Complete
  <2>6. maxBLEMessageSize \in Nat
    BY BleAssumption
  <2> QED BY <2>4, <2>5, <2>6, <1>3
<1>5. BufferBounded'
  <2>1. maxBLEMessageSize \in Nat
    BY BleAssumption
  <2>2. Len(inputBuffer) < 2 + maxBLEMessageSize
    BY <1>3, <1>4, <2>1
  <2> QED BY <2>2, <1>1 DEF BufferBounded
<1>6. Arrived'
  <2>1. SUFFICES ASSUME inStep, ~overflowed PROVE Completed(inputBuffer) = {}
    BY <1>1, <1>2 DEF BleInv, Arrived, Completed
  <2>2. WholeFrames(Coming)
    BY <2>1 DEF BleInv, InOrder
  <2>3. SUFFICES ASSUME NEW i \in DOMAIN inputBuffer
                 PROVE  inputBuffer[i].place # inputBuffer[i].size
    BY DEF Completed
  <2>4. /\ Coming \in Seq(Bytes) /\ Len(Coming) = Len(inputBuffer) + Len(air) /\ Len(air) \in Nat
        /\ \A k \in 1 .. Len(inputBuffer) : Coming[k] = inputBuffer[k]
    <3>1. Len(air) \in Nat
      BY <1>3 DEF BleTypeOK
    <3> QED BY <3>1, <1>3, ComingBytes
  <2>5. i \in 1 .. Len(inputBuffer) /\ Coming # <<>>
    BY <1>3, <2>4
  <2>6. /\ Coming[1] \in Bytes
        /\ \A k \in 1 .. Coming[1].size : Coming[k].size = Coming[1].size /\ Coming[k].place = k
    BY <2>2, <2>4, <2>5, FrameTaken
  <2>7. Coming[1].size \in Nat /\ Len(inputBuffer) < Coming[1].size
    <3>1. Coming[1].size \in Nat /\ 2 <= Coming[1].size
      BY <2>6, ByteFields
    <3>2. CASE Len(inputBuffer) >= 2
      <4>1. msgLength + 2 = Coming[1].size
        BY <3>2, <1>3, <2>2, LengthRead
      <4> QED BY <4>1, <3>1, <3>2, <1>3, <1>4
    <3>3. CASE ~(Len(inputBuffer) >= 2)
      BY <3>1, <3>3, <1>3
    <3> QED BY <3>1, <3>2, <3>3
  <2>8. i \in 1 .. Coming[1].size /\ i # Coming[1].size
    BY <2>5, <2>7, <1>3
  <2> QED BY <2>4, <2>5, <2>6, <2>8
<1> QED BY <1>2, <1>5, <1>6 DEF BleInv

\* What is lost of the air, or of the buffer, is not in step.
LEMMA LossStep ==
  ASSUME BleInv, BleTypeOK',
         \/ \E n \in 1 .. MaxFragment : LoseFragment(n)
         \/ Discard
  PROVE  BleInv'
<1>1. BleTypeOK /\ air \in Seq(Bytes) /\ inputBuffer \in Seq(Bytes)
  BY DEF BleInv, BleTypeOK
<1>2. ~inStep' /\ UNCHANGED <<sent, due, got, overflowed>> /\ Heads' = Heads
  BY DEF LoseFragment, Discard, Heads
<1>3. MessagesIntact' /\ InOrder' /\ Arrived'
  BY <1>2 DEF MessagesIntact, InOrder, Arrived
<1>4. ASSUME NEW n \in 1 .. MaxFragment, LoseFragment(n)
      PROVE  Framed(air') /\ BufferBounded' /\ \A i \in DOMAIN Coming' : Coming'[i].msg <= sent
  <2>1. /\ n \in 0 .. Len(air) /\ air' = Rest(air, n)
        /\ inputBuffer' = inputBuffer /\ flushing' = flushing
    BY <1>1, <1>4, BleAssumption DEF LoseFragment
  <2>2. Framed(air') /\ BufferBounded'
    BY <1>1, <1>2, <2>1, RestFramed DEF BleInv, BufferBounded
  <2>3. /\ air' \in Seq(Bytes) /\ Len(air') = Len(air) - n
        /\ \A i \in 1 .. Len(air) - n : air'[i] = air[i + n]
    BY <1>1, <2>1, RestElements
  <2>4. ASSUME NEW i \in DOMAIN Coming' PROVE Coming'[i].msg <= sent
    <3>1. i \in 1 .. Len(inputBuffer) + Len(air')
      BY <1>1, <2>1, <2>3, ConcatProperties DEF Coming
    <3>2. Coming'[i] = IF i <= Len(inputBuffer) THEN inputBuffer[i] ELSE air'[i - Len(inputBuffer)]
      BY <1>1, <2>1, <2>3, <3>1, ConcatProperties DEF Coming
    <3>3. CASE i <= Len(inputBuffer)
      <4>1. i \in 1 .. Len(inputBuffer) /\ i \in DOMAIN Coming /\ Coming[i] = inputBuffer[i]
        BY <3>1, <3>3, <1>1, ComingBytes
      <4> QED BY <4>1, <3>2, <3>3 DEF BleInv, Numbered
    <3>4. CASE ~(i <= Len(inputBuffer))
      <4> DEFINE k == (i - Len(inputBuffer)) + n
      <4>1. k \in 1 .. Len(air) /\ Coming'[i] = air[k]
        <5>1. Len(inputBuffer) \in Nat /\ Len(air) \in Nat
          BY <1>1
        <5>2. i - Len(inputBuffer) \in 1 .. Len(air) - n
          BY <5>1, <3>1, <3>4, <2>1, <2>3
        <5>3. air'[i - Len(inputBuffer)] = air[(i - Len(inputBuffer)) + n]
          BY <5>2, <2>3
        <5>4. k \in 1 .. Len(air)
          BY <5>1, <5>2, <2>1
        <5> QED BY <5>3, <5>4, <3>2, <3>4
      <4> HIDE DEF k
      <4>2. Len(inputBuffer) + k \in DOMAIN Coming /\ Coming[Len(inputBuffer) + k] = air[k]
        BY <4>1, <1>1, ComingBytes
      <4> QED BY <4>1, <4>2 DEF BleInv, Numbered
    <3> QED BY <3>3, <3>4
  <2> QED BY <2>2, <2>4
<1>5. ASSUME Discard
      PROVE  Framed(air') /\ BufferBounded' /\ \A i \in DOMAIN Coming' : Coming'[i].msg <= sent
  <2>1. air' = air /\ inputBuffer' = <<>>
    BY <1>5 DEF Discard
  <2>2. Coming' = air
    BY <1>1, <2>1, ConcatEmptySeq DEF Coming
  <2>3. \A i \in 1 .. Len(air) : Len(inputBuffer) + i \in DOMAIN Coming
                                 /\ Coming[Len(inputBuffer) + i] = air[i]
    BY <1>1, ComingBytes
  <2>4. \A i \in DOMAIN air : air[i].msg <= sent
    BY <1>1, <2>3 DEF BleInv, Numbered
  <2>5. BufferBounded'
    BY <2>1, BleAssumption DEF BufferBounded
  <2> QED BY <2>1, <2>2, <2>4, <2>5 DEF BleInv
<1>6. Numbered' /\ Framed(air') /\ BufferBounded'
  BY <1>2, <1>4, <1>5 DEF BleInv, Numbered
<1> QED BY <1>3, <1>6 DEF BleInv

LEMMA BleInvariance == BleSpec => []BleInv
<1>1. BleInv /\ [BleNext]_bleVars => BleInv'
  <2>1. SUFFICES ASSUME BleInv, [BleNext]_bleVars PROVE BleInv'
    OBVIOUS
  <2>2. BleTypeOK'
    BY <2>1, BleTypeCorrect DEF BleInv
  <2>3. ASSUME NEW p \in Payloads, Transmit(p) PROVE BleInv'
    BY <2>1, <2>2, <2>3, FrameSentStep
  <2>4. ASSUME NEW n \in 1 .. MaxFragment, LoseFragment(n) PROVE BleInv'
    BY <2>1, <2>2, <2>4, LossStep
  <2>5. ASSUME NEW n \in 1 .. MaxFragment, NEW late \in BOOLEAN, Rx(n, late) PROVE BleInv'
    BY <2>1, <2>2, <2>5, RxStep
  <2>6. CASE Deliver
    BY <2>1, <2>2, <2>6, DeliverStep
  <2>7. CASE Drop
    BY <2>1, <2>2, <2>7, DropStep
  <2>8. CASE Discard
    BY <2>1, <2>2, <2>8, LossStep
  <2>9. CASE AwaitMore
    BY <2>1, <2>2, <2>9, AwaitMoreStep
  <2>10. CASE Receive \/ UNCHANGED bleVars
    <3>1. UNCHANGED <<sent, air, inputBuffer, flushing, inStep, overflowed, due, got>>
      BY <2>10 DEF Receive, bleVars, histories
    <3>2. Heads' = Heads /\ Coming' = Coming /\ Completed(inputBuffer)' = Completed(inputBuffer)
      BY <3>1 DEF Heads, Coming, Completed
    <3>3. Framed(air)' /\ Numbered' /\ InOrder'
      BY <2>1, <3>1, <3>2 DEF BleInv, Numbered, InOrder
    <3>4. MessagesIntact' /\ Arrived' /\ BufferBounded'
      BY <2>1, <3>1, <3>2 DEF BleInv, MessagesIntact, Whole, Arrived, BufferBounded
    <3> QED BY <2>2, <3>3, <3>4 DEF BleInv
  <2> QED BY <2>1, <2>3, <2>4, <2>5, <2>6, <2>7, <2>8, <2>9, <2>10 DEF BleNext
<1> QED BY <1>1, BleInitially, PTL DEF BleSpec

(***************************************************************************)
(* Whatever the fragments are, and whichever are lost or late: the         *)
(* payloads that flush hands on while rx is in step are whole messages of  *)
(* the vehicle, in their order; and it is in step again as soon as a frame *)
(* begins after a pause.                                                   *)
(***************************************************************************)
THEOREM MessagesArriveIntact == BleSpec => []MessagesIntact
<1>1. BleInv => MessagesIntact
  BY DEF BleInv
<1> QED BY <1>1, BleInvariance, PTL

(***************************************************************************)
(* In step, and unless the inbox was full, rx hands on every message that  *)
(* has arrived before it returns, however many a fragment completes.       *)
(***************************************************************************)
THEOREM MessagesAllArrive == BleSpec => []NoneMissing
<1>1. BleInv => NoneMissing
  BY DEF BleInv, Arrived, NoneMissing, Heads
<1> QED BY <1>1, BleInvariance, PTL

(***************************************************************************)
(* Whatever length rx reads, true or misread: between fragments it keeps   *)
(* less than the longest frame, unless the inbox was full.                 *)
(***************************************************************************)
THEOREM ReassemblyBounded == BleSpec => []BufferBounded
<1>1. BleInv => BufferBounded
  BY DEF BleInv
<1> QED BY <1>1, BleInvariance, PTL
===============================================================================
