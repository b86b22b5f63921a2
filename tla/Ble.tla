--------------------------------- MODULE Ble ---------------------------------
(***************************************************************************)
(* The messages that a vehicle sends over Bluetooth (pkg/connector/ble/    *)
(* ble.go, rx and flush).  A message travels as a frame, two bytes of      *)
(* length and the payload, that is cut into fragments; rx puts them        *)
(* together again and moves complete frames to a bounded inbox.  A         *)
(* fragment may come late, which empties the reassembly buffer, or get     *)
(* lost.                                                                   *)
(*                                                                         *)
(* A byte has a value, which rx may read as part of a length when it is    *)
(* out of step, and, for the properties only, the message it belongs to,   *)
(* its place in the frame and the size of the frame.                       *)
(***************************************************************************)
EXTENDS Naturals, Sequences

CONSTANTS
  Base,              \* the values of a byte (256)
  maxBLEMessageSize, \* the longest payload that is accepted (1024)
  BufferSize,        \* the messages an inbox holds (5)
  Payloads,          \* the payloads the vehicle may send: sequences of values
  MaxMessages,       \* bound: how many messages the vehicle sends
  MaxFragment,       \* bound: bytes in a fragment
  MaxFaults          \* bound: how many fragments are late or lost

ASSUME BleAssumption ==
  /\ Base \in Nat \ {0} /\ maxBLEMessageSize \in 0 .. Base * Base - 1
  /\ BufferSize \in Nat /\ MaxMessages \in Nat /\ MaxFragment \in Nat \ {0} /\ MaxFaults \in Nat
  /\ \A p \in Payloads : p \in Seq(0 .. Base - 1) /\ Len(p) < Base * Base

VARIABLES
  sent,         \* how many messages the vehicle has sent; they are numbered
  air,          \* the bytes the vehicle has sent and that have not arrived
  inputBuffer,  \* Connection.inputBuffer
  flushing,     \* rx is in its loop over flush
  bleInbox,     \* Connection.inbox
  faults,       \* how many fragments were late or lost
  inStep,       \* history: every byte since the start of some frame was kept
  overflowed,   \* history: a frame was dropped since then because the inbox was full
  due,          \* history: the messages that have arrived completely since then
  got           \* history: what was put into the inbox since then, and the byte it was read by

histories == <<inStep, overflowed, due, got>>
bleVars == <<sent, air, inputBuffer, flushing, bleInbox, faults, histories>>

\* The frame of message m with payload p.
Frame(m, p) ==
  LET values == <<Len(p) \div Base, Len(p) % Base>> \o p
  IN  [i \in DOMAIN values |-> [val |-> values[i], msg |-> m, place |-> i, size |-> Len(values)]]

BleInit ==
  /\ sent = 0 /\ air = <<>>
  /\ inputBuffer = <<>> /\ flushing = FALSE /\ bleInbox = <<>>
  /\ faults = 0
  /\ inStep = TRUE /\ overflowed = FALSE /\ due = {} /\ got = <<>>
-----------------------------------------------------------------------------
(* The vehicle and the radio link.                                          *)

\* The vehicle sends a message.
Transmit(p) ==
  /\ sent < MaxMessages
  /\ sent' = sent + 1
  /\ air' = air \o Frame(sent + 1, p)
  /\ UNCHANGED <<inputBuffer, flushing, bleInbox, faults, histories>>

Prefix(s, n) == SubSeq(s, 1, n)
Rest(s, n) == SubSeq(s, n + 1, Len(s))

\* A fragment is lost.
LoseFragment(n) ==
  /\ n <= Len(air) /\ faults < MaxFaults
  /\ air' = Rest(air, n)
  /\ faults' = faults + 1
  /\ inStep' = FALSE
  /\ UNCHANGED <<sent, inputBuffer, flushing, bleInbox, overflowed, due, got>>
-----------------------------------------------------------------------------
(* rx and flush.                                                            *)

\* The messages that end within these bytes.
Completed(bytes) ==
  {bytes[i].msg : i \in {j \in DOMAIN bytes : bytes[j].place = bytes[j].size}}

\* Mutated form of Kept: a late fragment is appended all the same.
KeptAnyway(late) == inputBuffer

Kept(late) == IF late THEN <<>> ELSE inputBuffer

\* Notes what a fragment means for the histories.
Note(fragment, late) ==
  LET restarts == late /\ ~inStep /\ fragment[1].place = 1 IN
  /\ inStep' = (restarts \/ (inStep /\ (late => fragment[1].place = 1)))
  /\ due' = (IF restarts THEN {} ELSE due) \cup Completed(fragment)
  /\ got' = IF restarts THEN <<>> ELSE got
  /\ overflowed' = (overflowed /\ ~restarts)

\* rx, up to its loop: a fragment that comes more than rxTimeout after the one before
\* starts anew.
Rx(n, late) ==
  /\ ~flushing /\ n <= Len(air)
  /\ late => faults < MaxFaults
  /\ faults' = faults + (IF late THEN 1 ELSE 0)
  /\ air' = Rest(air, n)
  /\ inputBuffer' = Kept(late) \o Prefix(air, n)
  /\ Note(Prefix(air, n), late)
  /\ flushing' = TRUE
  /\ UNCHANGED <<sent, bleInbox>>

msgLength == inputBuffer[1].val * Base + inputBuffer[2].val

\* Mutated form of TooLong: any length is believed.
NeverTooLong == FALSE

TooLong == Len(inputBuffer) >= 2 /\ msgLength > maxBLEMessageSize

Complete == Len(inputBuffer) >= 2 /\ ~TooLong /\ Len(inputBuffer) >= 2 + msgLength

\* Mutated form of FlushAgain: flush is called once for every fragment.
Once == FALSE

FlushAgain == TRUE

Deliver ==
  /\ flushing /\ Complete /\ Len(bleInbox) < BufferSize
  /\ bleInbox' = Append(bleInbox, SubSeq(inputBuffer, 3, 2 + msgLength))
  /\ got' = Append(got, [head |-> inputBuffer[1],
                         payload |-> SubSeq(inputBuffer, 3, 2 + msgLength)])
  /\ inputBuffer' = Rest(inputBuffer, 2 + msgLength)
  /\ flushing' = FlushAgain
  /\ UNCHANGED <<sent, air, faults, inStep, overflowed, due>>

\* The inbox is full: the frame is gone, and those behind it wait for the next fragment.
Drop ==
  /\ flushing /\ Complete /\ Len(bleInbox) >= BufferSize
  /\ inputBuffer' = Rest(inputBuffer, 2 + msgLength)
  /\ flushing' = FALSE
  /\ overflowed' = TRUE
  /\ UNCHANGED <<sent, air, bleInbox, faults, inStep, due, got>>

Discard ==
  /\ flushing /\ TooLong
  /\ inputBuffer' = <<>>
  /\ flushing' = FALSE
  /\ inStep' = FALSE
  /\ UNCHANGED <<sent, air, bleInbox, faults, overflowed, due, got>>

AwaitMore ==
  /\ flushing /\ ~TooLong /\ ~Complete
  /\ flushing' = FALSE
  /\ UNCHANGED <<sent, air, inputBuffer, bleInbox, faults, histories>>

\* The dispatcher's listener takes a message.
Receive ==
  /\ bleInbox # <<>>
  /\ bleInbox' = Tail(bleInbox)
  /\ UNCHANGED <<sent, air, inputBuffer, flushing, faults, histories>>

BleNext ==
  \/ \E p \in Payloads : Transmit(p)
  \/ \E n \in 1 .. MaxFragment : LoseFragment(n) \/ \E late \in BOOLEAN : Rx(n, late)
  \/ Deliver \/ Drop \/ Discard \/ AwaitMore \/ Receive

BleSpec == BleInit /\ [][BleNext]_bleVars
-----------------------------------------------------------------------------
\* What was put into the inbox is all of the payload of one message and nothing else.
Whole(g) ==
  /\ g.head.place = 1 /\ Len(g.payload) + 2 = g.head.size
  /\ \A i \in DOMAIN g.payload : g.payload[i].msg = g.head.msg /\ g.payload[i].place = i + 2

(***************************************************************************)
(* From the start, and again as soon as a frame begins after a pause of    *)
(* rxTimeout, whatever was lost, cut off or misread before: the payloads   *)
(* handed on are those the vehicle sent, whole and in order.               *)
(***************************************************************************)
MessagesIntact ==
  inStep =>
    \A j \in DOMAIN got :
      Whole(got[j]) /\ \A i \in 1 .. j - 1 : got[i].head.msg < got[j].head.msg

(***************************************************************************)
(* Unless the inbox was full, no message that has arrived stays behind in  *)
(* the buffer when rx returns, however the fragments are cut.              *)
(***************************************************************************)
NoneMissing ==
  inStep /\ ~overflowed /\ ~flushing => {got[i].head.msg : i \in DOMAIN got} = due

(***************************************************************************)
(* Unless the inbox was full, rx never waits for more than the longest     *)
(* message, although the length it waits for may be a misread one: what it *)
(* keeps is bounded.                                                       *)
(***************************************************************************)
BufferBounded == ~overflowed /\ ~flushing => Len(inputBuffer) < 2 + maxBLEMessageSize
=============================================================================
