-------------------------- MODULE ServerLinkProof --------------------------
(***************************************************************************)
(* Proofs about module ServerLink, for any number of frames.               *)
(*                                                                         *)
(* NoneForgotten is not inductive: telemetry is switched on after a sleep, *)
(* without a look at the command in the buffer.  It holds because at most  *)
(* the frame in the buffer waits, the echo takes that one, and a command   *)
(* that ends during the sleep does not count as waiting.                   *)
(***************************************************************************)
EXTENDS ServerLink, TLAPS

(* Only a whole frame waits, and only the one in the buffer. *)
OneWaits ==
  /\ lora_buffer.frame = frames
  /\ \A f \in Frame : fate[f] = "waiting" => f = frames /\ lora_buffer.whole

(* None waits while lora_send sleeps after an echo. *)
NoneSettles == spc = "settle" => \A f \in Frame : fate[f] # "waiting"

LinkInv == TypeOK /\ OneWaits /\ NoneSettles /\ NoneForgotten

(* It holds before the first frame, *)
LEMMA LinkInit == Init => LinkInv
<1> SUFFICES ASSUME Init PROVE LinkInv
  OBVIOUS
<1>1. fate \in [Frame -> Fate] /\ \A f \in Frame : fate[f] = "none"
  BY DEF Init, Fate
<1>2. /\ frames = 0 /\ spc = "top" /\ lora_buffer = [frame |-> 0, whole |-> TRUE]
  BY DEF Init
<1>3. send_status_data \in BOOLEAN /\ send_confirm_data \in BOOLEAN /\ flagging \in BOOLEAN
  BY DEF Init
<1>4. 0 \in 0 .. MaxFrames
  BY FramesAssumption
<1> QED
  BY <1>1, <1>2, <1>3, <1>4 DEF LinkInv, TypeOK, OneWaits, NoneSettles, NoneForgotten

(* and every step of the two threads keeps it. *)
LEMMA LinkNext == LinkInv /\ [Next]_vars => LinkInv'
<1> SUFFICES ASSUME LinkInv, [Next]_vars PROVE LinkInv'
  OBVIOUS
<1> USE FramesAssumption
<1> USE DEF LinkInv, TypeOK, OneWaits, NoneSettles, NoneForgotten, Frame, Fate
<1>1. CASE FrameBegins
  BY <1>1 DEF FrameBegins, Receiving
<1>2. CASE CommandEnds
  BY <1>2 DEF CommandEnds, Receiving
<1>3. CASE CommandFlagged
  BY <1>3 DEF CommandFlagged
<1>4. CASE QuietFrameEnds
  BY <1>4 DEF QuietFrameEnds, Receiving
<1>5. CASE Choose
  BY <1>5 DEF Choose, Goto
<1>6. CASE Telemetry
  BY <1>6 DEF Telemetry, Goto
<1>7. CASE Confirm
  BY <1>7 DEF Confirm, Goto
<1>8. CASE Settle
  BY <1>8 DEF Settle, Goto
<1>9. CASE Pause
  BY <1>9 DEF Pause, Goto
<1>10. CASE UNCHANGED vars
  BY <1>10 DEF vars
<1> QED
  BY <1>1, <1>2, <1>3, <1>4, <1>5, <1>6, <1>7, <1>8, <1>9, <1>10 DEF Next, lora_rec, lora_send

(* The state the two threads of raspberry.c share keeps its types. *)
THEOREM ServerLinkTypeCorrect == Spec => []TypeOK
<1>1. LinkInv => TypeOK
  BY DEF LinkInv
<1> QED
  BY <1>1, LinkInit, LinkNext, PTL DEF Spec

(* Whenever telemetry is on, no command waits for its confirmation,        *)
(* however many frames come and at whatever statement of lora_send.        *)
THEOREM ServerLinkNoneForgotten == Spec => []NoneForgotten
<1>1. LinkInv => NoneForgotten
  BY DEF LinkInv
<1> QED
  BY <1>1, LinkInit, LinkNext, PTL DEF Spec
=============================================================================
