----------------------------- MODULE ServerLink -----------------------------
(***************************************************************************)
(* The two threads of applications/raspberry.c that talk to the server     *)
(* over one UART: lora_rec collects a frame in lora_buffer and applies it, *)
(* lora_send writes telemetry and, after a command, echoes lora_buffer as  *)
(* the confirmation.  They share lora_buffer, send_status_data and         *)
(* send_confirm_data without a lock, and both have priority 2: one runs    *)
(* while the other sleeps or at the end of a time slice.                   *)
(*                                                                         *)
(* A frame is its number; it is a command that asks for a confirmation     *)
(* (types 1, 2, 4, 5, 6) or a quiet one (3 control, 8 heartbeat, unknown,  *)
(* or cut off when it fills the buffer).                                   *)
(***************************************************************************)
EXTENDS Integers

CONSTANT MaxFrames  \* bound on the frames of a behaviour

ASSUME FramesAssumption == MaxFrames \in Nat

Frame == 1 .. MaxFrames

VARIABLES send_status_data, send_confirm_data,  \* BOOLEAN for 0 and 1
          lora_buffer,  \* the frame in it, and whether it is there to the end
          frames,       \* frames begun so far
          flagging,     \* lora_rec is between its two assignments for a command
          spc,          \* where lora_send is
          fate          \* history: what became of each command

vars == <<send_status_data, send_confirm_data, lora_buffer, frames, flagging, spc, fate>>

Receiving == frames > 0 /\ ~lora_buffer.whole

(* "none": not a command, or not complete; "waiting" for its confirmation; *)
(* "echoed"; "overtaken": another frame overwrote it in the buffer first;  *)
(* "late": complete while lora_send slept after a confirmation.            *)
Fate == {"none", "waiting", "echoed", "overtaken", "late"}

Init ==
  /\ send_status_data = TRUE /\ send_confirm_data = FALSE
  /\ lora_buffer = [frame |-> 0, whole |-> TRUE]
  /\ frames = 0 /\ flagging = FALSE
  /\ spc = "top"
  /\ fate = [f \in Frame |-> "none"]

-----------------------------------------------------------------------------
(* lora_rec stores the first bytes of the next frame. *)
FrameBegins ==
  /\ ~Receiving /\ ~flagging /\ frames < MaxFrames
  /\ frames' = frames + 1
  /\ lora_buffer' = [frame |-> frames + 1, whole |-> FALSE]
  /\ fate' = [f \in Frame |-> IF fate[f] = "waiting" THEN "overtaken" ELSE fate[f]]
  /\ UNCHANGED <<send_status_data, send_confirm_data, flagging, spc>>

(* Mutant: telemetry is not interrupted. *)
CommandEndsQuietly ==
  /\ Receiving
  /\ lora_buffer' = [lora_buffer EXCEPT !.whole = TRUE]
  /\ flagging' = TRUE
  /\ fate' = [fate EXCEPT ![frames] = IF spc = "settle" THEN "late" ELSE "waiting"]
  /\ UNCHANGED <<send_status_data, send_confirm_data, frames, spc>>

(* The 'Z' of a command: applied (see the other modules), to be confirmed. *)
CommandEnds ==
  /\ Receiving
  /\ lora_buffer' = [lora_buffer EXCEPT !.whole = TRUE]
  /\ send_status_data' = FALSE
  /\ flagging' = TRUE
  /\ fate' = [fate EXCEPT ![frames] = IF spc = "settle" THEN "late" ELSE "waiting"]
  /\ UNCHANGED <<send_confirm_data, frames, spc>>

CommandFlagged ==
  /\ flagging
  /\ send_confirm_data' = TRUE
  /\ flagging' = FALSE
  /\ UNCHANGED <<send_status_data, lora_buffer, frames, spc, fate>>

QuietFrameEnds ==
  /\ Receiving
  /\ lora_buffer' = [lora_buffer EXCEPT !.whole = TRUE]
  /\ UNCHANGED <<send_status_data, send_confirm_data, frames, flagging, spc, fate>>

lora_rec == FrameBegins \/ CommandEnds \/ CommandFlagged \/ QuietFrameEnds

-----------------------------------------------------------------------------
Goto(from, to) == spc = from /\ spc' = to

(* The test at the top of the loop. *)
Choose ==
  /\ Goto("top", IF send_status_data THEN "C" ELSE IF send_confirm_data THEN "confirm" ELSE "pause")
  /\ UNCHANGED <<send_status_data, send_confirm_data, lora_buffer, frames, flagging, fate>>

(* Telemetry: the draw state at most once a second, the water readings     *)
(* after a draw, the obstacles if one is near, then always the position;   *)
(* each line is followed by a sleep.                                       *)
Telemetry ==
  /\ Goto("C", "B") \/ Goto("B", "D") \/ Goto("D", "A") \/ Goto("A", "pause")
  /\ UNCHANGED <<send_status_data, send_confirm_data, lora_buffer, frames, flagging, fate>>

(* Echo the buffer, whatever is in it by now. *)
Confirm ==
  /\ Goto("confirm", "settle")
  /\ fate' = IF lora_buffer.whole /\ fate[lora_buffer.frame] = "waiting"
             THEN [fate EXCEPT ![lora_buffer.frame] = "echoed"] ELSE fate
  /\ UNCHANGED <<send_status_data, send_confirm_data, lora_buffer, frames, flagging>>

(* Mutant: telemetry is not switched on again. *)
SettleForgets ==
  /\ Goto("settle", "pause")
  /\ UNCHANGED <<send_status_data, send_confirm_data, lora_buffer, frames, flagging, fate>>

(* After the sleep that follows the echo. *)
Settle ==
  /\ Goto("settle", "pause")
  /\ send_status_data' = TRUE
  /\ UNCHANGED <<send_confirm_data, lora_buffer, frames, flagging, fate>>

Pause ==
  /\ Goto("pause", "top")
  /\ UNCHANGED <<send_status_data, send_confirm_data, lora_buffer, frames, flagging, fate>>

lora_send == Choose \/ Telemetry \/ Confirm \/ Settle \/ Pause

Next == lora_rec \/ lora_send

(* lora_send only sleeps, and lora_rec never sleeps between two assignments; *)
(* the server may stop in mid-frame.                                       *)
Fairness == WF_vars(lora_send) /\ WF_vars(CommandFlagged)

Spec == Init /\ [][Next]_vars /\ Fairness

-----------------------------------------------------------------------------
(* Types of the state the two threads share. *)
TypeOK ==
  /\ send_status_data \in BOOLEAN /\ send_confirm_data \in BOOLEAN
  /\ frames \in 0 .. MaxFrames /\ flagging \in BOOLEAN
  /\ lora_buffer \in [frame : 0 .. MaxFrames, whole : BOOLEAN]
  /\ spc \in {"top", "C", "B", "D", "A", "confirm", "settle", "pause"}
  /\ fate \in [Frame -> Fate]

(* When telemetry is on, no command is waiting: a confirmation is missed   *)
(* only because another frame came before the echo or because the command  *)
(* came during the sleep after the previous echo.                          *)
NoneForgotten ==
  send_status_data => \A f \in Frame : fate[f] # "waiting"

(* Telemetry never stops for good: every command that interrupts it gives  *)
(* it back.                                                                *)
TelemetryResumes == []<>(spc = "A")
=============================================================================
