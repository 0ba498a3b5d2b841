------------------------------- MODULE Motor -------------------------------
(***************************************************************************)
(* The thruster outputs of applications/motor_pwm.c.  The manager thread   *)
(* calls set_pwm, which clamps its two arguments and stores them as        *)
(* targets, one assignment after the other.  The thread t_pwm              *)
(* (loop_change_pwm, the highest priority of the application) moves the    *)
(* current width of each channel towards its target by a fixed step and    *)
(* programs the timer, so one turn of its loop is one step here and may    *)
(* fall between the two assignments of set_pwm.                            *)
(*                                                                         *)
(* Widths are pulse widths in microseconds; Lo, Hi and Neutral are the     *)
(* 1000, 2000 and 1500 of the source.                                      *)
(***************************************************************************)
EXTENDS Integers

CONSTANTS Lo,        \* shortest width set_pwm accepts
          Hi,        \* longest width set_pwm accepts
          Neutral,   \* width after reset: thrusters stopped
          Requests   \* the widths (u_int) the manager may ask for

(* Only evenness of the three widths matters to the slew loop's step of 2. *)
ASSUME WidthAssumption ==
  /\ Lo \in Nat /\ Hi \in Nat /\ Neutral \in Nat
  /\ Lo <= Neutral /\ Neutral <= Hi
  /\ Lo % 2 = 0 /\ Hi % 2 = 0 /\ Neutral % 2 = 0
  /\ Requests \subseteq Nat

Channel == {"left", "right"}
Width   == Lo .. Hi

NoRight == -1                       \* set_pwm is not between its assignments

VARIABLES current,      \* current_left_pwm, current_right_pwm
          target,       \* target_left_pwm, target_right_pwm
          pulse,        \* width in ns programmed in the timer; 0 before init
          running,      \* init_motor_pwm done and t_pwm started
          pendingRight  \* right argument of a set_pwm that has stored the left

vars == <<current, target, pulse, running, pendingRight>>

Init ==
  /\ current = [c \in Channel |-> Neutral]
  /\ target  = [c \in Channel |-> Neutral]
  /\ pulse   = [c \in Channel |-> 0]
  /\ running = FALSE
  /\ pendingRight = NoRight

-----------------------------------------------------------------------------
Clamp(w) == IF w >= Hi THEN Hi ELSE IF w <= Lo THEN Lo ELSE w

(* Mutant: an odd step. *)
StepOfThree == 3

change_pwm_ceil == 2

(* One slew step of channel c; the two widths differ. *)
Toward(c) == IF current[c] > target[c] THEN current[c] - change_pwm_ceil
                                       ELSE current[c] + change_pwm_ceil

(* main() programs the neutral width and starts t_pwm.  The manager thread *)
(* is already running by then.                                             *)
thread_pwm ==
  /\ ~running
  /\ pulse' = [c \in Channel |-> Neutral * 1000]
  /\ running' = TRUE
  /\ UNCHANGED <<current, target, pendingRight>>

set_pwm_left(l, r) ==
  /\ pendingRight = NoRight
  /\ target' = [target EXCEPT !["left"] = Clamp(l)]
  /\ pendingRight' = Clamp(r)
  /\ UNCHANGED <<current, pulse, running>>

set_pwm_right ==
  /\ pendingRight # NoRight
  /\ target' = [target EXCEPT !["right"] = pendingRight]
  /\ pendingRight' = NoRight
  /\ UNCHANGED <<current, pulse, running>>

(* Mutant: the branch that raises a width is missing. *)
MovingDown == {c \in Channel : current[c] > target[c]}

Moving == {c \in Channel : current[c] # target[c]}

(* Mutant: both timer channels are programmed only if the left one moved. *)
loop_programs_with_left ==
  /\ running
  /\ Moving # {}
  /\ current' = [c \in Channel |-> IF c \in Moving THEN Toward(c) ELSE current[c]]
  /\ pulse' = IF "left" \in Moving THEN [c \in Channel |-> current'[c] * 1000] ELSE pulse
  /\ UNCHANGED <<target, running, pendingRight>>

loop_change_pwm ==
  /\ running
  /\ Moving # {}
  /\ current' = [c \in Channel |-> IF c \in Moving THEN Toward(c) ELSE current[c]]
  /\ pulse' = [c \in Channel |-> IF c \in Moving THEN Toward(c) * 1000 ELSE pulse[c]]
  /\ UNCHANGED <<target, running, pendingRight>>

Next ==
  \/ thread_pwm
  \/ \E l, r \in Requests : set_pwm_left(l, r)
  \/ set_pwm_right
  \/ loop_change_pwm

(* main and the two threads are scheduled for ever: t_pwm has the highest  *)
(* priority and sleeps only in rt_thread_mdelay, the manager has only t_pwm *)
(* and the raspberry threads above it, which sleep as well.  Nothing makes *)
(* the manager issue a further request.                                    *)
Fairness == WF_vars(thread_pwm) /\ WF_vars(set_pwm_right) /\ WF_vars(loop_change_pwm)

Spec == Init /\ [][Next]_vars /\ Fairness

-----------------------------------------------------------------------------
(* Types of the five variables of motor_pwm.c that this module keeps. *)
TypeOK ==
  /\ current \in [Channel -> Int]
  /\ target \in [Channel -> Width]
  /\ pulse \in [Channel -> Int]
  /\ running \in BOOLEAN
  /\ pendingRight \in Width \cup {NoRight}

(* The output never leaves the range set_pwm clamps to, although the slew  *)
(* loop moves in steps of two with no clamp of its own and may step past   *)
(* its target, and although targets change at any moment.                  *)
OutputInRange ==
  running => \A c \in Channel : pulse[c] \in (Lo * 1000) .. (Hi * 1000)

(* The timer is always programmed with the width the software believes it  *)
(* outputs, whatever subset of the channels a turn of the loop moved.      *)
OutputMatchesCurrent ==
  running => \A c \in Channel : pulse[c] = current[c] * 1000

(* Why OutputInRange holds: a width keeps the parity of the even bounds,   *)
(* so a step of two taken from inside the range cannot leave it.           *)
WidthsEven ==
  \A c \in Channel : current[c] \in Width /\ current[c] % 2 = 0

(* t_pwm moves nothing before init_motor_pwm has programmed the timer. *)
NeutralBeforeInit ==
  ~running => \A c \in Channel : current[c] = Neutral

Near(c) == current[c] - target[c] \in -1 .. 1

(* Once the manager stops changing its targets, both outputs end up within *)
(* one microsecond of them and stay there: an odd target is never reached, *)
(* the output alternates between its two even neighbours.                  *)
Settles ==
  <>[][UNCHANGED target]_vars => <>[](\A c \in Channel : Near(c))
=============================================================================
