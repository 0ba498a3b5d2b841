------------------------------- MODULE Thrust -------------------------------
(***************************************************************************)
(* Who moves the boat, and how fast (applications/manager.c 115-175): the  *)
(* remote's stick, the server's direction or the automatic cruise, mixed   *)
(* into two widths and handed to set_pwm of Motor.                         *)
(*                                                                         *)
(* The manager reads variables that two receivers write.  The server's     *)
(* receiver may run between any two of its reads, the remote's at the end  *)
(* of its time slice; so every read of the direction, of the stick and of  *)
(* the target is a step.  Positions and headings change only while the     *)
(* manager sleeps.                                                         *)
(***************************************************************************)
EXTENDS Motor, Cruise

CONSTANTS UintMod,     \* 2^32: the widths are unsigned
          Notch,       \* 100: width of one notch of speed
          StickMax,    \* 100: the end of the stick's range
          StickStep,   \* 10: width of one unit of the stick
          Centre, DeadZone,  \* 50 and 5: the stick is let go
          StartSpeed,  \* 3 notches
          Headings,    \* what the position receiver stores
          Sticks, Speeds, Directions, Modes, Places,  \* what the receivers store
          Unit, Cos, Sin,    \* tables of the cosine and the sine, in parts of Unit
          Angles,            \* the angles the tables are read at
          Course,      \* bearing and distance of a place, given by its two coordinates
          MaxInputs    \* bound on the frames and commands

NoPlace == 0           \* a coordinate below the 1 the code tests for
Stop    == -1          \* the direction that stops the boat
Coordinate == Places \cup {NoPlace}

ASSUME ThrustAssumption ==
  /\ UintMod \in Nat /\ Hi < UintMod
  /\ Notch \in Nat /\ StickMax \in Nat /\ StickStep \in Nat
  /\ Lo + StickMax * StickStep = Hi /\ StickMax * StickStep <= 2 * Lo
  /\ Centre \in 0 .. StickMax /\ Lo + Centre * StickStep = Neutral /\ DeadZone \in Nat
  /\ Lo + (StickMax - Centre) * StickStep = Neutral
  /\ Sticks \subseteq 0 .. StickMax /\ Directions \subseteq Int /\ Modes \subseteq Int
  /\ Speeds \subseteq Nat /\ \A s \in Speeds : 2 * Notch * s <= Neutral
  /\ StartSpeed \in Speeds /\ Headings \subseteq 0 .. 2 * Half - 1
  /\ Unit \in Nat \ {0} /\ Angles \subseteq Int
  /\ Cos \in [Angles -> -Unit .. Unit] /\ Sin \in [Angles -> -Unit .. Unit]
  /\ \A d \in Directions \cup {Stop}, q \in 0 .. 3 : d - 90 * q \in Angles
  /\ NoPlace \notin Places
  /\ Course \in [Coordinate \X Coordinate -> [bearing : Error, distance : Distances]]
  /\ MaxInputs \in Nat

VARIABLES pc, current_mode,
          key0, col, row, zoning,        \* the remote; zoning: inside its handler
          control_val, control_mode, hand_speed, auto_speed,
          target_lng, target_lat, current_theta,
          quadrant, speed_pwm, forward, lng,  \* locals of the manager
          max_control,
          request,                       \* the widths before they become unsigned
          seen,                          \* history: course and heading of the last cruise
          inputs                         \* number of frames and commands so far

remote  == <<key0, col, row, zoning>>
server  == <<control_val, control_mode, hand_speed, auto_speed, target_lng, target_lat>>
locals  == <<quadrant, speed_pwm, forward, lng, max_control, request, seen>>
thrust_vars == <<vars, pc, current_mode, remote, server, current_theta, locals, inputs>>

Still == <<Neutral, Neutral>>

(* A turn of the loop uses nothing of what the one before computed. *)
Forget ==
  /\ quadrant' = 0 /\ speed_pwm' = 0 /\ forward' = 0 /\ lng' = NoPlace
  /\ max_control' = 0 /\ request' = Still
  /\ seen' = [bearing |-> 0, theta |-> 0]

ThrustInit ==
  /\ Init
  /\ pc = "mode" /\ current_mode = 2
  /\ key0 = FALSE /\ col = Centre /\ row = Centre /\ zoning = FALSE
  /\ control_val = Stop /\ control_mode = 1 /\ hand_speed = StartSpeed /\ auto_speed = StartSpeed
  /\ target_lng = NoPlace /\ target_lat = NoPlace
  /\ current_theta = 0
  /\ quadrant = 0 /\ speed_pwm = 0 /\ forward = 0 /\ lng = NoPlace
  /\ max_control = 0 /\ request = Still
  /\ seen = [bearing |-> 0, theta |-> 0]
  /\ inputs = 0

-----------------------------------------------------------------------------
(* The manager. *)

Local == UNCHANGED <<vars, remote, server, current_theta, inputs>>

ChooseMode ==
  /\ pc = "mode"
  /\ current_mode' = IF key0 THEN 1
                     ELSE IF target_lat # NoPlace /\ target_lng # NoPlace /\ control_mode # 4
                     THEN 3 ELSE 2
  /\ pc' = CASE current_mode' = 1 -> "stick" [] current_mode' = 2 -> "hand"
             [] current_mode' = 3 -> "auto"
  /\ Local /\ UNCHANGED locals

(* remote_forward_pwm, from col: the stick's upper end is full ahead. *)
RemoteForward ==
  /\ pc = "stick"
  /\ forward' = Lo + (StickMax - col) * StickStep
  /\ pc' = "stick_row"
  /\ Local /\ UNCHANGED <<current_mode, quadrant, speed_pwm, lng, max_control, request, seen>>

RemoteSteer == Quot(row * StickStep + Lo - Neutral, 2)

RemoteMix ==
  /\ pc = "stick_row"
  /\ request' = <<forward + RemoteSteer, forward - RemoteSteer>>
  /\ pc' = "set"
  /\ Local /\ UNCHANGED <<current_mode, quadrant, speed_pwm, forward, lng, max_control, seen>>

(* Mutant: the notch is applied twice. *)
HandPwmTwice(notches) == Notch * Notch * notches

HandPwm(notches) == Notch * notches

(* Mutant: -1 is taken for an angle. *)
HandWithoutStop ==
  /\ pc = "hand"
  /\ speed_pwm' = HandPwm(hand_speed)
  /\ quadrant' = 0
  /\ pc' = "quadrant" /\ UNCHANGED request
  /\ Local /\ UNCHANGED <<current_mode, forward, lng, max_control, seen>>

Hand ==
  /\ pc = "hand"
  /\ speed_pwm' = HandPwm(hand_speed)
  /\ quadrant' = 0
  /\ IF control_val = Stop THEN pc' = "set" /\ request' = Still
                           ELSE pc' = "quadrant" /\ UNCHANGED request
  /\ Local /\ UNCHANGED <<current_mode, forward, lng, max_control, seen>>

(* Mutant: the last branch is not unconditional. *)
CompareOnly ==
  /\ pc = "quadrant"
  /\ IF control_val < 90 * (quadrant + 1)
     THEN pc' = "forward" /\ UNCHANGED quadrant
     ELSE quadrant' = quadrant + 1 /\ UNCHANGED pc
  /\ Local /\ UNCHANGED <<current_mode, speed_pwm, forward, lng, max_control, request, seen>>

(* One of the comparisons with 90, 180 and 270; each reads the direction. *)
Compare ==
  /\ pc = "quadrant"
  /\ IF quadrant = 3 \/ control_val < 90 * (quadrant + 1)
     THEN pc' = "forward" /\ UNCHANGED quadrant
     ELSE quadrant' = quadrant + 1 /\ UNCHANGED pc
  /\ Local /\ UNCHANGED <<current_mode, speed_pwm, forward, lng, max_control, request, seen>>

(* (int)(speed_pwm * cos(...)) and the same with sin, in the chosen branch. *)
Angle == control_val - 90 * quadrant
Part(table) == Quot(speed_pwm * table[Angle], Unit)

HandForward ==
  /\ pc = "forward"
  /\ forward' = CASE quadrant = 0 -> Part(Cos) [] quadrant = 1 -> -Part(Sin)
                  [] quadrant = 2 -> -Part(Cos) [] quadrant = 3 -> Part(Sin)
  /\ pc' = "steer"
  /\ Local /\ UNCHANGED <<current_mode, quadrant, speed_pwm, lng, max_control, request, seen>>

HandSteer ==
  /\ pc = "steer"
  /\ LET steer == CASE quadrant = 0 -> -Part(Sin) [] quadrant = 1 -> Part(Cos)
                    [] quadrant = 2 -> -Part(Sin) [] quadrant = 3 -> Part(Cos)
     IN  request' = <<Neutral + forward + steer, Neutral + forward - steer>>
  /\ pc' = "set"
  /\ Local /\ UNCHANGED <<current_mode, quadrant, speed_pwm, forward, lng, max_control, seen>>

AutoLng ==
  /\ pc = "auto"
  /\ max_control' = Notch * auto_speed
  /\ lng' = target_lng
  /\ pc' = "auto_lat"
  /\ Local /\ UNCHANGED <<current_mode, quadrant, speed_pwm, forward, request, seen>>

(* auto_cruise_pid, once it has read the target's second coordinate. *)
auto_cruise_pid ==
  /\ pc = "auto_lat"
  /\ LET course == Course[<<lng, target_lat>>]
         e      == Ek(targe_theta(course.bearing), current_theta)
         pwm    == Scaled(Forward(course.distance, e), Sway[e], max_control)
     IN  IF course.distance < 1
         THEN request' = Still /\ UNCHANGED seen
         ELSE /\ request' = <<Neutral + pwm.forward - pwm.steer, Neutral + pwm.forward + pwm.steer>>
              /\ seen' = [bearing |-> course.bearing, theta |-> current_theta]
  /\ pc' = "set"
  /\ Local /\ UNCHANGED <<current_mode, quadrant, speed_pwm, forward, lng, max_control>>

(* int to u_int. *)
Unsigned(w) == w % UintMod

SetLeft ==
  /\ pc = "set"
  /\ set_pwm_left(Unsigned(request[1]), Unsigned(request[2]))
  /\ pc' = "set_right"
  /\ UNCHANGED <<current_mode, remote, server, current_theta, locals, inputs>>

SetRight ==
  /\ pc = "set_right"
  /\ set_pwm_right
  /\ pc' = "sleep"
  /\ UNCHANGED <<current_mode, remote, server, current_theta, locals, inputs>>

Wake ==
  /\ pc = "sleep" /\ pc' = "mode"
  /\ Forget
  /\ Local /\ UNCHANGED current_mode

Manager ==
  \/ ChooseMode \/ RemoteForward \/ RemoteMix
  \/ Hand \/ Compare \/ HandForward \/ HandSteer
  \/ AutoLng \/ auto_cruise_pid
  \/ SetLeft \/ SetRight \/ Wake

-----------------------------------------------------------------------------
(* The receivers. *)

Input ==
  /\ inputs < MaxInputs /\ inputs' = inputs + 1
  /\ UNCHANGED <<vars, pc, current_mode, locals>>

(* The stick is stored as it comes, then its dead zone is applied. *)
JoystickFrame(c, r) ==
  /\ ~zoning /\ zoning' = TRUE
  /\ col' = c /\ row' = r
  /\ Input /\ UNCHANGED <<key0, server, current_theta>>

Zone(v) == IF Abs(v - Centre) < DeadZone THEN Centre ELSE v

JoystickZone ==
  /\ zoning /\ zoning' = FALSE
  /\ col' = Zone(col) /\ row' = Zone(row)
  /\ UNCHANGED <<vars, pc, current_mode, key0, server, current_theta, locals, inputs>>

KeyFrame ==
  /\ ~zoning
  /\ key0' \in BOOLEAN
  /\ Input /\ UNCHANGED <<col, row, zoning, server, current_theta>>

(* The manager releases the remote when it falls silent (see Supervisor). *)
RemoteTimeout ==
  /\ pc = "mode" /\ key0
  /\ key0' = FALSE
  /\ UNCHANGED <<vars, pc, current_mode, col, row, zoning, server, current_theta, locals, inputs>>

(* S1 *)
TargetCommand(p) ==
  /\ target_lng' = p /\ target_lat' = p
  /\ Input
  /\ UNCHANGED <<remote, control_val, control_mode, hand_speed, auto_speed, current_theta>>

(* S3; mode 3 clears one coordinate, twice. *)
ControlCommand(v, m) ==
  /\ control_val' = v /\ control_mode' = m
  /\ target_lat' = IF m = 3 THEN NoPlace ELSE target_lat
  /\ Input /\ UNCHANGED <<remote, hand_speed, auto_speed, target_lng, current_theta>>

(* S4 *)
SpeedCommand(h, a) ==
  /\ hand_speed' = h /\ auto_speed' = a
  /\ Input
  /\ UNCHANGED <<remote, control_val, control_mode, target_lng, target_lat, current_theta>>

(* The position receiver stores a new heading. *)
HeadingFrame(t) ==
  /\ pc = "sleep"
  /\ current_theta' = t
  /\ Input /\ UNCHANGED <<remote, server>>

Inputs ==
  \/ \E c, r \in Sticks : JoystickFrame(c, r)
  \/ JoystickZone \/ KeyFrame \/ RemoteTimeout
  \/ \E p \in Places : TargetCommand(p)
  \/ \E v \in Directions \cup {Stop}, m \in Modes : ControlCommand(v, m)
  \/ \E h, a \in Speeds : SpeedCommand(h, a)
  \/ \E t \in Headings : HeadingFrame(t)

Outputs ==
  /\ thread_pwm \/ loop_change_pwm
  /\ UNCHANGED <<pc, current_mode, remote, server, current_theta, locals, inputs>>

ThrustNext == Manager \/ Inputs \/ Outputs

(* The manager and t_pwm sleep only in rt_thread_mdelay, the receiver of   *)
(* the remote finishes what it began; the operators owe nothing.           *)
ThrustSpec ==
  /\ ThrustInit /\ [][ThrustNext]_thrust_vars
  /\ WF_thrust_vars(Manager) /\ WF_thrust_vars(Outputs) /\ WF_thrust_vars(JoystickZone)

-----------------------------------------------------------------------------
(* Types of the manager's variables and of what the receivers store. *)
ThrustTypeOK ==
  /\ TypeOK
  /\ current_mode \in {1, 2, 3}
  /\ key0 \in BOOLEAN /\ col \in 0 .. StickMax /\ row \in 0 .. StickMax /\ zoning \in BOOLEAN
  /\ control_val \in Directions \cup {Stop} /\ control_mode \in Modes \cup {1}
  /\ hand_speed \in Speeds /\ auto_speed \in Speeds
  /\ target_lng \in Coordinate /\ target_lat \in Coordinate /\ lng \in Coordinate
  /\ current_theta \in 0 .. 2 * Half - 1
  /\ quadrant \in 0 .. 3 /\ forward \in Int
  /\ request \in Int \X Int
  /\ inputs \in 0 .. MaxInputs

(* No mixed width is negative, so none becomes a huge unsigned one that    *)
(* set_pwm takes for full ahead: not even if the direction changes between *)
(* the reads, so that forward and steering thrust are of two commands.     *)
NeverWraps == request[1] >= 0 /\ request[2] >= 0

(* By how much the boat must turn to the left to face the target, counted  *)
(* from the compass.                                                       *)
LeftTurn == (-seen.bearing - seen.theta) % (2 * Half)

(* The target lies behind the beam, by less than a degree. *)
JustAbaft == \E a \in Quarter + 1 .. Quarter + Fine - 1 : LeftTurn = a \/ LeftTurn = 2 * Half - a

(* The automatic cruise keeps both thrusters within the speed the server   *)
(* allows, whatever distance and error it computes from.  The exception is *)
(* the degree behind the beam that abs() cuts off: there the cosine is     *)
(* negative, the sum the scaling divides by is too small, and the limit is *)
(* exceeded, at most doubled.                                              *)
CruiseWithinSpeed ==
  pc = "set" /\ current_mode = 3 =>
    \A i \in {1, 2} :
      LET width == Abs(request[i] - Neutral)
      IN  width <= max_control \/ (JustAbaft /\ width <= 2 * max_control)

(* The automatic cruise turns the boat to the side on which the target is  *)
(* at most half a turn away: to the left if the right thruster is faster.  *)
TurnsTheShortWay ==
  pc = "set" /\ current_mode = 3 =>
    /\ request[2] > request[1] => LeftTurn \in 1 .. Half
    /\ request[2] < request[1] => LeftTurn \in Half .. 2 * Half - 1

(* Nobody wants the boat to move: the remote is in command and its stick   *)
(* let go, or the server is, without a target and with direction -1.       *)
AtRest ==
  IF key0 THEN col = Centre /\ row = Centre
          ELSE control_val = Stop /\ (target_lat = NoPlace \/ control_mode = 4)

(* When nobody wants the boat to move any more both thrusters end up at    *)
(* neutral, whatever the manager was about to do.                          *)
ComesToRest ==
  <>[]AtRest => <>[](\A c \in Channel : current[c] = Neutral)
=============================================================================
