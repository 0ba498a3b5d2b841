------------------------------- MODULE Cruise -------------------------------
(***************************************************************************)
(* The integer part of auto_cruise.c: from the bearing of the target and   *)
(* the heading of the boat to the widths of the two thrusters.  Angles     *)
(* count clockwise from north in the bearing that atan2 gives, and         *)
(* anticlockwise in the heading.  Sines, exponentials and great circles    *)
(* are tables.  Ki and Kd are 0 and never change, so the integral and the  *)
(* differential of the PID are left out.                                   *)
(***************************************************************************)
EXTENDS Integers

CONSTANTS Half,       \* 180 degrees
          Fine,       \* one degree: abs() cuts the error down to whole ones
          Distances,  \* metres to a target, whole ones
          NearLimit,  \* 5.5 m: from here on the thrust is proportional
          NearPush,   \* forward thrust by distance: 35 per metre
          FarPush,    \* forward thrust by distance and angle: a sigmoid
          Sway        \* steering thrust by error: a sigmoid

Quarter == Half \div 2
Abs(n) == IF n < 0 THEN -n ELSE n
Error   == -Half .. Half

(* Steering has the sign of the error.  Forward thrust has the sign of the *)
(* cosine, so it is negative when the target lies just behind the beam; it *)
(* is then small, and the steering is large.                               *)
ASSUME CruiseAssumption ==
  /\ Half \in Nat \ {0} /\ Fine \in Nat \ {0} /\ Quarter % Fine = 0
  /\ Distances \subseteq Nat /\ NearLimit \in Nat
  /\ NearPush \in [Distances -> Nat]
  /\ FarPush \in [Distances \X (0 .. Half) -> Int]
  /\ Sway \in [Error -> Int]
  /\ \A e \in Error : (e > 0 => Sway[e] >= 0) /\ (e < 0 => Sway[e] <= 0) /\ (e = 0 => Sway[e] = 0)
  /\ \A d \in Distances, e \in Error :
       \/ FarPush[<<d, Abs(e)>>] >= 0
       \/ Abs(e) > Quarter /\ -3 * FarPush[<<d, Abs(e)>>] <= Abs(Sway[e])

(* Division of C: towards zero; the divisor is positive. *)
Quot(a, b) == IF a < 0 THEN -((-a) \div b) ELSE a \div b

-----------------------------------------------------------------------------
(* The bearing, -Half .. Half clockwise, as an angle of the heading. *)
targe_theta(bearing) == IF bearing > 0 THEN 2 * Half - bearing ELSE Abs(bearing)

(* Mutant: the error is not brought into -180 .. 180. *)
EkUnturned(theta, current_theta) ==
  LET e == theta - current_theta
  IN  IF Abs(e) <= Half THEN e ELSE IF e > 0 THEN Half ELSE -Half

Ek(theta, current_theta) ==
  LET e == theta - current_theta
  IN  IF Abs(e) < Half THEN e ELSE IF e > 0 THEN e - 2 * Half ELSE e + 2 * Half

(* Far from the target the boat turns on the spot if it lies behind, by a  *)
(* whole degree; next to it the thrust depends on the distance alone.      *)
Forward(distance, e) ==
  IF distance <= NearLimit THEN NearPush[distance]
  ELSE IF Abs(e) >= Quarter + Fine THEN 0 ELSE FarPush[<<distance, Abs(e)>>]

(* Mutant: the sum is compared without abs. *)
ScaledSigned(f, s, max) ==
  IF f + s > max
  THEN [forward |-> Quot(max * f, f + Abs(s)), steer |-> Quot(max * s, f + Abs(s))]
  ELSE [forward |-> f, steer |-> s]

(* Forward and steering thrust scaled down to the speed limit. *)
Scaled(f, s, max) ==
  IF f + Abs(s) > max
  THEN [forward |-> Quot(max * f, f + Abs(s)), steer |-> Quot(max * s, f + Abs(s))]
  ELSE [forward |-> f, steer |-> s]
=============================================================================
