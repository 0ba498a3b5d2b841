---------------------------- MODULE ThrustProof ----------------------------
(***************************************************************************)
(* What the manager asks of the thrusters, for every speed, table, course  *)
(* and order of frames.  The invariant bounds each part of a mixed width   *)
(* where it is computed, so that the bound survives commands that arrive   *)
(* between the parts.                                                      *)
(***************************************************************************)
EXTENDS Thrust, MotorProof

-----------------------------------------------------------------------------
(* Arithmetic of C on the widths. *)

(* Integer division rounds down. *)
LEMMA QuotientBelow ==
  ASSUME NEW a \in Nat, NEW b \in Nat \ {0}
  PROVE  a \div b \in Nat /\ b * (a \div b) <= a
OBVIOUS

(* A quotient is bounded by the factor its dividend is bounded by. *)
LEMMA QuotBound ==
  ASSUME NEW a \in Int, NEW b \in Nat \ {0}, NEW m \in Nat, -(m * b) <= a, a <= m * b
  PROVE  Quot(a, b) \in -m .. m
<1>1. CASE a >= 0
  <2>1. a \div b \in Nat /\ b * (a \div b) <= a
    BY <1>1
  <2>2. a \div b <= m
    BY <2>1
  <2> QED
    BY <1>1, <2>1, <2>2 DEF Quot
<1>2. CASE a < 0
  <2>1. -a \in Nat
    BY <1>2
  <2>2. (-a) \div b \in Nat /\ b * ((-a) \div b) <= -a
    BY <2>1
  <2>3. (-a) \div b <= m
    BY <2>2
  <2> QED
    BY <1>2, <2>2, <2>3 DEF Quot
<1> QED
  BY <1>1, <1>2

(* A scaled thrust keeps its sign; its size is the quotient of sizes. *)
LEMMA QuotSign ==
  ASSUME NEW m \in Nat, NEW x \in Int, NEW n \in Nat \ {0}
  PROVE  /\ Abs(x) \in Nat /\ m * Abs(x) \in Nat
         /\ Quot(m * x, n) = IF x < 0 THEN -((m * Abs(x)) \div n) ELSE (m * Abs(x)) \div n
<1>1. Abs(x) \in Nat
  BY DEF Abs
<1>2. m * Abs(x) \in Nat
  BY <1>1
<1>3. CASE x >= 0
  BY <1>2, <1>3 DEF Quot, Abs
<1>4. CASE x < 0
  <2>1. -(m * x) = m * Abs(x) /\ m * x <= 0
    BY <1>4 DEF Abs
  <2>2. CASE m * x < 0
    BY <1>1, <1>2, <1>4, <2>1, <2>2 DEF Quot
  <2>3. CASE m * x = 0
    <3>1. 0 \div n = 0
      OBVIOUS
    <3>2. m * Abs(x) = 0
      BY <2>1, <2>3
    <3> QED
      BY <1>1, <1>2, <1>4, <2>3, <3>1, <3>2 DEF Quot
  <2> QED
    BY <2>1, <2>2, <2>3
<1> QED
  BY <1>3, <1>4

(* Scaling keeps the sizes of both thrusts within k times the limit if     *)
(* they are within k times the sum it divides by; and the boat is steered  *)
(* to the same side.                                                       *)
LEMMA ScaledBound ==
  ASSUME NEW f \in Int, NEW s \in Int, NEW max \in Nat, NEW k \in {1, 2},
         Abs(f) + Abs(s) <= k * (f + Abs(s))
  PROVE  LET p == Scaled(f, s, max)
         IN  /\ p.forward \in Int /\ p.steer \in Int
             /\ Abs(p.forward) + Abs(p.steer) <= k * max
             /\ (p.steer > 0 => s > 0) /\ (p.steer < 0 => s < 0)
<1> DEFINE n == f + Abs(s)
           q == (max * Abs(f)) \div n
           t == (max * Abs(s)) \div n
<1>1. CASE n <= max
  <2>1. k * n <= k * max
    BY <1>1 DEF Abs
  <2> QED
    BY <1>1, <2>1 DEF Scaled, Abs
<1>2. CASE n > max
  <2>1. n \in Nat \ {0}
    BY <1>2 DEF Abs
  <2>2. /\ Abs(f) \in Nat /\ max * Abs(f) \in Nat
        /\ Quot(max * f, n) = IF f < 0 THEN -q ELSE q
    <3> HIDE DEF n
    <3> QED
      BY <2>1, QuotSign
  <2>3. /\ Abs(s) \in Nat /\ max * Abs(s) \in Nat
        /\ Quot(max * s, n) = IF s < 0 THEN -t ELSE t
    <3> HIDE DEF n
    <3> QED
      BY <2>1, QuotSign
  <2>4. q \in Nat /\ n * q <= max * Abs(f)
    <3> HIDE DEF n
    <3> QED
      BY <2>1, <2>2, QuotientBelow, Zenon
  <2>5. t \in Nat /\ n * t <= max * Abs(s)
    <3> HIDE DEF n
    <3> QED
      BY <2>1, <2>3, QuotientBelow, Zenon
  <2>6. Abs(f) + Abs(s) <= k * n
    OBVIOUS
  <2>7. max * (Abs(f) + Abs(s)) <= max * (k * n)
    <3> HIDE DEF n
    <3> QED
      BY <2>1, <2>2, <2>3, <2>6
  <2>8. n * (q + t) <= n * (k * max)
    <3> HIDE DEF n, q, t
    <3>1. n * (q + t) = n * q + n * t
      BY <2>1, <2>4, <2>5
    <3>2. max * (Abs(f) + Abs(s)) = max * Abs(f) + max * Abs(s)
      BY <2>2, <2>3
    <3>3. max * (k * n) = n * (k * max)
      BY <2>1
    <3>4. n * q \in Int /\ n * t \in Int /\ n * (k * max) \in Int
      BY <2>1, <2>4, <2>5
    <3> QED
      BY <2>2, <2>3, <2>4, <2>5, <2>7, <3>1, <3>2, <3>3, <3>4
  <2>9. q + t <= k * max
    <3> HIDE DEF n, q, t
    <3> QED
      BY <2>1, <2>4, <2>5, <2>8
  <2>10. Scaled(f, s, max) = [forward |-> IF f < 0 THEN -q ELSE q, steer |-> IF s < 0 THEN -t ELSE t]
    BY <1>2, <2>2, <2>3 DEF Scaled
  <2>11. s = 0 => t = 0
    <3> HIDE DEF n, t
    <3> QED
      BY <2>1, <2>5 DEF Abs
  <2> HIDE DEF n, q, t
  <2> QED
    BY <2>4, <2>5, <2>9, <2>10, <2>11 DEF Abs
<1> QED
  BY <1>1, <1>2 DEF Abs

(* The error is an angle of at most half a turn, and the way from the      *)
(* heading to the target: turning left by it ends at the target's bearing. *)
LEMMA EkShortest ==
  ASSUME NEW b \in Error, NEW h \in 0 .. 2 * Half - 1
  PROVE  LET e    == Ek(targe_theta(b), h)
             left == (-b - h) % (2 * Half)
         IN  /\ e \in Error
             /\ e > 0 => left = e
             /\ e < 0 => left = e + 2 * Half
<1> DEFINE n == 2 * Half
           e == Ek(targe_theta(b), h)
           x == -b - h
<1>1. Half \in Nat \ {0} /\ b \in Int /\ h \in Int
  BY CruiseAssumption DEF Error
<1>2. e \in Error
  BY <1>1, CruiseAssumption DEF Ek, targe_theta, Abs, Error
<1>3. e = x \/ e = x + n \/ e = x + 2 * n \/ e = x - n
  BY <1>1 DEF Ek, targe_theta, Abs
<1>4. n \in Nat \ {0} /\ x \in Int
  BY <1>1
<1>5. ASSUME NEW y \in 0 .. n - 1, y = x \/ y = x + n \/ y = x + 2 * n \/ y = x + 3 * n \/ y = x - n
      PROVE  x % n = y
  <2> HIDE DEF n, x
  <2> QED
    BY <1>4, <1>5
<1>6. ASSUME e > 0 PROVE x % n = e
  <2>1. e \in 0 .. n - 1
    BY <1>1, <1>2, <1>6 DEF Error
  <2> HIDE DEF e, n, x
  <2> QED
    BY <1>3, <1>5, <2>1
<1>7. ASSUME e < 0 PROVE x % n = e + n
  <2>1. e + n \in 0 .. n - 1
    BY <1>1, <1>2, <1>7 DEF Error
  <2>2. \/ e + n = x + n \/ e + n = x + 2 * n \/ e + n = x + 3 * n \/ e + n = x
    BY <1>3, <1>4
  <2> HIDE DEF e, n, x
  <2> QED
    BY <1>5, <2>1, <2>2
<1> QED
  BY <1>2, <1>6, <1>7

-----------------------------------------------------------------------------
(* Which mode the manager is in at each of its places. *)
PlaceOfMode ==
  /\ pc \in {"mode", "stick", "stick_row", "hand", "quadrant", "forward", "steer",
            "auto", "auto_lat", "set", "set_right", "sleep"}
  /\ pc \in {"stick", "stick_row"} => current_mode = 1
  /\ pc \in {"hand", "quadrant", "forward", "steer"} => current_mode = 2
  /\ pc \in {"auto", "auto_lat"} => current_mode = 3

(* The parts of a mixed width, between their computation and their use. *)
PartsBounded ==
  /\ speed_pwm \in Nat /\ 2 * speed_pwm <= Neutral
  /\ max_control \in Nat /\ 2 * max_control <= Neutral
  /\ pc = "stick_row" => forward \in Lo .. Hi
  /\ pc = "steer" => forward \in -speed_pwm .. speed_pwm

ThrustInv ==
  /\ ThrustTypeOK /\ PlaceOfMode /\ PartsBounded
  /\ NeverWraps /\ CruiseWithinSpeed /\ TurnsTheShortWay

(* A speed the server may send fits twice below the neutral width. *)
LEMMA SpeedBound ==
  ASSUME NEW s \in Speeds
  PROVE  Notch * s \in Nat /\ 2 * (Notch * s) <= Neutral
<1>1. s \in Nat /\ Notch \in Nat /\ 2 * Notch * s <= Neutral
  BY ThrustAssumption
<1> QED
  BY <1>1

(* The part of the speed that a direction gives one thruster. *)
LEMMA PartBound ==
  ASSUME ThrustTypeOK, PartsBounded, NEW t, t \in {Cos, Sin}
  PROVE  Part(t) \in -speed_pwm .. speed_pwm
<1>1. Angle \in Angles
  BY ThrustAssumption DEF ThrustTypeOK, Angle
<1>2. t[Angle] \in -Unit .. Unit
  BY <1>1, ThrustAssumption
<1>3. Unit \in Nat \ {0} /\ speed_pwm \in Nat
  BY ThrustAssumption DEF PartsBounded
<1> DEFINE c == t[Angle]
<1>4. speed_pwm * c \in Int /\ -(speed_pwm * Unit) <= speed_pwm * c /\ speed_pwm * c <= speed_pwm * Unit
  <2> HIDE DEF c
  <2>1. c \in Int /\ -Unit <= c /\ c <= Unit
    BY <1>2, <1>3 DEF c
  <2> QED
    BY <1>3, <2>1
<1> HIDE DEF c
<1>5. Quot(speed_pwm * c, Unit) \in -speed_pwm .. speed_pwm
  BY <1>3, <1>4, QuotBound
<1> QED
  BY <1>5 DEF Part, c

(* The stick moves the widths by at most what it moves them forward. *)
LEMMA StickBound ==
  ASSUME ThrustTypeOK
  PROVE  /\ Lo + (StickMax - col) * StickStep \in Lo .. Hi
         /\ RemoteSteer \in -Lo .. Lo
<1>1. /\ col \in Int /\ 0 <= col /\ col <= StickMax
      /\ row \in Int /\ 0 <= row /\ row <= StickMax
      /\ StickMax \in Nat /\ StickStep \in Nat /\ Centre \in Nat /\ Centre <= StickMax
  BY ThrustAssumption DEF ThrustTypeOK
<1>2. /\ Lo \in Nat /\ Hi \in Nat /\ Neutral \in Nat
      /\ Lo + StickMax * StickStep = Hi /\ StickMax * StickStep <= 2 * Lo
      /\ Lo + Centre * StickStep = Neutral
  BY WidthAssumption, ThrustAssumption
<1>3. /\ (StickMax - col) * StickStep \in Nat
      /\ (StickMax - col) * StickStep <= StickMax * StickStep
  BY <1>1
<1>4. /\ row * StickStep \in Nat /\ row * StickStep <= StickMax * StickStep
      /\ Centre * StickStep \in Nat /\ Centre * StickStep <= StickMax * StickStep
  BY <1>1
<1> DEFINE r == row * StickStep
           m == StickMax * StickStep
           k == Centre * StickStep
           c == (StickMax - col) * StickStep
           a == r + Lo - Neutral
<1>5. /\ r \in Nat /\ k \in Nat /\ c \in Nat /\ m \in Int
      /\ r <= m /\ k <= m /\ c <= m
      /\ Lo + m = Hi /\ m <= 2 * Lo /\ Lo + k = Neutral
  BY <1>1, <1>2, <1>3, <1>4
<1>6. RemoteSteer = Quot(a, 2)
  BY DEF RemoteSteer
<1> HIDE DEF r, m, k, c
<1>7. a \in Int /\ -(Lo * 2) <= a /\ a <= Lo * 2
  BY <1>2, <1>5
<1>8. Lo + c \in Lo .. Hi
  BY <1>2, <1>5
<1> HIDE DEF a
<1>9. Quot(a, 2) \in -Lo .. Lo
  BY <1>2, <1>7, QuotBound
<1> QED
  BY <1>6, <1>8, <1>9 DEF c

(* What the cruise asks for is within its limit, or the target lies within *)
(* a degree behind the beam and it is within twice the limit; and it turns *)
(* the boat the shorter way.                                               *)
LEMMA CruiseBound ==
  ASSUME ThrustTypeOK, PartsBounded
  PROVE  LET course == Course[<<lng, target_lat>>]
             e      == Ek(targe_theta(course.bearing), current_theta)
             pwm    == Scaled(Forward(course.distance, e), Sway[e], max_control)
             left   == (-course.bearing - current_theta) % (2 * Half)
         IN  /\ pwm.forward \in Int /\ pwm.steer \in Int
             /\ \/ Abs(pwm.forward) + Abs(pwm.steer) <= max_control
                \/ /\ Abs(pwm.forward) + Abs(pwm.steer) <= 2 * max_control
                   /\ \E a \in Quarter + 1 .. Quarter + Fine - 1 : left = a \/ left = 2 * Half - a
             /\ pwm.steer > 0 => left \in 1 .. Half
             /\ pwm.steer < 0 => left \in Half .. 2 * Half - 1
<1> DEFINE course == Course[<<lng, target_lat>>]
           b      == course.bearing
           e      == Ek(targe_theta(b), current_theta)
           f      == Forward(course.distance, e)
           pwm    == Scaled(f, Sway[e], max_control)
           left   == (-b - current_theta) % (2 * Half)
<1>1. course \in [bearing : Error, distance : Distances]
  BY ThrustAssumption DEF ThrustTypeOK
<1>2. b \in Error /\ course.distance \in Distances /\ current_theta \in 0 .. 2 * Half - 1
  BY <1>1 DEF ThrustTypeOK
<1>3. Half \in Nat \ {0} /\ Fine \in Nat \ {0} /\ Quarter \in Nat /\ max_control \in Nat
  BY CruiseAssumption DEF PartsBounded, Quarter
<1>4. e \in Error /\ (e > 0 => left = e) /\ (e < 0 => left = e + 2 * Half)
  <2> HIDE DEF b
  <2> QED
    BY <1>2, EkShortest
<1> HIDE DEF e, left, course
<1>5. e \in Int /\ Abs(e) \in 0 .. Half
  BY <1>3, <1>4 DEF Error, Abs
<1>6. /\ Sway[e] \in Int /\ (Sway[e] > 0 => e > 0) /\ (Sway[e] < 0 => e < 0)
  <2>1. Sway[e] \in Int
    BY <1>4, CruiseAssumption
  <2>2. (e > 0 => Sway[e] >= 0) /\ (e < 0 => Sway[e] <= 0) /\ (e = 0 => Sway[e] = 0)
    BY <1>4, CruiseAssumption
  <2> QED
    BY <1>5, <2>1, <2>2
<1>7. f \in Int /\ (f >= 0 \/ (Abs(e) > Quarter /\ Abs(e) < Quarter + Fine /\ -3 * f <= Abs(Sway[e])))
  <2>1. CASE course.distance <= NearLimit
    <3>1. f = NearPush[course.distance]
      BY <2>1 DEF Forward
    <3>2. NearPush[course.distance] \in Nat
      BY <1>2, CruiseAssumption
    <3> QED
      BY <3>1, <3>2
  <2>2. CASE ~(course.distance <= NearLimit) /\ Abs(e) >= Quarter + Fine
    BY <2>2 DEF Forward
  <2>3. CASE ~(course.distance <= NearLimit) /\ ~(Abs(e) >= Quarter + Fine)
    <3>1. f = FarPush[<<course.distance, Abs(e)>>]
      BY <2>3 DEF Forward
    <3>2. <<course.distance, Abs(e)>> \in Distances \X (0 .. Half)
      BY <1>2, <1>5
    <3>3. f \in Int
      BY <3>1, <3>2, CruiseAssumption
    <3>4. f >= 0 \/ (Abs(e) > Quarter /\ -3 * f <= Abs(Sway[e]))
      BY <1>2, <1>4, <3>1, CruiseAssumption
    <3> HIDE DEF f
    <3> QED
      BY <1>3, <1>5, <2>3, <3>3, <3>4
  <2> QED
    BY <2>1, <2>2, <2>3
<1> HIDE DEF f
<1>8. ASSUME NEW k \in {1, 2}, Abs(f) + Abs(Sway[e]) <= k * (f + Abs(Sway[e]))
      PROVE  /\ pwm.forward \in Int /\ pwm.steer \in Int
             /\ Abs(pwm.forward) + Abs(pwm.steer) <= k * max_control
             /\ (pwm.steer > 0 => Sway[e] > 0) /\ (pwm.steer < 0 => Sway[e] < 0)
  BY <1>3, <1>6, <1>7, <1>8, ScaledBound
<1> HIDE DEF pwm
<1>9. /\ pwm.forward \in Int /\ pwm.steer \in Int
      /\ (pwm.steer > 0 => Sway[e] > 0) /\ (pwm.steer < 0 => Sway[e] < 0)
      /\ \/ Abs(pwm.forward) + Abs(pwm.steer) <= max_control
         \/ /\ Abs(pwm.forward) + Abs(pwm.steer) <= 2 * max_control
            /\ Abs(e) \in Quarter + 1 .. Quarter + Fine - 1
  <2>1. CASE f >= 0
    <3>1. Abs(f) + Abs(Sway[e]) <= 1 * (f + Abs(Sway[e]))
      BY <1>6, <1>7, <2>1 DEF Abs
    <3>2. 1 * max_control = max_control
      BY <1>3
    <3> QED
      BY <1>8, <3>1, <3>2
  <2>2. CASE f < 0
    <3>1. Abs(f) + Abs(Sway[e]) <= 2 * (f + Abs(Sway[e]))
      BY <1>6, <1>7, <2>2 DEF Abs
    <3>2. Abs(e) \in Quarter + 1 .. Quarter + Fine - 1
      BY <1>3, <1>5, <1>7, <2>2
    <3> QED
      BY <1>8, <3>1, <3>2
  <2> QED
    BY <1>7, <2>1, <2>2
<1>10. Abs(e) \in Quarter + 1 .. Quarter + Fine - 1
         => \E a \in Quarter + 1 .. Quarter + Fine - 1 : left = a \/ left = 2 * Half - a
  <2> SUFFICES ASSUME Abs(e) \in Quarter + 1 .. Quarter + Fine - 1
               PROVE  left = Abs(e) \/ left = 2 * Half - Abs(e)
    OBVIOUS
  <2>1. e # 0
    BY <1>3, <1>5 DEF Abs
  <2> QED
    BY <1>3, <1>4, <1>5, <2>1 DEF Abs
<1>11. pwm.steer > 0 => left \in 1 .. Half
  BY <1>3, <1>4, <1>6, <1>9 DEF Error
<1>12. pwm.steer < 0 => left \in Half .. 2 * Half - 1
  BY <1>3, <1>4, <1>6, <1>9 DEF Error
<1> QED
  BY <1>9, <1>10, <1>11, <1>12 DEF pwm, left, e, f, course

-----------------------------------------------------------------------------
LEMMA ThrustInitInv ==
  ASSUME ThrustInit
  PROVE  ThrustInv
<1>1. TypeOK
  BY InitInv DEF ThrustInit, Inv
<1>2. Neutral \in Nat /\ Half \in Nat \ {0} /\ MaxInputs \in Nat /\ Centre \in 0 .. StickMax
      /\ StartSpeed \in Speeds
  BY WidthAssumption, CruiseAssumption, ThrustAssumption
<1>3. ThrustTypeOK
  <2>1. /\ key0 \in BOOLEAN /\ zoning \in BOOLEAN
        /\ col \in 0 .. StickMax /\ row \in 0 .. StickMax
    BY <1>2 DEF ThrustInit
  <2>2. /\ control_val \in Directions \cup {Stop} /\ control_mode \in Modes \cup {1}
        /\ hand_speed \in Speeds /\ auto_speed \in Speeds
        /\ target_lng \in Coordinate /\ target_lat \in Coordinate /\ lng \in Coordinate
    BY <1>2 DEF ThrustInit, Coordinate
  <2>3. /\ current_mode \in {1, 2, 3} /\ current_theta \in 0 .. 2 * Half - 1
        /\ quadrant \in 0 .. 3 /\ forward \in Int /\ request \in Int \X Int /\ inputs \in 0 .. MaxInputs
    BY <1>2 DEF ThrustInit, Still
  <2> QED
    BY <1>1, <2>1, <2>2, <2>3 DEF ThrustTypeOK
<1>4. PlaceOfMode /\ PartsBounded
  BY <1>2 DEF ThrustInit, PlaceOfMode, PartsBounded
<1>5. NeverWraps /\ CruiseWithinSpeed /\ TurnsTheShortWay
  BY <1>2 DEF ThrustInit, NeverWraps, CruiseWithinSpeed, TurnsTheShortWay, Still
<1> QED
  BY <1>3, <1>4, <1>5 DEF ThrustInv

(* Steps of the manager that compute a part and hand over no width. *)
LEMMA ManagerParts ==
  ASSUME ThrustInv, ChooseMode \/ RemoteForward \/ Compare \/ HandForward \/ AutoLng
  PROVE  ThrustInv'
<1> USE DEF ThrustInv
<1>1. ASSUME UNCHANGED request, pc' # "set" PROVE (NeverWraps /\ CruiseWithinSpeed /\ TurnsTheShortWay)'
  BY <1>1 DEF NeverWraps, CruiseWithinSpeed, TurnsTheShortWay
<1>2. ASSUME UNCHANGED vars PROVE TypeOK'
  BY <1>2 DEF ThrustTypeOK, TypeOK, vars
<1>3. CASE ChooseMode
  <2>1. UNCHANGED vars /\ UNCHANGED request /\ pc' # "set"
    BY <1>3 DEF ChooseMode, Local, locals
  <2>2. ThrustTypeOK' /\ PlaceOfMode' /\ PartsBounded'
    BY <1>2, <1>3, <2>1 DEF ChooseMode, Local, locals, remote, server, ThrustTypeOK, PlaceOfMode, PartsBounded
  <2> QED
    BY <1>1, <2>1, <2>2
<1>4. CASE RemoteForward
  <2>1. UNCHANGED vars /\ UNCHANGED request /\ pc' # "set"
    BY <1>4 DEF RemoteForward, Local
  <2>2. forward' \in Lo .. Hi /\ forward' \in Int
    BY <1>4, StickBound, WidthAssumption DEF RemoteForward
  <2>3. ThrustTypeOK' /\ PlaceOfMode' /\ PartsBounded'
    BY <1>2, <1>4, <2>1, <2>2
    DEF RemoteForward, Local, remote, server, ThrustTypeOK, PlaceOfMode, PartsBounded
  <2> QED
    BY <1>1, <2>1, <2>3
<1>5. CASE Compare
  <2>1. UNCHANGED vars /\ UNCHANGED request /\ pc' # "set"
    BY <1>5 DEF Compare, Local
  <2>2. ThrustTypeOK' /\ PlaceOfMode' /\ PartsBounded'
    BY <1>2, <1>5, <2>1 DEF Compare, Local, remote, server, ThrustTypeOK, PlaceOfMode, PartsBounded
  <2> QED
    BY <1>1, <2>1, <2>2
<1>6. CASE HandForward
  <2>1. UNCHANGED vars /\ UNCHANGED request /\ pc' # "set"
    BY <1>6 DEF HandForward, Local
  <2>2. speed_pwm \in Nat /\ quadrant \in 0 .. 3
        /\ Part(Cos) \in -speed_pwm .. speed_pwm /\ Part(Sin) \in -speed_pwm .. speed_pwm
    BY PartBound DEF PartsBounded, ThrustTypeOK
  <2>3. forward' \in -speed_pwm .. speed_pwm /\ forward' \in Int
    BY <1>6, <2>2 DEF HandForward
  <2>4. ThrustTypeOK' /\ PlaceOfMode' /\ PartsBounded'
    BY <1>2, <1>6, <2>1, <2>3
    DEF HandForward, Local, remote, server, ThrustTypeOK, PlaceOfMode, PartsBounded
  <2> QED
    BY <1>1, <2>1, <2>4
<1>7. CASE AutoLng
  <2>1. UNCHANGED vars /\ UNCHANGED request /\ pc' # "set"
    BY <1>7 DEF AutoLng, Local
  <2>2. max_control' \in Nat /\ 2 * max_control' <= Neutral
    <3>1. Notch * auto_speed \in Nat /\ 2 * (Notch * auto_speed) <= Neutral
      BY SpeedBound DEF ThrustTypeOK
    <3>2. max_control' = Notch * auto_speed
      BY <1>7 DEF AutoLng
    <3> QED
      BY <3>1, <3>2, WidthAssumption
  <2>3. ThrustTypeOK' /\ PlaceOfMode' /\ PartsBounded'
    BY <1>2, <1>7, <2>1, <2>2
    DEF AutoLng, Local, remote, server, ThrustTypeOK, PlaceOfMode, PartsBounded
  <2> QED
    BY <1>1, <2>1, <2>3
<1> QED
  BY <1>3, <1>4, <1>5, <1>6, <1>7

(* Steps that compute the two widths. *)
LEMMA ManagerMixes ==
  ASSUME ThrustInv, RemoteMix \/ Hand \/ HandSteer \/ auto_cruise_pid \/ Wake
  PROVE  ThrustInv'
<1> USE DEF ThrustInv
<1>1. ASSUME UNCHANGED vars PROVE TypeOK'
  BY <1>1 DEF ThrustTypeOK, TypeOK, vars
<1>2. ASSUME current_mode' # 3 PROVE (CruiseWithinSpeed /\ TurnsTheShortWay)'
  BY <1>2 DEF CruiseWithinSpeed, TurnsTheShortWay
<1>3. Neutral \in Nat /\ Lo \in Nat /\ Hi \in Nat
  BY WidthAssumption
<1>4. CASE RemoteMix
  <2>1. UNCHANGED vars /\ current_mode' # 3
    BY <1>4 DEF RemoteMix, Local, PlaceOfMode
  <2>2. forward \in Lo .. Hi /\ RemoteSteer \in -Lo .. Lo
    BY <1>4, StickBound DEF RemoteMix, PartsBounded
  <2>3. request' \in Int \X Int /\ request'[1] >= 0 /\ request'[2] >= 0
    <3>1. request' = <<forward + RemoteSteer, forward - RemoteSteer>>
      BY <1>4 DEF RemoteMix
    <3> QED
      BY <1>3, <2>2, <3>1
  <2>4. ThrustTypeOK' /\ PlaceOfMode' /\ PartsBounded'
    BY <1>1, <1>4, <2>1, <2>3
    DEF RemoteMix, Local, remote, server, ThrustTypeOK, PlaceOfMode, PartsBounded
  <2> QED
    BY <1>2, <2>1, <2>3, <2>4 DEF NeverWraps
<1>5. CASE Hand
  <2>1. UNCHANGED vars /\ current_mode' # 3
    BY <1>5 DEF Hand, Local, PlaceOfMode
  <2>2. speed_pwm' \in Nat /\ 2 * speed_pwm' <= Neutral
    BY <1>5, SpeedBound DEF Hand, HandPwm, ThrustTypeOK
  <2>3. request' \in Int \X Int /\ request'[1] >= 0 /\ request'[2] >= 0
    BY <1>3, <1>5 DEF Hand, Still, NeverWraps, ThrustTypeOK
  <2>4. ThrustTypeOK' /\ PlaceOfMode' /\ PartsBounded'
    BY <1>1, <1>5, <2>1, <2>2, <2>3
    DEF Hand, Local, remote, server, ThrustTypeOK, PlaceOfMode, PartsBounded
  <2> QED
    BY <1>2, <2>1, <2>3, <2>4 DEF NeverWraps
<1>6. CASE HandSteer
  <2>1. UNCHANGED vars /\ current_mode' # 3
    BY <1>6 DEF HandSteer, Local, PlaceOfMode
  <2>2. /\ speed_pwm \in Nat /\ 2 * speed_pwm <= Neutral /\ quadrant \in 0 .. 3
        /\ forward \in -speed_pwm .. speed_pwm
        /\ Part(Cos) \in -speed_pwm .. speed_pwm /\ Part(Sin) \in -speed_pwm .. speed_pwm
    BY <1>6, PartBound DEF HandSteer, PartsBounded, ThrustTypeOK
  <2>3. \E steer \in -speed_pwm .. speed_pwm :
          request' = <<Neutral + forward + steer, Neutral + forward - steer>>
    BY <1>6, <2>2 DEF HandSteer
  <2>4. request' \in Int \X Int /\ request'[1] >= 0 /\ request'[2] >= 0
    BY <1>3, <2>2, <2>3
  <2>5. ThrustTypeOK' /\ PlaceOfMode' /\ PartsBounded'
    BY <1>1, <1>6, <2>1, <2>4
    DEF HandSteer, Local, remote, server, ThrustTypeOK, PlaceOfMode, PartsBounded
  <2> QED
    BY <1>2, <2>1, <2>4, <2>5 DEF NeverWraps
<1>7. CASE auto_cruise_pid
  <2> DEFINE course == Course[<<lng, target_lat>>]
             e      == Ek(targe_theta(course.bearing), current_theta)
             pwm    == Scaled(Forward(course.distance, e), Sway[e], max_control)
             left   == (-course.bearing - current_theta) % (2 * Half)
             abaft  == \E a \in Quarter + 1 .. Quarter + Fine - 1 : left = a \/ left = 2 * Half - a
             mixed  == <<Neutral + pwm.forward - pwm.steer, Neutral + pwm.forward + pwm.steer>>
  <2>1. /\ pwm.forward \in Int /\ pwm.steer \in Int
        /\ \/ Abs(pwm.forward) + Abs(pwm.steer) <= max_control
           \/ Abs(pwm.forward) + Abs(pwm.steer) <= 2 * max_control /\ abaft
        /\ pwm.steer > 0 => left \in 1 .. Half
        /\ pwm.steer < 0 => left \in Half .. 2 * Half - 1
    BY CruiseBound
  <2>2. \/ request' = Still
        \/ request' = mixed /\ seen' = [bearing |-> course.bearing, theta |-> current_theta]
    BY <1>7, Zenon DEF auto_cruise_pid
  <2>3. max_control \in Nat /\ 2 * max_control <= Neutral /\ UNCHANGED max_control
    BY <1>7 DEF auto_cruise_pid, PartsBounded
  <2>4. CASE request' = Still
    <3>1. request' \in Int \X Int /\ NeverWraps' /\ CruiseWithinSpeed' /\ TurnsTheShortWay'
      BY <1>3, <2>3, <2>4 DEF Still, Abs, NeverWraps, CruiseWithinSpeed, TurnsTheShortWay
    <3>2. ThrustTypeOK' /\ PlaceOfMode' /\ PartsBounded'
      BY <1>1, <1>7, <3>1
      DEF auto_cruise_pid, Local, remote, server, ThrustTypeOK, PlaceOfMode, PartsBounded
    <3> QED
      BY <3>1, <3>2
  <2>5. CASE request' = mixed /\ seen' = [bearing |-> course.bearing, theta |-> current_theta]
    <3>1. LeftTurn' = left
      <4> HIDE DEF course
      <4> QED
        BY <2>5 DEF LeftTurn
    <3>2. JustAbaft' <=> abaft
      <4> HIDE DEF left
      <4> QED
        BY <3>1 DEF JustAbaft
    <3> HIDE DEF pwm, left, abaft
    <3>3. /\ request' \in Int \X Int
          /\ \A i \in {1, 2} : /\ request'[i] >= 0
                             /\ \/ Abs(request'[i] - Neutral) <= max_control
                                \/ abaft /\ Abs(request'[i] - Neutral) <= 2 * max_control
      <4>1. /\ request' \in Int \X Int
            /\ request'[1] = Neutral + pwm.forward - pwm.steer
            /\ request'[2] = Neutral + pwm.forward + pwm.steer
        BY <1>3, <2>1, <2>5
      <4>2. ASSUME NEW i \in {1, 2}
            PROVE  /\ request'[i] \in Int
                   /\ Abs(request'[i] - Neutral) <= Abs(pwm.forward) + Abs(pwm.steer)
        BY <1>3, <2>1, <4>1 DEF Abs
      <4>3. ASSUME NEW w \in Int, Abs(w - Neutral) <= 2 * max_control
            PROVE  w >= 0
        BY <1>3, <2>3, <4>3 DEF Abs
      <4>4. ASSUME NEW w \in Int PROVE Abs(w) \in Nat
        BY <4>4 DEF Abs
      <4>5. Abs(pwm.forward) \in Nat /\ Abs(pwm.steer) \in Nat
        BY <2>1, <4>4
      <4>6. ASSUME NEW i \in {1, 2}
            PROVE  \/ Abs(request'[i] - Neutral) <= max_control
                   \/ abaft /\ Abs(request'[i] - Neutral) <= 2 * max_control
        <5>1. Abs(request'[i] - Neutral) \in Nat
          BY <1>3, <4>2, <4>4
        <5> QED
          BY <2>1, <2>3, <4>2, <4>5, <5>1
      <4>7. ASSUME NEW i \in {1, 2} PROVE request'[i] >= 0
        <5>1. Abs(request'[i] - Neutral) \in Nat
          BY <1>3, <4>2, <4>4
        <5>2. Abs(request'[i] - Neutral) <= 2 * max_control
          BY <2>3, <4>6, <5>1
        <5> QED
          BY <4>2, <4>3, <5>2
      <4> QED
        BY <4>1, <4>6, <4>7
    <3>4. /\ request'[2] > request'[1] => pwm.steer > 0
          /\ request'[2] < request'[1] => pwm.steer < 0
      BY <1>3, <2>1, <2>5
    <3>5. ThrustTypeOK' /\ PlaceOfMode' /\ PartsBounded'
      BY <1>1, <1>7, <3>3
      DEF auto_cruise_pid, Local, remote, server, ThrustTypeOK, PlaceOfMode, PartsBounded
    <3>6. CruiseWithinSpeed'
      BY <2>3, <3>2, <3>3 DEF CruiseWithinSpeed
    <3>7. TurnsTheShortWay'
      BY <2>1, <3>1, <3>4 DEF TurnsTheShortWay
    <3> QED
      BY <3>3, <3>5, <3>6, <3>7 DEF NeverWraps
  <2> QED
    BY <2>2, <2>4, <2>5
<1>8. CASE Wake
  <2>1. UNCHANGED vars /\ pc' = "mode" /\ request' = Still
    BY <1>8 DEF Wake, Local, Forget
  <2>2. ThrustTypeOK' /\ PlaceOfMode' /\ PartsBounded'
    BY <1>1, <1>3, <1>8, <2>1
    DEF Wake, Forget, Still, Coordinate, Local, remote, server, ThrustTypeOK, PlaceOfMode, PartsBounded
  <2> QED
    BY <1>3, <2>1, <2>2 DEF NeverWraps, CruiseWithinSpeed, TurnsTheShortWay, Still
<1> QED
  BY <1>4, <1>5, <1>6, <1>7, <1>8

(* Steps that hand the widths to set_pwm, and those of t_pwm. *)
LEMMA OutputsPreserve ==
  ASSUME ThrustInv, SetLeft \/ SetRight \/ Outputs
  PROVE  ThrustInv'
<1> USE DEF ThrustInv
<1>1. UNCHANGED <<current_mode, remote, server, current_theta, locals, inputs>>
  BY DEF SetLeft, SetRight, Outputs
<1>2. pc' = pc \/ pc' \in {"set_right", "sleep"}
  BY DEF SetLeft, SetRight, Outputs
<1>3. TypeOK'
  <2>1. CASE SetLeft
    <3>1. Unsigned(request[1]) \in Nat /\ Unsigned(request[2]) \in Nat
      <4>1. UintMod \in Nat \ {0} /\ request[1] \in Nat /\ request[2] \in Nat
        BY ThrustAssumption, WidthAssumption DEF ThrustTypeOK, NeverWraps
      <4> QED
        BY <4>1 DEF Unsigned
    <3>2. Clamp(Unsigned(request[1])) \in Width /\ Clamp(Unsigned(request[2])) \in Width
      BY <3>1, ClampInWidth
    <3> QED
      BY <2>1, <3>2 DEF SetLeft, set_pwm_left, ThrustTypeOK, TypeOK
  <2>2. CASE SetRight
    BY <2>2 DEF SetRight, set_pwm_right, ThrustTypeOK, TypeOK
  <2>3. CASE Outputs
    <3>1. CASE thread_pwm
      BY <3>1, WidthAssumption DEF thread_pwm, ThrustTypeOK, TypeOK
    <3>2. CASE loop_change_pwm
      BY <3>2 DEF loop_change_pwm, Toward, change_pwm_ceil, ThrustTypeOK, TypeOK
    <3> QED
      BY <2>3, <3>1, <3>2 DEF Outputs
  <2> QED
    BY <2>1, <2>2, <2>3
<1>4. ThrustTypeOK' /\ PlaceOfMode' /\ PartsBounded'
  BY <1>1, <1>2, <1>3 DEF remote, server, locals, ThrustTypeOK, PlaceOfMode, PartsBounded
<1>5. (NeverWraps /\ CruiseWithinSpeed /\ TurnsTheShortWay)'
  BY <1>1, <1>2 DEF locals, NeverWraps, CruiseWithinSpeed, TurnsTheShortWay, JustAbaft, LeftTurn
<1> QED
  BY <1>4, <1>5

(* Frames and commands store values of their types and touch nothing the   *)
(* manager has computed.                                                   *)
LEMMA InputsPreserve ==
  ASSUME ThrustInv, Inputs
  PROVE  ThrustInv'
<1> USE DEF ThrustInv
<1>1. UNCHANGED <<vars, pc, current_mode, locals>>
  BY DEF Inputs, Input, JoystickFrame, JoystickZone, KeyFrame, RemoteTimeout, TargetCommand,
         ControlCommand, SpeedCommand, HeadingFrame
<1>2. inputs' \in 0 .. MaxInputs
  BY ThrustAssumption
  DEF Inputs, Input, JoystickFrame, JoystickZone, KeyFrame, RemoteTimeout, TargetCommand,
      ControlCommand, SpeedCommand, HeadingFrame, ThrustTypeOK
<1>3. key0' \in BOOLEAN /\ zoning' \in BOOLEAN /\ col' \in 0 .. StickMax /\ row' \in 0 .. StickMax
  BY ThrustAssumption
  DEF Inputs, JoystickFrame, JoystickZone, Zone, KeyFrame, RemoteTimeout, TargetCommand,
      ControlCommand, SpeedCommand, HeadingFrame, ThrustTypeOK, remote
<1>4. /\ control_val' \in Directions \cup {Stop} /\ control_mode' \in Modes \cup {1}
      /\ hand_speed' \in Speeds /\ auto_speed' \in Speeds
      /\ target_lng' \in Coordinate /\ target_lat' \in Coordinate
  BY DEF Inputs, JoystickFrame, JoystickZone, KeyFrame, RemoteTimeout, TargetCommand,
      ControlCommand, SpeedCommand, HeadingFrame, ThrustTypeOK, server, Coordinate
<1>5. current_theta' \in 0 .. 2 * Half - 1
  BY ThrustAssumption
  DEF Inputs, JoystickFrame, JoystickZone, KeyFrame, RemoteTimeout, TargetCommand,
      ControlCommand, SpeedCommand, HeadingFrame, ThrustTypeOK
<1>6. TypeOK'
  BY <1>1 DEF ThrustTypeOK, TypeOK, vars
<1>7. ThrustTypeOK' /\ PlaceOfMode' /\ PartsBounded'
  BY <1>1, <1>2, <1>3, <1>4, <1>5, <1>6 DEF locals, ThrustTypeOK, PlaceOfMode, PartsBounded
<1>8. (NeverWraps /\ CruiseWithinSpeed /\ TurnsTheShortWay)'
  BY <1>1 DEF locals, NeverWraps, CruiseWithinSpeed, TurnsTheShortWay, JustAbaft, LeftTurn
<1> QED
  BY <1>7, <1>8

-----------------------------------------------------------------------------
(* The invariant holds in every state of the system. *)
THEOREM ThrustInvariant == ThrustSpec => []ThrustInv
<1>1. ThrustInit => ThrustInv
  BY ThrustInitInv
<1>2. ThrustInv /\ [ThrustNext]_thrust_vars => ThrustInv'
  <2> SUFFICES ASSUME ThrustInv, [ThrustNext]_thrust_vars PROVE ThrustInv'
    OBVIOUS
  <2>1. CASE ThrustNext
    BY <2>1, ManagerParts, ManagerMixes, OutputsPreserve, InputsPreserve DEF ThrustNext, Manager
  <2>2. CASE UNCHANGED thrust_vars
    <3>1. TypeOK'
      BY <2>2 DEF ThrustInv, thrust_vars, vars, ThrustTypeOK, TypeOK
    <3> QED
      BY <2>2, <3>1 DEF ThrustInv, thrust_vars, remote, server, locals, ThrustTypeOK, PlaceOfMode,
                  PartsBounded, NeverWraps, CruiseWithinSpeed, TurnsTheShortWay,
                  JustAbaft, LeftTurn
  <2> QED
    BY <2>1, <2>2
<1> QED
  BY <1>1, <1>2, PTL DEF ThrustSpec

(* Types of the manager's thrust block and of what the receivers store. *)
THEOREM ThrustTypeCorrect == ThrustSpec => []ThrustTypeOK
<1>1. ThrustInv => ThrustTypeOK
  BY DEF ThrustInv
<1> QED
  BY <1>1, ThrustInvariant, PTL

(* No width becomes a huge unsigned one, if no speed exceeds half of the   *)
(* neutral width.                                                          *)
THEOREM ThrustNeverWraps == ThrustSpec => []NeverWraps
<1>1. ThrustInv => NeverWraps
  BY DEF ThrustInv
<1> QED
  BY <1>1, ThrustInvariant, PTL

(* The scaling of auto_cruise_pid keeps both thrusters within the limit. *)
THEOREM ThrustCruiseWithinSpeed == ThrustSpec => []CruiseWithinSpeed
<1>1. ThrustInv => CruiseWithinSpeed
  BY DEF ThrustInv
<1> QED
  BY <1>1, ThrustInvariant, PTL

(* The cruise turns the shorter way, whatever the sigmoid of its steering. *)
THEOREM ThrustTurnsTheShortWay == ThrustSpec => []TurnsTheShortWay
<1>1. ThrustInv => TurnsTheShortWay
  BY DEF ThrustInv
<1> QED
  BY <1>1, ThrustInvariant, PTL

(* The outputs under the manager that really drives them: its widths are   *)
(* natural numbers once they are unsigned, which is all StepInv asks for.  *)
THEOREM ThrustMotorInvariant == ThrustSpec => []Inv
<1>1. ThrustInit => Inv
  BY InitInv DEF ThrustInit
<1>2. ThrustInv /\ Inv /\ [ThrustNext]_thrust_vars => Inv'
  <2> SUFFICES ASSUME ThrustInv, Inv, [ThrustNext]_thrust_vars PROVE Inv'
    OBVIOUS
  <2>1. CASE SetLeft
    <3>1. Unsigned(request[1]) \in Nat /\ Unsigned(request[2]) \in Nat
      <4>1. UintMod \in Nat \ {0} /\ request[1] \in Nat /\ request[2] \in Nat
        BY ThrustAssumption, WidthAssumption DEF ThrustInv, ThrustTypeOK, NeverWraps
      <4> QED
        BY <4>1 DEF Unsigned
    <3> QED
      BY <2>1, <3>1, StepInv DEF SetLeft
  <2>2. CASE SetRight \/ Outputs
    BY <2>2, StepInv DEF SetRight, Outputs
  <2>3. CASE ~SetLeft /\ ~(SetRight \/ Outputs)
    <3>1. UNCHANGED vars
      <4>1. CASE Manager
        BY <4>1, <2>3
        DEF Manager, ChooseMode, RemoteForward, RemoteMix, Hand, Compare, HandForward,
            HandSteer, AutoLng, auto_cruise_pid, Wake, Local
      <4>2. CASE Inputs
        BY <4>2 DEF Inputs, Input, JoystickFrame, JoystickZone, KeyFrame, RemoteTimeout,
                    TargetCommand, ControlCommand, SpeedCommand, HeadingFrame
      <4>3. CASE UNCHANGED thrust_vars
        BY <4>3 DEF thrust_vars
      <4> QED
        BY <2>3, <4>1, <4>2, <4>3 DEF ThrustNext
    <3> QED
      BY <3>1, StepInv
  <2> QED
    BY <2>1, <2>2, <2>3
<1> QED
  BY <1>1, <1>2, ThrustInvariant, PTL DEF ThrustSpec

(* Whatever remote, server and cruise make the manager ask for, and        *)
(* whenever t_pwm strikes, no thruster is driven outside the clamp.        *)
THEOREM ThrustOutputInRange == ThrustSpec => []OutputInRange
BY ThrustMotorInvariant, InvInRange, PTL

(* Timer and software agree on the outputs of the composed system. *)
THEOREM ThrustOutputMatchesCurrent == ThrustSpec => []OutputMatchesCurrent
<1>1. Inv => OutputMatchesCurrent
  BY DEF Inv
<1> QED
  BY <1>1, ThrustMotorInvariant, PTL
=============================================================================
