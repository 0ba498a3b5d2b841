---------------------------- MODULE SamplerProof ----------------------------
(***************************************************************************)
(* Type correctness of the sampling path and the consistency of the        *)
(* reported draw times, for every choice of widths, times and inputs;      *)
(* ProgressReport needs to know what the manager has decided but not yet   *)
(* stored (TimeDecided).  Then, with the history variables of SamplerHist, *)
(* the range of the hose servo, which rests on what the gear thread has    *)
(* already decided (RangeInv), and the draw of one command (DrawInv).      *)
(***************************************************************************)
EXTENDS SamplerHist, TLAPS

(* The manager has slept off its lateness. *)
LateOK == pc = "sleep" => late = 0

(* The full time fits the tick counter. *)
Short == full_draw_time * Second \in 0 .. TickMod - 1

ReportOK == Short => dump_draw_time \in 0 .. full_draw_time

TimeDecided ==
  /\ pc \notin {"pump", "finish"} => ReportOK
  /\ pc = "pump" /\ Short => Elapsed(draw_start_tick) < full_draw_time * Second + late

Inv == TypeOK /\ LateOK /\ TimeDecided

-----------------------------------------------------------------------------
(* Sums and differences of ticks without the modulus. *)
LEMMA TickArith ==
  ASSUME NEW x \in 0 .. TickMod - 1, NEW y \in 0 .. TickMod - 1
  PROVE  /\ (x - y) % TickMod = IF x >= y THEN x - y ELSE x - y + TickMod
         /\ (x + 1) % TickMod = IF x + 1 = TickMod THEN 0 ELSE x + 1
<1>1. TickMod \in Nat /\ TickMod > 0
  BY TimeAssumption
<1>2. CASE x >= y
  BY <1>1, <1>2
<1>3. CASE x < y
  <2>1. x - y + TickMod \in 0 .. TickMod - 1
    BY <1>1, <1>3
  <2> QED
    BY <1>1, <1>3, <2>1
<1> QED
  BY <1>1, <1>2, <1>3

(* The clock ticks while the manager is awake: a timer ages by one at most. *)
LEMMA TickAges ==
  ASSUME TypeOK, tick' = (tick + 1) % TickMod, NEW s \in 0 .. TickMod - 1
  PROVE  /\ (tick' - s) % TickMod = IF Elapsed(s) + 1 = TickMod THEN 0 ELSE Elapsed(s) + 1
         /\ tick' \in 0 .. TickMod - 1
<1>1. tick \in 0 .. TickMod - 1 /\ TickMod \in Nat
  BY TimeAssumption DEF TypeOK
<1>2. tick' = IF tick + 1 = TickMod THEN 0 ELSE tick + 1
  BY <1>1, TickArith
<1>3. tick' \in 0 .. TickMod - 1
  BY <1>1, <1>2
<1>4. Elapsed(s) = IF tick >= s THEN tick - s ELSE tick - s + TickMod
  BY <1>1, TickArith DEF Elapsed
<1>5. (tick' - s) % TickMod = IF tick' >= s THEN tick' - s ELSE tick' - s + TickMod
  BY <1>1, <1>3, TickArith
<1> QED
  BY <1>1, <1>2, <1>3, <1>4, <1>5

(* The unsigned difference of two ticks is a tick. *)
LEMMA ElapsedType ==
  ASSUME TypeOK, NEW s \in 0 .. TickMod - 1
  PROVE  Elapsed(s) \in 0 .. TickMod - 1
<1>1. tick \in Int /\ s \in Int /\ TickMod \in Nat /\ TickMod > 0
  BY TimeAssumption DEF TypeOK
<1> QED
  BY <1>1 DEF Elapsed

(* A remainder lies below the divisor, and is the number itself if that    *)
(* does.                                                                   *)
LEMMA Remainder ==
  ASSUME NEW x \in Int, NEW m \in Nat \ {0}
  PROVE  x % m \in 0 .. m - 1 /\ (x \in 0 .. m - 1 => x % m = x)
OBVIOUS

(* Whole seconds of a time shorter than f seconds are fewer than f. *)
LEMMA SecondsBelow ==
  ASSUME NEW e \in Nat, NEW s \in Nat \ {0}, NEW f \in Nat, e < f * s
  PROVE  e \div s \in 0 .. f - 1
<1> DEFINE q == e \div s
<1>1. q \in Nat /\ q * s <= e
  OBVIOUS
<1>2. q * s < f * s
  BY <1>1
<1>3. q < f
  BY <1>1, <1>2
<1> QED
  BY <1>1, <1>3

(* The start of a draw is a tick. *)
LEMMA StartedType ==
  ASSUME TypeOK
  PROVE  Started \in 0 .. TickMod - 1
BY DEF TypeOK, Started

(* The time of a draw is a whole number of seconds. *)
LEMMA FullDrawTimeType ==
  ASSUME NEW a \in Int
  PROVE  FullDrawTime(a) \in Int
BY DEF FullDrawTime, draw_speed

(* draw opens one of the eight valves or none. *)
LEMMA DrawType ==
  ASSUME NEW id \in Int
  PROVE  draw(id) \in 0 .. 8
BY DEF draw

(* The fields of a command, or of no command yet. *)
LEMMA BottleFields ==
  ASSUME TypeOK
  PROVE  bottle.id \in Int /\ bottle.deep \in Int /\ bottle.amount \in Int
BY DEF TypeOK, Bottle

(* The width of any depth, and that of a step, is unsigned. *)
LEMMA WidthTypes ==
  ASSUME NEW d \in Int, NEW w \in Int
  PROVE  DepthPwm(d) \in 0 .. GearMod - 1 /\ w % GearMod \in 0 .. GearMod - 1
<1>1. GearMod \in Nat \ {0} /\ Surface \in Int /\ min_geer_pwm \in Int
  BY GearAssumption
<1> DEFINE x == (d * (Surface - min_geer_pwm)) % GearMod
<1>2. d * (Surface - min_geer_pwm) \in Int
  BY <1>1
<1>3. x \in 0 .. GearMod - 1
  BY <1>1, <1>2, Remainder
<1>4. Surface - x \div 5 \in Int
  <2> HIDE DEF x
  <2> QED
    BY <1>1, <1>3
<1> QED
  BY <1>1, <1>4, Remainder DEF DepthPwm

(* Where a step of the manager leaves it. *)
LEMMA GotoType ==
  ASSUME TypeOK, NEW label, Goto(label)
  PROVE  pc' = label /\ late' \in 0 .. Late /\ (label = "sleep" => late' = 0)
BY TimeAssumption DEF Goto, TypeOK

-----------------------------------------------------------------------------
(* The state at reset satisfies the invariant. *)
THEOREM SamplerInitInv == Init => Inv
<1> SUFFICES ASSUME Init PROVE Inv
  OBVIOUS
<1>1. TypeOK
  <2>1. bottle \in Bottle /\ key \in Keys
    BY DEF Init, Bottle, Keys, NoKeys
  <2>2. 0 \in 0 .. TickMod - 1 /\ 0 \in 0 .. GearTurns /\ 0 \in 0 .. MaxInputs /\ 0 \in 0 .. Late
    BY TimeAssumption
  <2>3. min_geer_pwm \in 0 .. GearMod - 1 /\ StartGear \in 0 .. GearMod - 1
    BY GearAssumption
  <2>4. is_draw \in BOOLEAN
    BY Zenon DEF Init
  <2> QED
    BY <2>1, <2>2, <2>3, <2>4 DEF Init, TypeOK
<1>2. LateOK
  BY DEF Init, LateOK
<1>3. TimeDecided
  BY DEF Init, TimeDecided, ReportOK
<1> QED
  BY <1>1, <1>2, <1>3 DEF Inv

(* Every step of the manager, the gear thread, the receivers and the clock *)
(* preserves it.                                                           *)
THEOREM SamplerNextInv == Inv /\ [Next]_vars => Inv'
<1> SUFFICES ASSUME Inv, [Next]_vars PROVE Inv'
  OBVIOUS
<1> USE DEF clock, manager_vars, gear_vars, remote_vars, server_vars
<1>0. TypeOK /\ LateOK /\ TimeDecided
  BY DEF Inv
<1>1. CASE Wake
  <2>g. late' \in 0 .. Late /\ (pc' = "sleep" => late' = 0)
    BY <1>0, <1>1, GotoType DEF Wake
  <2>a. tick' \in 0 .. TickMod - 1 /\ 0 \in 0 .. GearTurns
    <3>1. tick + Period \in Int /\ TickMod \in Nat \ {0} /\ GearTurns \in Nat
      BY <1>0, TimeAssumption DEF TypeOK
    <3> QED
      BY <1>1, <3>1, Remainder DEF Wake
  <2>b. [key EXCEPT !.enable = FALSE] \in Keys /\ key \in Keys
    BY <1>0 DEF TypeOK, Keys
  <2>c. key' \in Keys
    BY <1>1, <2>b DEF Wake
  <2>d. silence' \in Nat
    BY <1>0, <1>1 DEF Wake, TypeOK
  <2>1. TypeOK'
    BY <1>0, <1>1, <2>g, <2>a, <2>c, <2>d DEF Wake, TypeOK, Goto
  <2>2. LateOK'
    BY <2>g DEF LateOK
  <2>3. TimeDecided'
    BY <1>0, <1>1 DEF Wake, TimeDecided, ReportOK, Short, Goto
  <2> QED
    BY <2>1, <2>2, <2>3 DEF Inv
<1>2. CASE Preempted
  <2>0. draw_start_tick \in 0 .. TickMod - 1 /\ TickMod \in Nat
    BY <1>0, TimeAssumption DEF TypeOK
  <2>a. late' \in 0 .. Late
    BY <1>0, <1>2, TimeAssumption DEF Preempted, TypeOK
  <2>b. /\ Elapsed(draw_start_tick)' = IF Elapsed(draw_start_tick) + 1 = TickMod THEN 0
                                       ELSE Elapsed(draw_start_tick) + 1
        /\ tick' \in 0 .. TickMod - 1
    <3>1. Elapsed(draw_start_tick)' = (tick' - draw_start_tick) % TickMod
      BY <1>2 DEF Preempted, Elapsed
    <3> QED
      BY <1>0, <1>2, <2>0, <3>1, TickAges DEF Preempted
  <2>1. TypeOK'
    BY <1>0, <1>2, <2>a, <2>b DEF Preempted, TypeOK
  <2>2. LateOK'
    BY <1>0, <1>2 DEF Preempted, LateOK
  <2>3. TimeDecided'
    <3>1. ReportOK' <=> ReportOK
      BY <1>2 DEF Preempted, ReportOK, Short
    <3>2. ASSUME pc = "pump", Short
          PROVE  Elapsed(draw_start_tick)' < full_draw_time * Second + late + 1
      <4>1. Elapsed(draw_start_tick) < full_draw_time * Second + late
        BY <1>0, <3>2 DEF TimeDecided
      <4>2. Elapsed(draw_start_tick) \in Nat
        BY <1>0, <2>0, ElapsedType
      <4>3. full_draw_time * Second \in Nat /\ late \in Nat
        BY <1>0, <3>2 DEF Short, TypeOK
      <4> DEFINE e == Elapsed(draw_start_tick)
                 f == full_draw_time * Second
      <4>4. e \in Nat /\ f \in Nat /\ e < f + late
        BY <4>1, <4>2, <4>3
      <4> HIDE DEF e, f
      <4>5. (IF e + 1 = TickMod THEN 0 ELSE e + 1) < f + late + 1
        BY <4>3, <4>4
      <4> QED
        BY <2>b, <4>5 DEF e, f
    <3>3. full_draw_time' = full_draw_time /\ pc' = pc /\ late' = late + 1 /\ (Short' <=> Short)
      BY <1>2 DEF Preempted, Short
    <3>4. full_draw_time \in Int /\ late \in Int /\ Second \in Int
      BY <1>0, TimeAssumption DEF TypeOK
    <3>5. full_draw_time' * Second + late' = full_draw_time * Second + late + 1
      BY <3>3, <3>4
    <3> QED
      BY <1>0, <3>1, <3>2, <3>3, <3>5 DEF TimeDecided
  <2> QED
    BY <2>1, <2>2, <2>3 DEF Inv
<1>3. CASE Branch
  <2>g. late' \in 0 .. Late /\ (pc' = "sleep" => late' = 0)
    BY <1>0, <1>3, GotoType DEF Branch
  <2>1. TypeOK'
    BY <1>0, <1>3, <2>g DEF Branch, TypeOK, Goto
  <2>2. LateOK'
    BY <2>g DEF LateOK
  <2>3. TimeDecided'
    BY <1>0, <1>3 DEF Branch, TimeDecided, ReportOK, Short, Goto
  <2> QED
    BY <2>1, <2>2, <2>3 DEF Inv
<1>4. CASE RemoteDraw
  <2>g. late' \in 0 .. Late /\ (pc' = "sleep" => late' = 0)
    BY <1>0, <1>4, GotoType DEF RemoteDraw
  <2>0. draw(0) \in 0 .. 8 /\ 0 \in 0 .. TickMod - 1 /\ max_geer_pwm \in 0 .. GearMod - 1
        /\ min_geer_pwm \in 0 .. GearMod - 1
    BY DrawType, TimeAssumption, GearAssumption
  <2>a. Started \in 0 .. TickMod - 1
    BY <1>0, StartedType
  <2>1. TypeOK'
    BY <1>0, <1>4, <2>g, <2>0, <2>a DEF RemoteDraw, TypeOK, Goto
  <2>2. LateOK'
    BY <2>g DEF LateOK
  <2>3. TimeDecided'
    BY <1>0, <1>4 DEF RemoteDraw, TimeDecided, ReportOK, Short, Goto
  <2> QED
    BY <2>1, <2>2, <2>3 DEF Inv
<1>5. CASE RemoteCompare
  <2>g. late' \in 0 .. Late /\ (pc' = "sleep" => late' = 0)
    BY <1>0, <1>5, GotoType DEF RemoteCompare
  <2>0. draw(0) \in 0 .. 8 /\ 0 \in 0 .. TickMod - 1 /\ max_geer_pwm \in 0 .. GearMod - 1
        /\ min_geer_pwm \in 0 .. GearMod - 1
    BY DrawType, TimeAssumption, GearAssumption
  <2>a. draw(1) \in 0 .. 8
    BY DrawType
  <2>1. TypeOK'
    BY <1>0, <1>5, <2>g, <2>0, <2>a DEF RemoteCompare, TypeOK, Goto
  <2>2. LateOK'
    BY <2>g DEF LateOK
  <2>3. TimeDecided'
    BY <1>0, <1>5 DEF RemoteCompare, TimeDecided, ReportOK, Short, Goto
  <2> QED
    BY <2>1, <2>2, <2>3 DEF Inv
<1>6. CASE Check
  <2>g. late' \in 0 .. Late /\ (pc' = "sleep" => late' = 0)
    BY <1>0, <1>6, GotoType DEF Check
  <2>1. TypeOK'
    BY <1>0, <1>6, <2>g DEF Check, TypeOK, Goto
  <2>2. LateOK'
    BY <2>g DEF LateOK
  <2>3. TimeDecided'
    BY <1>0, <1>6 DEF Check, TimeDecided, ReportOK, Short, Goto
  <2> QED
    BY <2>1, <2>2, <2>3 DEF Inv
<1>7. CASE Idle
  <2>g. late' \in 0 .. Late /\ (pc' = "sleep" => late' = 0)
    BY <1>0, <1>7, GotoType DEF Idle
  <2>0. draw(0) \in 0 .. 8 /\ 0 \in 0 .. TickMod - 1 /\ max_geer_pwm \in 0 .. GearMod - 1
        /\ min_geer_pwm \in 0 .. GearMod - 1
    BY DrawType, TimeAssumption, GearAssumption
  <2>1. TypeOK'
    BY <1>0, <1>7, <2>g, <2>0 DEF Idle, TypeOK, Goto
  <2>2. LateOK'
    BY <2>g DEF LateOK
  <2>3. TimeDecided'
    BY <1>0, <1>7 DEF Idle, TimeDecided, ReportOK, Short, Goto
  <2> QED
    BY <2>1, <2>2, <2>3 DEF Inv
<1>8. CASE Depth
  <2>g. late' \in 0 .. Late /\ (pc' = "sleep" => late' = 0)
    BY <1>0, <1>8, GotoType DEF Depth
  <2>0. DepthPwm(bottle.deep) \in 0 .. GearMod - 1
    BY <1>0, BottleFields, WidthTypes
  <2>1. TypeOK'
    BY <1>0, <1>8, <2>g, <2>0 DEF Depth, TypeOK, Goto
  <2>2. LateOK'
    BY <2>g DEF LateOK
  <2>3. TimeDecided'
    BY <1>0, <1>8 DEF Depth, TimeDecided, ReportOK, Short, Goto
  <2> QED
    BY <2>1, <2>2, <2>3 DEF Inv
<1>9. CASE Lower
  <2>g. late' \in 0 .. Late /\ (pc' = "sleep" => late' = 0)
    BY <1>0, <1>9, GotoType DEF Lower
  <2>1. TypeOK'
    BY <1>0, <1>9, <2>g DEF Lower, TypeOK, Goto
  <2>2. LateOK'
    BY <2>g DEF LateOK
  <2>3. TimeDecided'
    BY <1>0, <1>9 DEF Lower, TimeDecided, ReportOK, Short, Goto
  <2> QED
    BY <2>1, <2>2, <2>3 DEF Inv
<1>10. CASE Time
  <2>g. late' \in 0 .. Late /\ (pc' = "sleep" => late' = 0)
    BY <1>0, <1>10, GotoType DEF Time
  <2>a. Started \in 0 .. TickMod - 1
    BY <1>0, StartedType
  <2>1. TypeOK'
    BY <1>0, <1>10, <2>g, <2>a DEF Time, TypeOK, Goto
  <2>2. LateOK'
    BY <2>g DEF LateOK
  <2>3. TimeDecided'
    BY <1>0, <1>10 DEF Time, TimeDecided, ReportOK, Short, Goto
  <2> QED
    BY <2>1, <2>2, <2>3 DEF Inv
<1>11. CASE Compare
  <2>g. late' \in 0 .. Late /\ (pc' = "sleep" => late' = 0)
    BY <1>0, <1>11, GotoType DEF Compare
  <2>a. FullDrawTime(bottle.amount) \in Int
    BY <1>0, BottleFields, FullDrawTimeType
  <2>1. TypeOK'
    BY <1>0, <1>11, <2>g, <2>a DEF Compare, TypeOK, Goto
  <2>2. LateOK'
    BY <2>g DEF LateOK
  <2>3. TimeDecided'
    <3>1. pc' \in {"pump", "finish"}
      BY <1>11 DEF Compare, Goto
    <3>2. ASSUME pc' = "pump", Short'
          PROVE  Elapsed(draw_start_tick)' < full_draw_time' * Second + late'
      <4>1. Elapsed(draw_start_tick)' = Elapsed(draw_start_tick)
        BY <1>11 DEF Compare, Elapsed
      <4> DEFINE f == full_draw_time' * Second
      <4>2. Elapsed(draw_start_tick) < f % TickMod
        BY <1>11, <3>2 DEF Compare, Goto, Within
      <4>3. f \in 0 .. TickMod - 1
        BY <3>2 DEF Short
      <4>4. late' \in Nat /\ Elapsed(draw_start_tick) \in Nat /\ TickMod \in Nat \ {0}
        BY <1>0, <2>g, ElapsedType, TimeAssumption DEF TypeOK
      <4> HIDE DEF f
      <4>a. f \in Int /\ f \in Nat
        BY <4>3, <4>4
      <4>b. f % TickMod = f
        BY <4>3, <4>4, <4>a, Remainder, Zenon
      <4>5. f \in Nat /\ Elapsed(draw_start_tick) < f
        BY <4>2, <4>a, <4>b
      <4>6. Elapsed(draw_start_tick) < f + late'
        BY <4>4, <4>5
      <4> QED
        BY <4>1, <4>6 DEF f
    <3> QED
      BY <3>1, <3>2 DEF TimeDecided
  <2> QED
    BY <2>1, <2>2, <2>3 DEF Inv
<1>12. CASE Pump
  <2>g. late' \in 0 .. Late /\ (pc' = "sleep" => late' = 0)
    BY <1>0, <1>12, GotoType DEF Pump
  <2>a. bottle.id \in Int /\ full_draw_time \in Int /\ draw_start_tick \in 0 .. TickMod - 1
    BY <1>0, BottleFields DEF TypeOK
  <2>b. Elapsed(draw_start_tick) \in Nat /\ Second \in Nat \ {0}
    BY <1>0, <2>a, ElapsedType, TimeAssumption
  <2>c. draw(bottle.id) \in 0 .. 8 /\ full_draw_time - Elapsed(draw_start_tick) \div Second \in Int
    BY <2>a, <2>b, DrawType
  <2>1. TypeOK'
    BY <1>0, <1>12, <2>g, <2>c DEF Pump, TypeOK, Goto
  <2>2. LateOK'
    BY <2>g DEF LateOK
  <2>3. TimeDecided'
    <3>1. pc' = "mark" /\ full_draw_time' = full_draw_time
          /\ dump_draw_time' = full_draw_time - Elapsed(draw_start_tick) \div Second
      BY <1>12 DEF Pump, Goto
    <3>2. ASSUME Short PROVE dump_draw_time' \in 0 .. full_draw_time
      <4>1. full_draw_time \in Nat
        BY <2>a, <2>b, <3>2 DEF Short
      <4>2. Elapsed(draw_start_tick) < full_draw_time * Second + late
        BY <1>0, <1>12, <3>2 DEF Pump, TimeDecided
      <4>3. late \in Nat /\ late <= Second
        BY <1>0, TimeAssumption DEF TypeOK
      <4>4. (full_draw_time + 1) * Second = full_draw_time * Second + Second
        BY <2>b, <4>1
      <4>5. full_draw_time * Second \in Nat
        BY <2>b, <4>1
      <4>6. Elapsed(draw_start_tick) < (full_draw_time + 1) * Second
        BY <2>b, <4>2, <4>3, <4>4, <4>5
      <4>7. Elapsed(draw_start_tick) \div Second \in 0 .. (full_draw_time + 1) - 1
        BY <2>b, <4>1, <4>6, SecondsBelow
      <4> QED
        BY <3>1, <4>1, <4>7
    <3> QED
      BY <3>1, <3>2 DEF TimeDecided, ReportOK, Short
  <2> QED
    BY <2>1, <2>2, <2>3 DEF Inv
<1>13. CASE Mark
  <2>g. late' \in 0 .. Late /\ (pc' = "sleep" => late' = 0)
    BY <1>0, <1>13, GotoType DEF Mark
  <2>1. TypeOK'
    BY <1>0, <1>13, <2>g DEF Mark, TypeOK, Goto
  <2>2. LateOK'
    BY <2>g DEF LateOK
  <2>3. TimeDecided'
    BY <1>0, <1>13 DEF Mark, TimeDecided, ReportOK, Short, Goto
  <2> QED
    BY <2>1, <2>2, <2>3 DEF Inv
<1>14. CASE Finish
  <2>g. late' \in 0 .. Late /\ (pc' = "sleep" => late' = 0)
    BY <1>0, <1>14, GotoType DEF Finish
  <2>0. draw(0) \in 0 .. 8 /\ 0 \in 0 .. TickMod - 1 /\ max_geer_pwm \in 0 .. GearMod - 1
        /\ min_geer_pwm \in 0 .. GearMod - 1
    BY DrawType, TimeAssumption, GearAssumption
  <2>1. TypeOK'
    BY <1>0, <1>14, <2>g, <2>0 DEF Finish, TypeOK, Goto
  <2>2. LateOK'
    BY <2>g DEF LateOK
  <2>3. TimeDecided'
    BY <1>0, <1>14 DEF Finish, TimeDecided, ReportOK, Short, Goto
  <2> QED
    BY <2>1, <2>2, <2>3 DEF Inv
<1>15. CASE GearTest
  <2>1. TypeOK'
    BY <1>0, <1>15, TimeAssumption DEF GearTest, TypeOK, GearRuns
  <2>2. LateOK'
    BY <1>0, <1>15 DEF GearTest, LateOK
  <2>3. TimeDecided'
    BY <1>0, <1>15 DEF GearTest, TimeDecided, ReportOK, Short, Elapsed, GearRuns
  <2> QED
    BY <2>1, <2>2, <2>3 DEF Inv
<1>16. CASE GearCompare
  <2>1. TypeOK'
    BY <1>0, <1>16 DEF GearCompare, TypeOK
  <2>2. LateOK'
    BY <1>0, <1>16 DEF GearCompare, LateOK
  <2>3. TimeDecided'
    BY <1>0, <1>16 DEF GearCompare, TimeDecided, ReportOK, Short, Elapsed, GearRuns
  <2> QED
    BY <2>1, <2>2, <2>3 DEF Inv
<1>17. CASE GearMove
  <2>a. current_gear_pwm' \in 0 .. GearMod - 1
    <3>1. current_gear_pwm - 1 \in Int /\ current_gear_pwm + 1 \in Int /\ 0 \in Int
      BY <1>0, GearAssumption DEF TypeOK
    <3>2. \A w \in Int : w % GearMod \in 0 .. GearMod - 1
      BY <3>1, WidthTypes
    <3> QED
      BY <1>17, <3>1, <3>2 DEF GearMove
  <2>1. TypeOK'
    BY <1>0, <1>17, <2>a, TimeAssumption DEF GearMove, TypeOK, GearRuns
  <2>2. LateOK'
    BY <1>0, <1>17 DEF GearMove, LateOK
  <2>3. TimeDecided'
    BY <1>0, <1>17 DEF GearMove, TimeDecided, ReportOK, Short, Elapsed, GearRuns
  <2> QED
    BY <2>1, <2>2, <2>3 DEF Inv
<1>18. ASSUME NEW b \in Bottles, BottleCommand(b)
       PROVE  Inv'
  <2>a. bottle' \in Bottle
    BY <1>18, CommandAssumption DEF BottleCommand
  <2>b. commands' \in 0 .. MaxInputs
    BY <1>0, <1>18, TimeAssumption DEF BottleCommand, TypeOK
  <2>1. TypeOK'
    BY <1>0, <1>18, <2>a, <2>b DEF BottleCommand, TypeOK
  <2>2. LateOK'
    BY <1>0, <1>18 DEF BottleCommand, LateOK
  <2>3. TimeDecided'
    BY <1>0, <1>18 DEF BottleCommand, TimeDecided, ReportOK, Short, Elapsed
  <2> QED
    BY <2>1, <2>2, <2>3 DEF Inv
<1>19. ASSUME NEW k \in KeyFrames, KeyFrame(k)
       PROVE  Inv'
  <2>a. key' \in Keys
    BY <1>19, CommandAssumption DEF KeyFrame
  <2>b. frames' \in 0 .. MaxInputs
    BY <1>0, <1>19, TimeAssumption DEF KeyFrame, TypeOK
  <2>1. TypeOK'
    BY <1>0, <1>19, <2>a, <2>b DEF KeyFrame, TypeOK
  <2>2. LateOK'
    BY <1>0, <1>19 DEF KeyFrame, LateOK
  <2>3. TimeDecided'
    BY <1>0, <1>19 DEF KeyFrame, TimeDecided, ReportOK, Short, Elapsed
  <2> QED
    BY <2>1, <2>2, <2>3 DEF Inv
<1>20. CASE JoystickFrame
  <2>b. frames' \in 0 .. MaxInputs
    BY <1>0, <1>20, TimeAssumption DEF JoystickFrame, TypeOK
  <2>1. TypeOK'
    BY <1>0, <1>20, <2>b DEF JoystickFrame, TypeOK
  <2>2. LateOK'
    BY <1>0, <1>20 DEF JoystickFrame, LateOK
  <2>3. TimeDecided'
    BY <1>0, <1>20 DEF JoystickFrame, TimeDecided, ReportOK, Short, Elapsed
  <2> QED
    BY <2>1, <2>2, <2>3 DEF Inv
<1>21. CASE UNCHANGED vars
  BY <1>0, <1>21 DEF vars, Inv, TypeOK, LateOK, TimeDecided, ReportOK, Short, Elapsed
<1> QED
  BY <1>1, <1>2, <1>3, <1>4, <1>5, <1>6, <1>7, <1>8, <1>9, <1>10, <1>11, <1>12,
     <1>13, <1>14, <1>15, <1>16, <1>17, <1>18, <1>19, <1>20, <1>21
  DEF Next, Manager, loop_change_gear

(* The sampling path is type correct for every choice of the constants and *)
(* every number the server may send.                                       *)
THEOREM SamplerTypeCorrect == Spec => []TypeOK
<1>1. Inv => TypeOK
  BY DEF Inv
<1> QED
  BY SamplerInitInv, SamplerNextInv, <1>1, PTL DEF Spec

(* The draw times reported while the manager sleeps are consistent, for    *)
(* any commands and keys at any moments, although the tick may move        *)
(* between the comparison and the computation of the time left.            *)
THEOREM SamplerProgressReport == Spec => []ProgressReport
<1>1. Inv => ProgressReport
  BY DEF Inv, TimeDecided, ReportOK, Short, ProgressReport
<1> QED
  BY SamplerInitInv, SamplerNextInv, <1>1, PTL DEF Spec

-----------------------------------------------------------------------------
(***************************************************************************)
(* The servo's range, as long as every depth is on the hose: the targets   *)
(* are within it, and the gear thread has decided for a direction in which *)
(* there is room.                                                          *)
(***************************************************************************)
RangeInv ==
  trusted =>
    /\ OnHose(bottle.deep)
    /\ target_gear_pwm \in min_geer_pwm .. max_geer_pwm
    /\ deep_pwm \in min_geer_pwm .. max_geer_pwm
    /\ current_gear_pwm \in min_geer_pwm .. max_geer_pwm + 1
    /\ gearpc = "down" => current_gear_pwm > min_geer_pwm
    /\ gearpc = "up" => current_gear_pwm <= max_geer_pwm

(* A depth on the hose lies within the hose's travel: nothing wraps. *)
LEMMA DepthPwmInRange ==
  ASSUME NEW d \in Int, OnHose(d)
  PROVE  DepthPwm(d) \in min_geer_pwm .. Surface
<1> DEFINE x == Surface - min_geer_pwm
           p == d * x
<1>1. GearMod \in Nat \ {0} /\ Surface \in Nat /\ min_geer_pwm \in Nat /\ x \in Nat
      /\ 5 * x < GearMod /\ Surface < GearMod
  BY GearAssumption
<1> HIDE DEF x
<1>2. d = 0 \/ d = 1 \/ d = 2 \/ d = 3 \/ d = 4 \/ d = 5
  BY DEF OnHose
<1>3. p \in 0 .. 5 * x
  BY <1>1, <1>2
<1> HIDE DEF p
<1>4. p \in Int /\ p \in 0 .. GearMod - 1
  BY <1>1, <1>3
<1>5. p % GearMod = p
  BY <1>1, <1>4, Remainder, Zenon
<1>6. p \div 5 \in 0 .. x
  BY <1>1, <1>3
<1>7. Surface - p \div 5 \in Int /\ Surface - p \div 5 \in min_geer_pwm .. Surface
      /\ Surface - p \div 5 \in 0 .. GearMod - 1
  BY <1>1, <1>6 DEF x
<1>8. (Surface - p \div 5) % GearMod = Surface - p \div 5
  BY <1>1, <1>7, Remainder, Zenon
<1>9. DepthPwm(d) = (Surface - (p % GearMod) \div 5) % GearMod
  BY DEF DepthPwm, p, x
<1> QED
  BY <1>5, <1>7, <1>8, <1>9

(* Steps that do not touch the hose keep its range. *)
LEMMA RangeKept ==
  ASSUME RangeInv, HistNext, UNCHANGED <<target_gear_pwm, deep_pwm, current_gear_pwm, gearpc>>
  PROVE  RangeInv'
<1>1. trusted' => trusted /\ OnHose(bottle.deep)'
  BY Zenon DEF HistNext
<1> QED
  BY <1>1 DEF RangeInv

(* Every step keeps the range. *)
LEMMA RangeNext ==
  ASSUME Inv, RangeInv, HistNext
  PROVE  RangeInv'
<1> USE DEF clock, manager_vars, gear_vars, remote_vars, server_vars
<1>0. TypeOK /\ Next
  BY DEF Inv, HistNext
<1>1. trusted' => trusted /\ OnHose(bottle.deep)'
  BY Zenon DEF HistNext
<1>2. /\ min_geer_pwm \in min_geer_pwm .. max_geer_pwm /\ max_geer_pwm \in min_geer_pwm .. max_geer_pwm
      /\ min_geer_pwm \in Nat /\ max_geer_pwm \in Nat /\ Surface <= max_geer_pwm /\ Surface \in Nat
      /\ GearMod \in Nat \ {0} /\ max_geer_pwm + 1 < GearMod
  BY GearAssumption
<1>3. CASE Wake \/ Branch \/ RemoteCompare \/ Check \/ Time \/ Compare \/ Pump \/ Mark \/ Finish \/ Preempted
  BY <1>3, RangeKept
  DEF Wake, Branch, RemoteCompare, Check, Time, Compare, Pump, Mark, Finish, Preempted
<1>4. CASE RemoteDraw
  BY <1>1, <1>2, <1>4 DEF RemoteDraw, RangeInv
<1>5. CASE Idle
  BY <1>1, <1>2, <1>5 DEF Idle, RangeInv
<1>6. CASE Depth
  <2>1. trusted => deep_pwm' \in min_geer_pwm .. max_geer_pwm
    <3>1. bottle.deep \in Int
      BY <1>0, BottleFields
    <3>2. trusted => DepthPwm(bottle.deep) \in min_geer_pwm .. Surface
      BY <3>1, DepthPwmInRange DEF RangeInv
    <3> QED
      BY <1>2, <1>6, <3>2 DEF Depth
  <2> QED
    BY <1>1, <1>6, <2>1 DEF Depth, RangeInv
<1>7. CASE Lower
  BY <1>1, <1>7 DEF Lower, RangeInv
<1>8. CASE GearTest
  BY <1>1, <1>8 DEF GearTest, RangeInv
<1>9. CASE GearCompare
  BY <1>0, <1>1, <1>2, <1>9 DEF GearCompare, RangeInv, TypeOK
<1>10. CASE GearMove
  <2> DEFINE w == IF gearpc = "down" THEN current_gear_pwm - 1 ELSE current_gear_pwm + 1
  <2>1. trusted => w \in min_geer_pwm .. max_geer_pwm + 1
    BY <1>0, <1>2, <1>10 DEF GearMove, RangeInv, TypeOK
  <2>2. current_gear_pwm' = w % GearMod
    BY <1>10 DEF GearMove
  <2> HIDE DEF w
  <2>3. trusted => w \in Int /\ w \in 0 .. GearMod - 1
    BY <1>2, <2>1
  <2>4. trusted => w % GearMod = w
    BY <1>2, <2>3, Remainder, Zenon
  <2> QED
    BY <1>1, <1>10, <2>1, <2>2, <2>4 DEF GearMove, RangeInv
<1>11. ASSUME NEW b \in Bottles, BottleCommand(b) PROVE RangeInv'
  BY <1>11, RangeKept DEF BottleCommand
<1>12. ASSUME NEW k \in KeyFrames, KeyFrame(k) PROVE RangeInv'
  BY <1>12, RangeKept DEF KeyFrame
<1>13. CASE JoystickFrame
  BY <1>13, RangeKept DEF JoystickFrame
<1> QED
  BY <1>0, <1>3, <1>4, <1>5, <1>6, <1>7, <1>8, <1>9, <1>10, <1>11, <1>12, <1>13
  DEF Next, Manager, loop_change_gear

(* As long as the server asks for depths on the hose, no interleaving of   *)
(* loop_change_gear with the manager drives the servo below its range or   *)
(* more than one step above it, whatever the remote does.                  *)
THEOREM SamplerGearInRange == HistSpec => []GearInRange
<1>1. HistInit => Inv /\ RangeInv
  BY SamplerInitInv, GearAssumption DEF HistInit, Init, RangeInv, OnHose
<1>2. Inv /\ RangeInv /\ [HistNext]_<<vars, hist>> => (Inv /\ RangeInv)'
  <2> SUFFICES ASSUME Inv, RangeInv, [HistNext]_<<vars, hist>> PROVE Inv' /\ RangeInv'
    OBVIOUS
  <2>1. [Next]_vars
    BY DEF HistNext
  <2>2. ASSUME HistNext PROVE RangeInv'
    BY <2>2, RangeNext
  <2>3. ASSUME UNCHANGED <<vars, hist>> PROVE RangeInv'
    BY <2>3 DEF vars, hist, manager_vars, gear_vars, remote_vars, server_vars, RangeInv
  <2> QED
    BY <2>1, <2>2, <2>3, SamplerNextInv
<1>3. RangeInv => GearInRange
  BY DEF RangeInv, GearInRange
<1> QED
  BY <1>1, <1>2, <1>3, PTL DEF HistSpec

-----------------------------------------------------------------------------
(***************************************************************************)
(* The draw of one command.  DrawInv relates the pumping the history       *)
(* variables have seen to the timer of the code: for a command that found  *)
(* nothing running (AloneInv) the timer leads the pump by at most the      *)
(* ticks of one turn's lateness; for one that moreover found the hose at   *)
(* rest (AtRestInv) the pump leads the timer by at most the turn lost at   *)
(* reading 0, the timer has run past the time needed by at most the time   *)
(* since the last comparison (Slack), and the hose stays where it is from  *)
(* the first tick of the timer to the last.                                *)
(***************************************************************************)
(* Age of the timer, and the width of the hose's depth. *)
Age == Elapsed(draw_start_tick)

Goal == DepthPwm(bottle.deep)

HistTypeOK == drawn \in 0 .. TickMod + Turn /\ quiet \in Quiet

(* A command reported done is not being worked on. *)
DoneOK ==
  draw_status = 4 => pc \notin {"depth", "lower", "time", "compare", "pump", "mark", "finish"}

TimerCovered ==
  /\ draw_start_tick # 0 /\ pc \notin {"compare", "pump", "finish"} => pump = bottle.id
  /\ pc \in {"compare", "pump"} /\ (pump = 0 \/ draw_start_tick = 0) => Age <= late
  /\ draw_start_tick # 0 \/ pc \in {"compare", "pump"}
       => Age <= drawn + Late \/ Needed <= drawn + Late
  /\ pc = "finish" \/ draw_status = 4 => Needed <= drawn + Late

AloneInv ==
  quiet # "disturbed" =>
    /\ ~key.enable /\ pc \notin {"remote", "limit"}
    /\ pump # 0 => pump = bottle.id
    /\ draw_status = 4 => pump = 0 /\ draw_start_tick = 0
    /\ pc = "idle" => bottle.id = 0 \/ draw_status = 4 \/ (pump = 0 /\ draw_start_tick = 0)
    /\ HasValve /\ Timed => TimerCovered

(* On its way the hose has the depth as its target and moves towards it. *)
OnItsWay ==
  /\ target_gear_pwm = Goal
  /\ gearpc = "compare" => current_gear_pwm # target_gear_pwm
  /\ gearpc = "down" => current_gear_pwm > target_gear_pwm
  /\ gearpc = "up" => current_gear_pwm < target_gear_pwm

Pumping == pump # 0 \/ draw_start_tick # 0 \/ pc \in {"time", "compare", "pump", "mark", "finish"}

HoseInv ==
  /\ HoseIn \/ OnItsWay
  /\ Pumping => current_gear_pwm = Goal /\ target_gear_pwm = Goal /\ gearpc = "test"
  /\ pc \in {"idle", "lower"} => pump = 0 /\ draw_start_tick = 0
  /\ pc = "idle" => HoseIn
  /\ pc = "lower" => deep_pwm = Goal

(* Ticks since the timer was last compared. *)
Slack ==
  IF pc = "sleep" THEN Late ELSE IF pc \in {"pump", "mark"} THEN late ELSE Late + Period + late

CountInv ==
  /\ pump = 0 => drawn = 0
  /\ draw_start_tick # 0 => drawn <= Age + Turn
  /\ draw_start_tick # 0 /\ (pump # 0 \/ pc = "pump") => Age < Needed + Slack
  /\ draw_start_tick = 0 /\ pump # 0 => drawn <= tick /\ tick <= Slack

AtRestInv ==
  quiet = "atRest" /\ HasValve =>
    /\ draw_status # 4 => HoseInv /\ (Timed => CountInv)
    /\ draw_status = 4 /\ Timed => drawn < Needed + 2 * Turn

DrawInv == HistTypeOK /\ DoneOK /\ AloneInv /\ AtRestInv

-----------------------------------------------------------------------------
(* Types of the quantities the draw is measured with. *)
LEMMA DrawTypes ==
  ASSUME TypeOK
  PROVE  /\ Age \in 0 .. TickMod - 1 /\ Needed \in Int
         /\ Goal \in 0 .. GearMod - 1
         /\ tick \in 0 .. TickMod - 1 /\ TickMod \in Nat \ {0}
         /\ draw_start_tick \in 0 .. TickMod - 1 /\ pump \in 0 .. 8
         /\ bottle.id \in Int
         /\ late \in Nat /\ late <= Late /\ Late \in Nat /\ Period \in Nat \ {0}
         /\ Turn = Period + 2 * Late /\ Turn \in Nat
         /\ (Timed <=> Needed >= 0 /\ Needed + Turn < TickMod)
<1>1. Age \in 0 .. TickMod - 1
  BY ElapsedType DEF Age, TypeOK
<1>2. Needed \in Int
  <2>1. FullDrawTime(bottle.amount) \in Int
    BY BottleFields, FullDrawTimeType
  <2> QED
    BY <2>1, TimeAssumption DEF Needed
<1>3. Goal \in 0 .. GearMod - 1
  BY BottleFields, WidthTypes DEF Goal
<1> QED
  BY <1>1, <1>2, <1>3, BottleFields, TimeAssumption DEF TypeOK, Turn, Timed

(* A timer that starts now has age 0; one not started has the tick's. *)
LEMMA AgeAtStart ==
  ASSUME TypeOK
  PROVE  /\ Elapsed(Started) = IF draw_start_tick = 0 THEN 0 ELSE Age
         /\ draw_start_tick = 0 => Age = tick
<1>1. tick \in 0 .. TickMod - 1 /\ TickMod \in Nat /\ 0 \in 0 .. TickMod - 1
  BY TimeAssumption DEF TypeOK
<1>2. (tick - tick) % TickMod = 0 /\ (tick - 0) % TickMod = tick
  BY <1>1, TickArith
<1> QED
  BY <1>2 DEF Elapsed, Started, Age

(* A step that is neither a tick nor a command leaves the history alone,   *)
(* but for a disturbance.                                                  *)
LEMMA HistKept ==
  ASSUME TypeOK, HistTypeOK, HistNext, UNCHANGED <<tick, commands>>
  PROVE  drawn' = drawn /\ quiet' \in {"disturbed", quiet} /\ (quiet' # "disturbed" => ~key'.enable)
<1>1. Ticks = 0
  <2>1. tick \in 0 .. TickMod - 1
    BY DEF TypeOK
  <2>2. (tick - tick) % TickMod = 0
    BY <2>1, TickArith
  <2> QED
    BY <2>2 DEF Ticks
<1>2. drawn + 0 = drawn /\ ~(drawn > TickMod + Turn)
  BY DrawTypes DEF HistTypeOK
<1>3. AtMost(drawn + Ticks, TickMod + Turn) = drawn
  BY <1>1, <1>2 DEF AtMost
<1> QED
  BY <1>3 DEF HistNext, NewCommand

(* What depends on the command and the timer alone. *)
LEMMA SameCommand ==
  ASSUME UNCHANGED bottle
  PROVE  Needed' = Needed /\ (HasValve <=> HasValve') /\ Goal' = Goal /\ (Timed <=> Timed')
BY DEF Needed, HasValve, Goal, DepthPwm, FullDrawTime, Timed

LEMMA SameTimer ==
  ASSUME UNCHANGED <<tick, draw_start_tick>>
  PROVE  Age' = Age
BY DEF Age, Elapsed

-----------------------------------------------------------------------------
(* The manager chooses between the remote and the server. *)
LEMMA DrawBranch ==
  ASSUME Inv, DrawInv, HistNext, Branch
  PROVE  DrawInv'
<1> USE DEF clock, manager_vars, gear_vars, remote_vars, server_vars
<1>0. TypeOK /\ HistTypeOK
  BY DEF Inv, DrawInv
<1>1. drawn' = drawn /\ quiet' \in {"disturbed", quiet} /\ (quiet' # "disturbed" => ~key'.enable)
  BY <1>0, HistKept DEF Branch
<1>2. Needed' = Needed /\ (HasValve <=> HasValve') /\ Goal' = Goal /\ (Timed <=> Timed')
  BY SameCommand DEF Branch
<1>3. Age' = Age
  BY SameTimer DEF Branch
<1>4. /\ pc = "branch" /\ pc' = (IF key.enable THEN "remote" ELSE "check") /\ late' = late
      /\ UNCHANGED <<tick, pump, draw_start_tick, draw_status, bottle, deep_pwm,
                    current_gear_pwm, target_gear_pwm, gearpc, key>>
  BY <1>0 DEF Branch, Goto
<1>5. /\ Age \in Nat /\ Needed \in Int /\ drawn \in Nat /\ tick \in Nat /\ Turn = Period + 2 * Late
      /\ late \in Nat /\ late <= Late /\ Late \in Nat /\ Period \in Nat \ {0}
      /\ (Timed <=> Needed >= 0 /\ Needed + Turn < TickMod)
  BY <1>0, DrawTypes DEF HistTypeOK
<1>6. HistTypeOK' /\ DoneOK'
  BY <1>1, <1>4 DEF DrawInv, HistTypeOK, Quiet, DoneOK, Turn
<1>7. AloneInv'
  BY <1>1, <1>2, <1>3, <1>4, <1>5 DEF DrawInv, DoneOK, AloneInv, TimerCovered
<1>8. AtRestInv'
  <2> SUFFICES ASSUME quiet' = "atRest", HasValve', draw_status' # 4
               PROVE  HoseInv' /\ (Timed' => CountInv')
    BY <1>1, <1>2, <1>4, <1>5 DEF DrawInv, AtRestInv, Turn
  <2>1. HoseInv /\ (Timed => CountInv) /\ (Timed => TimerCovered) /\ (pump # 0 => pump = bottle.id)
    BY <1>1, <1>2, <1>4 DEF DrawInv, DoneOK, AtRestInv, AloneInv
  <2>2. HoseInv'
    BY <1>2, <1>4, <2>1 DEF HoseInv, HoseIn, OnItsWay, Pumping
  <2>3. Timed' => CountInv'
    BY <1>1, <1>2, <1>3, <1>4, <1>5, <2>1 DEF CountInv, Slack, TimerCovered
  <2> QED
    BY <2>2, <2>3
<1> QED
  BY <1>6, <1>7, <1>8 DEF DrawInv

(* The manager looks for a bottle to fill. *)
LEMMA DrawCheck ==
  ASSUME Inv, DrawInv, HistNext, Check
  PROVE  DrawInv'
<1> USE DEF clock, manager_vars, gear_vars, remote_vars, server_vars
<1>0. TypeOK /\ HistTypeOK
  BY DEF Inv, DrawInv
<1>1. drawn' = drawn /\ quiet' \in {"disturbed", quiet} /\ (quiet' # "disturbed" => ~key'.enable)
  BY <1>0, HistKept DEF Check
<1>2. Needed' = Needed /\ (HasValve <=> HasValve') /\ Goal' = Goal /\ (Timed <=> Timed')
  BY SameCommand DEF Check
<1>3. Age' = Age
  BY SameTimer DEF Check
<1>4. /\ pc = "check" /\ pc' = (IF bottle.id # 0 /\ draw_status # 4 THEN "depth" ELSE "idle")
      /\ late' = late
      /\ UNCHANGED <<tick, pump, draw_start_tick, draw_status, bottle, deep_pwm,
                    current_gear_pwm, target_gear_pwm, gearpc, key>>
  BY <1>0 DEF Check, Goto
<1>5. /\ Age \in Nat /\ Needed \in Int /\ drawn \in Nat /\ tick \in Nat /\ Turn = Period + 2 * Late
      /\ late \in Nat /\ late <= Late /\ Late \in Nat /\ Period \in Nat \ {0}
      /\ (Timed <=> Needed >= 0 /\ Needed + Turn < TickMod)
  BY <1>0, DrawTypes DEF HistTypeOK
<1>6. HistTypeOK' /\ DoneOK'
  BY <1>1, <1>4 DEF DrawInv, HistTypeOK, Quiet, DoneOK, Turn
<1>7. AloneInv'
  BY <1>1, <1>2, <1>3, <1>4, <1>5 DEF DrawInv, DoneOK, AloneInv, TimerCovered
<1>8. AtRestInv'
  <2> SUFFICES ASSUME quiet' = "atRest", HasValve', draw_status' # 4
               PROVE  HoseInv' /\ (Timed' => CountInv')
    BY <1>1, <1>2, <1>4, <1>5 DEF DrawInv, AtRestInv, Turn
  <2>1. HoseInv /\ (Timed => CountInv) /\ (Timed => TimerCovered) /\ (pump # 0 => pump = bottle.id)
    BY <1>1, <1>2, <1>4 DEF DrawInv, DoneOK, AtRestInv, AloneInv
  <2>2. HoseInv'
    BY <1>2, <1>4, <2>1 DEF HoseInv, HoseIn, OnItsWay, Pumping, HasValve
  <2>3. Timed' => CountInv'
    BY <1>1, <1>2, <1>3, <1>4, <1>5, <2>1 DEF CountInv, Slack, TimerCovered, HasValve
  <2> QED
    BY <2>2, <2>3
<1> QED
  BY <1>6, <1>7, <1>8 DEF DrawInv

(* The manager compares the hose with the depth. *)
LEMMA DrawDepth ==
  ASSUME Inv, DrawInv, HistNext, Depth
  PROVE  DrawInv'
<1> USE DEF clock, manager_vars, gear_vars, remote_vars, server_vars
<1>0. TypeOK /\ HistTypeOK
  BY DEF Inv, DrawInv
<1>1. drawn' = drawn /\ quiet' \in {"disturbed", quiet} /\ (quiet' # "disturbed" => ~key'.enable)
  BY <1>0, HistKept DEF Depth
<1>2. Needed' = Needed /\ (HasValve <=> HasValve') /\ Goal' = Goal /\ (Timed <=> Timed')
  BY SameCommand DEF Depth
<1>3. Age' = Age
  BY SameTimer DEF Depth
<1>4. /\ pc = "depth" /\ pc' = (IF current_gear_pwm = Goal THEN "time" ELSE "lower")
      /\ late' = late /\ deep_pwm' = Goal
      /\ UNCHANGED <<tick, pump, draw_start_tick, draw_status, bottle,
                    current_gear_pwm, target_gear_pwm, gearpc, key>>
  BY <1>0 DEF Depth, Goto, AtDepth, Goal
<1>5. /\ Age \in Nat /\ Needed \in Int /\ drawn \in Nat /\ tick \in Nat /\ Turn = Period + 2 * Late
      /\ late \in Nat /\ late <= Late /\ Late \in Nat /\ Period \in Nat \ {0}
      /\ (Timed <=> Needed >= 0 /\ Needed + Turn < TickMod)
  BY <1>0, DrawTypes DEF HistTypeOK
<1>t. current_gear_pwm \in Int /\ target_gear_pwm \in Int /\ gearpc \in {"test", "compare", "down", "up"}
  BY <1>0, GearAssumption DEF TypeOK
<1>6. HistTypeOK' /\ DoneOK'
  BY <1>1, <1>4 DEF DrawInv, HistTypeOK, Quiet, DoneOK, Turn
<1>7. AloneInv'
  BY <1>1, <1>2, <1>3, <1>4, <1>5 DEF DrawInv, DoneOK, AloneInv, TimerCovered
<1>8. AtRestInv'
  <2> SUFFICES ASSUME quiet' = "atRest", HasValve', draw_status' # 4
               PROVE  HoseInv' /\ (Timed' => CountInv')
    BY <1>1, <1>2, <1>4, <1>5 DEF DrawInv, AtRestInv, Turn
  <2>1. HoseInv /\ (Timed => CountInv) /\ (Timed => TimerCovered) /\ (pump # 0 => pump = bottle.id)
    BY <1>1, <1>2, <1>4 DEF DrawInv, DoneOK, AtRestInv, AloneInv
  <2>2. HoseInv'
    BY <1>2, <1>4, <2>1, <1>t DEF HoseInv, HoseIn, OnItsWay, Pumping
  <2>3. Timed' => CountInv'
    BY <1>1, <1>2, <1>3, <1>4, <1>5, <2>1, <1>t DEF CountInv, Slack, TimerCovered
  <2> QED
    BY <2>2, <2>3
<1> QED
  BY <1>6, <1>7, <1>8 DEF DrawInv

(* The manager sends the hose down. *)
LEMMA DrawLower ==
  ASSUME Inv, DrawInv, HistNext, Lower
  PROVE  DrawInv'
<1> USE DEF clock, manager_vars, gear_vars, remote_vars, server_vars
<1>0. TypeOK /\ HistTypeOK
  BY DEF Inv, DrawInv
<1>1. drawn' = drawn /\ quiet' \in {"disturbed", quiet} /\ (quiet' # "disturbed" => ~key'.enable)
  BY <1>0, HistKept DEF Lower
<1>2. Needed' = Needed /\ (HasValve <=> HasValve') /\ Goal' = Goal /\ (Timed <=> Timed')
  BY SameCommand DEF Lower
<1>3. Age' = Age
  BY SameTimer DEF Lower
<1>4. /\ pc = "lower" /\ pc' = "sleep" /\ draw_status' = 1 /\ target_gear_pwm' = deep_pwm /\ late' = 0
      /\ UNCHANGED <<tick, pump, draw_start_tick, bottle, deep_pwm,
                    current_gear_pwm, gearpc, key>>
  BY <1>0 DEF Lower, Goto
<1>5. /\ Age \in Nat /\ Needed \in Int /\ drawn \in Nat /\ tick \in Nat /\ Turn = Period + 2 * Late
      /\ late \in Nat /\ late <= Late /\ Late \in Nat /\ Period \in Nat \ {0}
      /\ (Timed <=> Needed >= 0 /\ Needed + Turn < TickMod)
  BY <1>0, DrawTypes DEF HistTypeOK
<1>t. current_gear_pwm \in Int /\ max_geer_pwm \in Int /\ gearpc \in {"test", "compare", "down", "up"}
  BY <1>0, GearAssumption DEF TypeOK
<1>6. HistTypeOK' /\ DoneOK'
  BY <1>1, <1>4 DEF DrawInv, HistTypeOK, Quiet, DoneOK, Turn
<1>7. AloneInv'
  BY <1>1, <1>2, <1>3, <1>4, <1>5 DEF DrawInv, DoneOK, AloneInv, TimerCovered
<1>8. AtRestInv'
  <2> SUFFICES ASSUME quiet' = "atRest", HasValve', draw_status' # 4
               PROVE  HoseInv' /\ (Timed' => CountInv')
    BY <1>1, <1>2, <1>4, <1>5 DEF DrawInv, AtRestInv, Turn
  <2>1. HoseInv /\ (Timed => CountInv) /\ (Timed => TimerCovered) /\ (pump # 0 => pump = bottle.id)
    BY <1>1, <1>2, <1>4 DEF DrawInv, DoneOK, AtRestInv, AloneInv
  <2>2. HoseInv'
    BY <1>2, <1>4, <2>1, <1>t DEF HoseInv, HoseIn, OnItsWay, Pumping
  <2>3. Timed' => CountInv'
    BY <1>1, <1>2, <1>3, <1>4, <1>5, <2>1, <1>t DEF CountInv, Slack, TimerCovered, HoseInv
  <2> QED
    BY <2>2, <2>3
<1> QED
  BY <1>6, <1>7, <1>8 DEF DrawInv

(* The manager compares the timer with the time needed. *)
LEMMA DrawCompare ==
  ASSUME Inv, DrawInv, HistNext, Compare
  PROVE  DrawInv'
<1> USE DEF clock, manager_vars, gear_vars, remote_vars, server_vars
<1>0. TypeOK /\ HistTypeOK
  BY DEF Inv, DrawInv
<1>1. drawn' = drawn /\ quiet' \in {"disturbed", quiet} /\ (quiet' # "disturbed" => ~key'.enable)
  BY <1>0, HistKept DEF Compare
<1>2. Needed' = Needed /\ (HasValve <=> HasValve') /\ Goal' = Goal /\ (Timed <=> Timed')
  BY SameCommand DEF Compare
<1>3. Age' = Age
  BY SameTimer DEF Compare
<1>4. /\ pc = "compare" /\ pc' \in {"pump", "finish"} /\ late' = late
      /\ UNCHANGED <<tick, pump, draw_start_tick, draw_status, bottle, deep_pwm,
                    current_gear_pwm, target_gear_pwm, gearpc, key>>
  BY <1>0 DEF Compare, Goto
<1>5. /\ Age \in Nat /\ Needed \in Int /\ drawn \in Nat /\ tick \in Nat /\ Turn = Period + 2 * Late
      /\ late \in Nat /\ late <= Late /\ Late \in Nat /\ Period \in Nat \ {0}
      /\ (Timed <=> Needed >= 0 /\ Needed + Turn < TickMod)
  BY <1>0, DrawTypes DEF HistTypeOK
<1>b. draw_start_tick = 0 => Age = tick
  BY <1>0, AgeAtStart
<1>a. Timed => pc' = IF Age < Needed THEN "pump" ELSE "finish"
  <2>1. pc' = IF Age < Needed % TickMod THEN "pump" ELSE "finish"
    BY DEF Compare, Goto, Within, Age, Needed
  <2>2. Timed => Needed \in 0 .. TickMod - 1
    BY <1>0, <1>5, DrawTypes
  <2>3. Timed => Needed % TickMod = Needed
    BY <1>0, <1>5, <2>2, DrawTypes, Remainder
  <2> QED
    BY <2>1, <2>3
<1>6. HistTypeOK' /\ DoneOK'
  BY <1>1, <1>4 DEF DrawInv, HistTypeOK, Quiet, DoneOK, Turn
<1>7. AloneInv'
  BY <1>1, <1>2, <1>3, <1>4, <1>5, <1>a DEF DrawInv, DoneOK, AloneInv, TimerCovered
<1>8. AtRestInv'
  <2> SUFFICES ASSUME quiet' = "atRest", HasValve', draw_status' # 4
               PROVE  HoseInv' /\ (Timed' => CountInv')
    BY <1>1, <1>2, <1>4, <1>5 DEF DrawInv, AtRestInv, Turn
  <2>1. HoseInv /\ (Timed => CountInv) /\ (Timed => TimerCovered) /\ (pump # 0 => pump = bottle.id)
    BY <1>1, <1>2, <1>4 DEF DrawInv, DoneOK, AtRestInv, AloneInv
  <2>2. HoseInv'
    BY <1>2, <1>4, <2>1, <1>a, <1>b DEF HoseInv, HoseIn, OnItsWay, Pumping
  <2>3. Timed' => CountInv'
    BY <1>1, <1>2, <1>3, <1>4, <1>5, <2>1, <1>a, <1>b DEF CountInv, Slack, TimerCovered
  <2> QED
    BY <2>2, <2>3
<1> QED
  BY <1>6, <1>7, <1>8 DEF DrawInv

(* The manager opens the valve of the bottle, if it has one. *)
LEMMA DrawPump ==
  ASSUME Inv, DrawInv, HistNext, Pump
  PROVE  DrawInv'
<1> USE DEF clock, manager_vars, gear_vars, remote_vars, server_vars
<1>0. TypeOK /\ HistTypeOK
  BY DEF Inv, DrawInv
<1>1. drawn' = drawn /\ quiet' \in {"disturbed", quiet} /\ (quiet' # "disturbed" => ~key'.enable)
  BY <1>0, HistKept DEF Pump
<1>2. Needed' = Needed /\ (HasValve <=> HasValve') /\ Goal' = Goal /\ (Timed <=> Timed')
  BY SameCommand DEF Pump
<1>3. Age' = Age
  BY SameTimer DEF Pump
<1>4. /\ pc = "pump" /\ pc' = "mark" /\ late' = late /\ pump' = (IF HasValve THEN bottle.id ELSE 0)
      /\ UNCHANGED <<tick, draw_start_tick, draw_status, bottle, deep_pwm,
                    current_gear_pwm, target_gear_pwm, gearpc, key>>
  BY <1>0 DEF Pump, Goto, draw, HasValve
<1>5. /\ Age \in Nat /\ Needed \in Int /\ drawn \in Nat /\ tick \in Nat /\ Turn = Period + 2 * Late
      /\ late \in Nat /\ late <= Late /\ Late \in Nat /\ Period \in Nat \ {0}
      /\ (Timed <=> Needed >= 0 /\ Needed + Turn < TickMod)
  BY <1>0, DrawTypes DEF HistTypeOK
<1>a. bottle.id \in Int /\ (HasValve <=> bottle.id \in 1 .. 8) /\ (draw_start_tick = 0 => Age = tick)
  BY <1>0, DrawTypes, AgeAtStart DEF HasValve
<1>6. HistTypeOK' /\ DoneOK'
  BY <1>1, <1>4 DEF DrawInv, HistTypeOK, Quiet, DoneOK, Turn
<1>7. AloneInv'
  BY <1>1, <1>2, <1>3, <1>4, <1>5, <1>a DEF DrawInv, DoneOK, AloneInv, TimerCovered
<1>8. AtRestInv'
  <2> SUFFICES ASSUME quiet' = "atRest", HasValve', draw_status' # 4
               PROVE  HoseInv' /\ (Timed' => CountInv')
    BY <1>1, <1>2, <1>4, <1>5 DEF DrawInv, AtRestInv, Turn
  <2>1. HoseInv /\ (Timed => CountInv) /\ (Timed => TimerCovered) /\ (pump # 0 => pump = bottle.id)
    BY <1>1, <1>2, <1>4 DEF DrawInv, DoneOK, AtRestInv, AloneInv
  <2>2. HoseInv'
    BY <1>2, <1>4, <2>1, <1>a DEF HoseInv, HoseIn, OnItsWay, Pumping
  <2>3. Timed' => CountInv'
    BY <1>1, <1>2, <1>3, <1>4, <1>5, <2>1, <1>a DEF CountInv, Slack, TimerCovered
  <2> QED
    BY <2>2, <2>3
<1> QED
  BY <1>6, <1>7, <1>8 DEF DrawInv

(* The manager reports the draw as running. *)
LEMMA DrawMark ==
  ASSUME Inv, DrawInv, HistNext, Mark
  PROVE  DrawInv'
<1> USE DEF clock, manager_vars, gear_vars, remote_vars, server_vars
<1>0. TypeOK /\ HistTypeOK
  BY DEF Inv, DrawInv
<1>1. drawn' = drawn /\ quiet' \in {"disturbed", quiet} /\ (quiet' # "disturbed" => ~key'.enable)
  BY <1>0, HistKept DEF Mark
<1>2. Needed' = Needed /\ (HasValve <=> HasValve') /\ Goal' = Goal /\ (Timed <=> Timed')
  BY SameCommand DEF Mark
<1>3. Age' = Age
  BY SameTimer DEF Mark
<1>4. /\ pc = "mark" /\ pc' = "sleep" /\ draw_status' = 2 /\ late' = 0
      /\ UNCHANGED <<tick, pump, draw_start_tick, bottle, deep_pwm,
                    current_gear_pwm, target_gear_pwm, gearpc, key>>
  BY <1>0 DEF Mark, Goto
<1>5. /\ Age \in Nat /\ Needed \in Int /\ drawn \in Nat /\ tick \in Nat /\ Turn = Period + 2 * Late
      /\ late \in Nat /\ late <= Late /\ Late \in Nat /\ Period \in Nat \ {0}
      /\ (Timed <=> Needed >= 0 /\ Needed + Turn < TickMod)
  BY <1>0, DrawTypes DEF HistTypeOK
<1>6. HistTypeOK' /\ DoneOK'
  BY <1>1, <1>4 DEF DrawInv, HistTypeOK, Quiet, DoneOK, Turn
<1>7. AloneInv'
  BY <1>1, <1>2, <1>3, <1>4, <1>5 DEF DrawInv, DoneOK, AloneInv, TimerCovered
<1>8. AtRestInv'
  <2> SUFFICES ASSUME quiet' = "atRest", HasValve', draw_status' # 4
               PROVE  HoseInv' /\ (Timed' => CountInv')
    BY <1>1, <1>2, <1>4, <1>5 DEF DrawInv, AtRestInv, Turn
  <2>1. HoseInv /\ (Timed => CountInv) /\ (Timed => TimerCovered) /\ (pump # 0 => pump = bottle.id)
    BY <1>1, <1>2, <1>4 DEF DrawInv, DoneOK, AtRestInv, AloneInv
  <2>2. HoseInv'
    BY <1>2, <1>4, <2>1 DEF HoseInv, HoseIn, OnItsWay, Pumping
  <2>3. Timed' => CountInv'
    BY <1>1, <1>2, <1>3, <1>4, <1>5, <2>1 DEF CountInv, Slack, TimerCovered
  <2> QED
    BY <2>2, <2>3
<1> QED
  BY <1>6, <1>7, <1>8 DEF DrawInv

(* The gear thread sees whether to move. *)
LEMMA DrawGearTest ==
  ASSUME Inv, DrawInv, HistNext, GearTest
  PROVE  DrawInv'
<1> USE DEF clock, manager_vars, gear_vars, remote_vars, server_vars
<1>0. TypeOK /\ HistTypeOK
  BY DEF Inv, DrawInv
<1>1. drawn' = drawn /\ quiet' \in {"disturbed", quiet} /\ (quiet' # "disturbed" => ~key'.enable)
  BY <1>0, HistKept DEF GearTest
<1>2. Needed' = Needed /\ (HasValve <=> HasValve') /\ Goal' = Goal /\ (Timed <=> Timed')
  BY SameCommand DEF GearTest
<1>3. Age' = Age
  BY SameTimer DEF GearTest
<1>4. /\ pc = "sleep" /\ pc' = pc /\ gearpc = "test"
      /\ gearpc' = IF current_gear_pwm # target_gear_pwm THEN "compare" ELSE gearpc
      /\ UNCHANGED <<tick, late, pump, draw_start_tick, draw_status, bottle,
                    deep_pwm, current_gear_pwm, target_gear_pwm, key>>
  BY <1>0 DEF GearTest, GearRuns
<1>5. /\ Age \in Nat /\ Needed \in Int /\ drawn \in Nat /\ tick \in Nat /\ Turn = Period + 2 * Late
      /\ late \in Nat /\ late <= Late /\ Late \in Nat /\ Period \in Nat \ {0}
      /\ (Timed <=> Needed >= 0 /\ Needed + Turn < TickMod)
  BY <1>0, DrawTypes DEF HistTypeOK
<1>6. HistTypeOK' /\ DoneOK'
  BY <1>1, <1>4 DEF DrawInv, HistTypeOK, Quiet, DoneOK, Turn
<1>7. AloneInv'
  BY <1>1, <1>2, <1>3, <1>4, <1>5 DEF DrawInv, DoneOK, AloneInv, TimerCovered
<1>8. AtRestInv'
  <2> SUFFICES ASSUME quiet' = "atRest", HasValve', draw_status' # 4
               PROVE  HoseInv' /\ (Timed' => CountInv')
    BY <1>1, <1>2, <1>4, <1>5 DEF DrawInv, AtRestInv, Turn
  <2>1. HoseInv /\ (Timed => CountInv) /\ (Timed => TimerCovered) /\ (pump # 0 => pump = bottle.id)
    BY <1>1, <1>2, <1>4 DEF DrawInv, DoneOK, AtRestInv, AloneInv
  <2>2. HoseInv'
    BY <1>2, <1>4, <2>1 DEF HoseInv, HoseIn, OnItsWay, Pumping
  <2>3. Timed' => CountInv'
    BY <1>1, <1>2, <1>3, <1>4, <1>5, <2>1 DEF CountInv, Slack, TimerCovered
  <2> QED
    BY <2>2, <2>3
<1> QED
  BY <1>6, <1>7, <1>8 DEF DrawInv

(* The gear thread chooses the direction. *)
LEMMA DrawGearCompare ==
  ASSUME Inv, DrawInv, HistNext, GearCompare
  PROVE  DrawInv'
<1> USE DEF clock, manager_vars, gear_vars, remote_vars, server_vars
<1>0. TypeOK /\ HistTypeOK
  BY DEF Inv, DrawInv
<1>1. drawn' = drawn /\ quiet' \in {"disturbed", quiet} /\ (quiet' # "disturbed" => ~key'.enable)
  BY <1>0, HistKept DEF GearCompare
<1>2. Needed' = Needed /\ (HasValve <=> HasValve') /\ Goal' = Goal /\ (Timed <=> Timed')
  BY SameCommand DEF GearCompare
<1>3. Age' = Age
  BY SameTimer DEF GearCompare
<1>4. /\ pc = "sleep" /\ pc' = pc /\ gearpc = "compare"
      /\ gearpc' = IF current_gear_pwm > target_gear_pwm THEN "down" ELSE "up"
      /\ UNCHANGED <<tick, late, pump, draw_start_tick, draw_status, bottle,
                    deep_pwm, current_gear_pwm, target_gear_pwm, key>>
  BY <1>0 DEF GearCompare, GearRuns
<1>5. /\ Age \in Nat /\ Needed \in Int /\ drawn \in Nat /\ tick \in Nat /\ Turn = Period + 2 * Late
      /\ late \in Nat /\ late <= Late /\ Late \in Nat /\ Period \in Nat \ {0}
      /\ (Timed <=> Needed >= 0 /\ Needed + Turn < TickMod)
  BY <1>0, DrawTypes DEF HistTypeOK
<1>t. current_gear_pwm \in Int /\ target_gear_pwm \in Int
  BY <1>0, GearAssumption DEF TypeOK
<1>6. HistTypeOK' /\ DoneOK'
  BY <1>1, <1>4 DEF DrawInv, HistTypeOK, Quiet, DoneOK, Turn
<1>7. AloneInv'
  BY <1>1, <1>2, <1>3, <1>4, <1>5 DEF DrawInv, DoneOK, AloneInv, TimerCovered
<1>8. AtRestInv'
  <2> SUFFICES ASSUME quiet' = "atRest", HasValve', draw_status' # 4
               PROVE  HoseInv' /\ (Timed' => CountInv')
    BY <1>1, <1>2, <1>4, <1>5 DEF DrawInv, AtRestInv, Turn
  <2>1. HoseInv /\ (Timed => CountInv) /\ (Timed => TimerCovered) /\ (pump # 0 => pump = bottle.id)
    BY <1>1, <1>2, <1>4 DEF DrawInv, DoneOK, AtRestInv, AloneInv
  <2>2. HoseInv'
    BY <1>2, <1>4, <2>1, <1>t DEF HoseInv, HoseIn, OnItsWay, Pumping
  <2>3. Timed' => CountInv'
    BY <1>1, <1>2, <1>3, <1>4, <1>5, <2>1, <1>t DEF CountInv, Slack, TimerCovered
  <2> QED
    BY <2>2, <2>3
<1> QED
  BY <1>6, <1>7, <1>8 DEF DrawInv

(* The gear thread moves the hose by a step. *)
LEMMA DrawGearMove ==
  ASSUME Inv, DrawInv, HistNext, GearMove
  PROVE  DrawInv'
<1> USE DEF clock, manager_vars, gear_vars, remote_vars, server_vars
<1>0. TypeOK /\ HistTypeOK
  BY DEF Inv, DrawInv
<1>1. drawn' = drawn /\ quiet' \in {"disturbed", quiet} /\ (quiet' # "disturbed" => ~key'.enable)
  BY <1>0, HistKept DEF GearMove
<1>2. Needed' = Needed /\ (HasValve <=> HasValve') /\ Goal' = Goal /\ (Timed <=> Timed')
  BY SameCommand DEF GearMove
<1>3. Age' = Age
  BY SameTimer DEF GearMove
<1>4. /\ pc = "sleep" /\ pc' = pc /\ gearpc \in {"down", "up"} /\ gearpc' = "test"
      /\ current_gear_pwm' =
           (IF gearpc = "down" THEN current_gear_pwm - 1 ELSE current_gear_pwm + 1) % GearMod
      /\ UNCHANGED <<tick, late, pump, draw_start_tick, draw_status,
                    bottle, deep_pwm, target_gear_pwm, key>>
  BY <1>0 DEF GearMove, GearRuns
<1>5. /\ Age \in Nat /\ Needed \in Int /\ drawn \in Nat /\ tick \in Nat /\ Turn = Period + 2 * Late
      /\ late \in Nat /\ late <= Late /\ Late \in Nat /\ Period \in Nat \ {0}
      /\ (Timed <=> Needed >= 0 /\ Needed + Turn < TickMod)
  BY <1>0, DrawTypes DEF HistTypeOK
<1>6. HistTypeOK' /\ DoneOK'
  BY <1>1, <1>4 DEF DrawInv, HistTypeOK, Quiet, DoneOK, Turn
<1>7. AloneInv'
  BY <1>1, <1>2, <1>3, <1>4, <1>5 DEF DrawInv, DoneOK, AloneInv, TimerCovered
<1>8. AtRestInv'
  <2> SUFFICES ASSUME quiet' = "atRest", HasValve', draw_status' # 4
               PROVE  HoseInv' /\ (Timed' => CountInv')
    BY <1>1, <1>2, <1>4, <1>5 DEF DrawInv, AtRestInv, Turn
  <2>1. HoseInv /\ (Timed => CountInv) /\ (Timed => TimerCovered) /\ (pump # 0 => pump = bottle.id)
    BY <1>1, <1>2, <1>4 DEF DrawInv, DoneOK, AtRestInv, AloneInv
  <2>2. HoseInv'
    BY <1>2, <1>4, <2>1 DEF HoseInv, HoseIn, OnItsWay, Pumping
  <2>3. Timed' => CountInv'
    BY <1>1, <1>2, <1>3, <1>4, <1>5, <2>1 DEF CountInv, Slack, TimerCovered
  <2> QED
    BY <2>2, <2>3
<1> QED
  BY <1>6, <1>7, <1>8 DEF DrawInv

(* A joystick frame changes nothing a draw depends on. *)
LEMMA DrawJoystick ==
  ASSUME Inv, DrawInv, HistNext, JoystickFrame
  PROVE  DrawInv'
<1> USE DEF clock, manager_vars, gear_vars, remote_vars, server_vars
<1>0. TypeOK /\ HistTypeOK
  BY DEF Inv, DrawInv
<1>1. drawn' = drawn /\ quiet' \in {"disturbed", quiet} /\ (quiet' # "disturbed" => ~key'.enable)
  BY <1>0, HistKept DEF JoystickFrame
<1>2. Needed' = Needed /\ (HasValve <=> HasValve') /\ Goal' = Goal /\ (Timed <=> Timed')
  BY SameCommand DEF JoystickFrame
<1>3. Age' = Age
  BY SameTimer DEF JoystickFrame
<1>4. /\ pc' = pc
      /\ UNCHANGED <<tick, late, pump, draw_start_tick, draw_status, bottle,
                    deep_pwm, current_gear_pwm, target_gear_pwm, gearpc, key>>
  BY <1>0 DEF JoystickFrame
<1>5. /\ Age \in Nat /\ Needed \in Int /\ drawn \in Nat /\ tick \in Nat /\ Turn = Period + 2 * Late
      /\ late \in Nat /\ late <= Late /\ Late \in Nat /\ Period \in Nat \ {0}
      /\ (Timed <=> Needed >= 0 /\ Needed + Turn < TickMod)
  BY <1>0, DrawTypes DEF HistTypeOK
<1>6. HistTypeOK' /\ DoneOK'
  BY <1>1, <1>4 DEF DrawInv, HistTypeOK, Quiet, DoneOK, Turn
<1>7. AloneInv'
  BY <1>1, <1>2, <1>3, <1>4, <1>5 DEF DrawInv, DoneOK, AloneInv, TimerCovered
<1>8. AtRestInv'
  <2> SUFFICES ASSUME quiet' = "atRest", HasValve', draw_status' # 4
               PROVE  HoseInv' /\ (Timed' => CountInv')
    BY <1>1, <1>2, <1>4, <1>5 DEF DrawInv, AtRestInv, Turn
  <2>1. HoseInv /\ (Timed => CountInv) /\ (Timed => TimerCovered) /\ (pump # 0 => pump = bottle.id)
    BY <1>1, <1>2, <1>4 DEF DrawInv, DoneOK, AtRestInv, AloneInv
  <2>2. HoseInv'
    BY <1>2, <1>4, <2>1 DEF HoseInv, HoseIn, OnItsWay, Pumping
  <2>3. Timed' => CountInv'
    BY <1>1, <1>2, <1>3, <1>4, <1>5, <2>1 DEF CountInv, Slack, TimerCovered
  <2> QED
    BY <2>2, <2>3
<1> QED
  BY <1>6, <1>7, <1>8 DEF DrawInv

(* A key frame leaves the draw alone or disturbs it. *)
LEMMA DrawKey ==
  ASSUME Inv, DrawInv, HistNext, NEW k \in KeyFrames, KeyFrame(k)
  PROVE  DrawInv'
<1> USE DEF clock, manager_vars, gear_vars, remote_vars, server_vars
<1>0. TypeOK /\ HistTypeOK
  BY DEF Inv, DrawInv
<1>1. drawn' = drawn /\ quiet' \in {"disturbed", quiet} /\ (quiet' # "disturbed" => ~key'.enable)
  BY <1>0, HistKept DEF KeyFrame
<1>2. Needed' = Needed /\ (HasValve <=> HasValve') /\ Goal' = Goal /\ (Timed <=> Timed')
  BY SameCommand DEF KeyFrame
<1>3. Age' = Age
  BY SameTimer DEF KeyFrame
<1>4. /\ pc' = pc
      /\ UNCHANGED <<tick, late, pump, draw_start_tick, draw_status, bottle,
                    deep_pwm, current_gear_pwm, target_gear_pwm, gearpc>>
  BY <1>0 DEF KeyFrame
<1>5. /\ Age \in Nat /\ Needed \in Int /\ drawn \in Nat /\ tick \in Nat /\ Turn = Period + 2 * Late
      /\ late \in Nat /\ late <= Late /\ Late \in Nat /\ Period \in Nat \ {0}
      /\ (Timed <=> Needed >= 0 /\ Needed + Turn < TickMod)
  BY <1>0, DrawTypes DEF HistTypeOK
<1>6. HistTypeOK' /\ DoneOK'
  BY <1>1, <1>4 DEF DrawInv, HistTypeOK, Quiet, DoneOK, Turn
<1>7. AloneInv'
  BY <1>1, <1>2, <1>3, <1>4, <1>5 DEF DrawInv, DoneOK, AloneInv, TimerCovered
<1>8. AtRestInv'
  <2> SUFFICES ASSUME quiet' = "atRest", HasValve', draw_status' # 4
               PROVE  HoseInv' /\ (Timed' => CountInv')
    BY <1>1, <1>2, <1>4, <1>5 DEF DrawInv, AtRestInv, Turn
  <2>1. HoseInv /\ (Timed => CountInv) /\ (Timed => TimerCovered) /\ (pump # 0 => pump = bottle.id)
    BY <1>1, <1>2, <1>4 DEF DrawInv, DoneOK, AtRestInv, AloneInv
  <2>2. HoseInv'
    BY <1>2, <1>4, <2>1 DEF HoseInv, HoseIn, OnItsWay, Pumping
  <2>3. Timed' => CountInv'
    BY <1>1, <1>2, <1>3, <1>4, <1>5, <2>1 DEF CountInv, Slack, TimerCovered
  <2> QED
    BY <2>2, <2>3
<1> QED
  BY <1>6, <1>7, <1>8 DEF DrawInv

(* The manager starts the timer, if it is not running. *)
LEMMA DrawTime ==
  ASSUME Inv, DrawInv, HistNext, Time
  PROVE  DrawInv'
<1> USE DEF clock, manager_vars, gear_vars, remote_vars, server_vars
<1>0. TypeOK /\ HistTypeOK
  BY DEF Inv, DrawInv
<1>1. drawn' = drawn /\ quiet' \in {"disturbed", quiet} /\ (quiet' # "disturbed" => ~key'.enable)
  BY <1>0, HistKept DEF Time
<1>2. Needed' = Needed /\ (HasValve <=> HasValve') /\ Goal' = Goal /\ (Timed <=> Timed')
  BY SameCommand DEF Time
<1>3. Age' = IF draw_start_tick = 0 THEN 0 ELSE Age
  <2>1. Age' = Elapsed(Started)
    BY DEF Time, Age, Elapsed
  <2> QED
    BY <1>0, <2>1, AgeAtStart
<1>4. /\ pc = "time" /\ pc' = "compare" /\ late' = late
      /\ draw_start_tick' = IF draw_start_tick = 0 THEN tick ELSE draw_start_tick
      /\ UNCHANGED <<tick, pump, draw_status, bottle, deep_pwm,
                    current_gear_pwm, target_gear_pwm, gearpc, key>>
  BY <1>0 DEF Time, Goto, Started
<1>5. /\ Age \in Nat /\ Needed \in Int /\ drawn \in Nat /\ tick \in Nat /\ Turn = Period + 2 * Late
      /\ late \in Nat /\ late <= Late /\ Late \in Nat /\ Period \in Nat \ {0}
      /\ (Timed <=> Needed >= 0 /\ Needed + Turn < TickMod)
  BY <1>0, DrawTypes DEF HistTypeOK
<1>a. HasValve => bottle.id # 0
  BY DEF HasValve
<1>6. HistTypeOK' /\ DoneOK'
  BY <1>1, <1>4 DEF DrawInv, HistTypeOK, Quiet, DoneOK, Turn
<1>7. AloneInv'
  BY <1>1, <1>2, <1>3, <1>4, <1>5, <1>a DEF DrawInv, DoneOK, AloneInv, TimerCovered
<1>8. AtRestInv'
  <2> SUFFICES ASSUME quiet' = "atRest", HasValve', draw_status' # 4
               PROVE  HoseInv' /\ (Timed' => CountInv')
    BY <1>1, <1>2, <1>4, <1>5 DEF DrawInv, AtRestInv, Turn
  <2>1. HoseInv /\ (Timed => CountInv) /\ (Timed => TimerCovered) /\ (pump # 0 => pump = bottle.id)
    BY <1>1, <1>2, <1>4 DEF DrawInv, DoneOK, AtRestInv, AloneInv
  <2>2. HoseInv'
    BY <1>2, <1>4, <2>1, <1>a DEF HoseInv, HoseIn, OnItsWay, Pumping
  <2>3. Timed' => CountInv'
    BY <1>1, <1>2, <1>3, <1>4, <1>5, <2>1, <1>a DEF CountInv, Slack, TimerCovered
  <2> QED
    BY <2>2, <2>3
<1> QED
  BY <1>6, <1>7, <1>8 DEF DrawInv

(* With nothing to fill, the pump and the timer stop. *)
LEMMA DrawIdle ==
  ASSUME Inv, DrawInv, HistNext, Idle
  PROVE  DrawInv'
<1> USE DEF clock, manager_vars, gear_vars, remote_vars, server_vars
<1>0. TypeOK /\ HistTypeOK
  BY DEF Inv, DrawInv
<1>1. drawn' = drawn /\ quiet' \in {"disturbed", quiet} /\ (quiet' # "disturbed" => ~key'.enable)
  BY <1>0, HistKept DEF Idle
<1>2. Needed' = Needed /\ (HasValve <=> HasValve') /\ Goal' = Goal /\ (Timed <=> Timed')
  BY SameCommand DEF Idle
<1>4. /\ pc = "idle" /\ pc' = "sleep" /\ late' = 0 /\ pump' = 0 /\ draw_start_tick' = 0
      /\ target_gear_pwm' = max_geer_pwm
      /\ UNCHANGED <<tick, draw_status, bottle, deep_pwm, current_gear_pwm, gearpc, key>>
  BY <1>0 DEF Idle, Goto, draw
<1>5. /\ Age \in Nat /\ Needed \in Int /\ drawn \in Nat /\ tick \in Nat /\ Turn = Period + 2 * Late
      /\ late \in Nat /\ late <= Late /\ Late \in Nat /\ Period \in Nat \ {0}
      /\ (Timed <=> Needed >= 0 /\ Needed + Turn < TickMod)
  BY <1>0, DrawTypes DEF HistTypeOK
<1>6. HistTypeOK' /\ DoneOK'
  BY <1>1, <1>4 DEF DrawInv, HistTypeOK, Quiet, DoneOK, Turn
<1>7. AloneInv'
  BY <1>1, <1>2, <1>4, <1>5 DEF DrawInv, DoneOK, AloneInv, TimerCovered
<1>8. AtRestInv'
  <2> SUFFICES ASSUME quiet' = "atRest", HasValve', draw_status' # 4
               PROVE  HoseInv' /\ (Timed' => CountInv')
    BY <1>1, <1>2, <1>4, <1>5 DEF DrawInv, AtRestInv, Turn
  <2>1. HoseInv /\ (Timed => CountInv) /\ (Timed => TimerCovered) /\ (pump # 0 => pump = bottle.id)
    BY <1>1, <1>2, <1>4 DEF DrawInv, DoneOK, AtRestInv, AloneInv
  <2>2. HoseInv'
    BY <1>2, <1>4, <2>1 DEF HoseInv, HoseIn, OnItsWay, Pumping
  <2>3. Timed' => CountInv'
    BY <1>1, <1>2, <1>4, <1>5, <2>1 DEF CountInv, Slack, TimerCovered, HoseInv
  <2> QED
    BY <2>2, <2>3
<1> QED
  BY <1>6, <1>7, <1>8 DEF DrawInv

(* The remote's branch is never taken under a command that is left alone. *)
LEMMA DrawRemote ==
  ASSUME Inv, DrawInv, HistNext, RemoteDraw \/ RemoteCompare
  PROVE  DrawInv'
<1> USE DEF manager_vars, gear_vars, remote_vars, server_vars
<1>0. TypeOK /\ HistTypeOK
  BY DEF Inv, DrawInv
<1>1. drawn' = drawn /\ quiet' \in {"disturbed", quiet}
  BY <1>0, HistKept DEF RemoteDraw, RemoteCompare
<1>2. quiet' = "disturbed"
  BY <1>1 DEF RemoteDraw, RemoteCompare, DrawInv, AloneInv
<1>3. HistTypeOK' /\ DoneOK'
  BY <1>1 DEF RemoteDraw, RemoteCompare, Goto, DrawInv, HistTypeOK, Quiet, DoneOK, Turn
<1> QED
  BY <1>2, <1>3 DEF DrawInv, AloneInv, AtRestInv

(* The manager ends the draw and reports it done. *)
LEMMA DrawFinish ==
  ASSUME Inv, DrawInv, HistNext, Finish
  PROVE  DrawInv'
<1> USE DEF manager_vars, gear_vars, remote_vars, server_vars
<1>0. TypeOK /\ HistTypeOK
  BY DEF Inv, DrawInv
<1>1. drawn' = drawn /\ quiet' \in {"disturbed", quiet} /\ (quiet' # "disturbed" => ~key'.enable)
  BY <1>0, HistKept DEF Finish
<1>2. Needed' = Needed /\ (HasValve <=> HasValve') /\ (Timed <=> Timed')
  BY SameCommand DEF Finish
<1>3. /\ pc = "finish" /\ pc' = "sleep" /\ pump' = 0 /\ draw_start_tick' = 0 /\ draw_status' = 4
      /\ UNCHANGED <<bottle, key>>
  BY DEF Finish, Goto, draw
<1>4. HistTypeOK' /\ DoneOK'
  BY <1>1, <1>3 DEF DrawInv, HistTypeOK, Quiet, DoneOK, Turn
<1>5. AloneInv'
  BY <1>1, <1>2, <1>3 DEF DrawInv, AloneInv, TimerCovered
<1>6. AtRestInv'
  <2> SUFFICES ASSUME quiet = "atRest", HasValve, Timed PROVE drawn < Needed + 2 * Turn
    BY <1>1, <1>2, <1>3 DEF AtRestInv, Turn
  <2>1. CountInv
    BY <1>3 DEF DrawInv, DoneOK, AtRestInv
  <2>2. /\ Age \in Nat /\ Needed \in Int /\ drawn \in Nat /\ tick \in Nat /\ Turn = Period + 2 * Late
        /\ late \in Nat /\ late <= Late /\ Late \in Nat /\ Period \in Nat \ {0} /\ Needed >= 0
    BY <1>0, DrawTypes DEF HistTypeOK
  <2>3. Slack = Late + Period + late
    BY <1>3 DEF Slack
  <2> QED
    BY <2>1, <2>2, <2>3 DEF CountInv
<1> QED
  BY <1>4, <1>5, <1>6 DEF DrawInv

(* A new command is disturbed, or finds pump and timer off; and it is at   *)
(* rest only if the hose is in.                                            *)
LEMMA DrawCommand ==
  ASSUME Inv, DrawInv, HistNext, NEW b \in Bottles, BottleCommand(b)
  PROVE  DrawInv'
<1> USE DEF clock, manager_vars, gear_vars, remote_vars, server_vars
<1>1. NewCommand
  BY DEF BottleCommand, NewCommand, Inv, TypeOK
<1>2. /\ drawn' = 0 /\ quiet' \in Quiet
      /\ quiet' # "disturbed" =>
           /\ ~key'.enable /\ pump = 0 /\ draw_start_tick = 0
           /\ pc \notin {"remote", "limit", "time", "compare", "pump", "mark", "finish"}
      /\ quiet' = "atRest" => HoseIn /\ pc # "lower"
  BY <1>1 DEF HistNext, Quiet
<1>3. /\ draw_status' = 0
      /\ UNCHANGED <<pc, tick, pump, draw_start_tick, current_gear_pwm, target_gear_pwm, gearpc>>
  BY DEF BottleCommand
<1>4. 0 \in 0 .. TickMod + Turn
  BY DrawTypes DEF Inv
<1>5. HistTypeOK' /\ DoneOK'
  BY <1>2, <1>3, <1>4 DEF HistTypeOK, DoneOK, Turn
<1>6. AloneInv'
  BY <1>2, <1>3 DEF AloneInv, TimerCovered
<1>7. AtRestInv'
  BY <1>2, <1>3 DEF AtRestInv, HoseInv, HoseIn, Pumping, CountInv
<1> QED
  BY <1>5, <1>6, <1>7 DEF DrawInv

-----------------------------------------------------------------------------
(* The tick counter advances by less than it counts: so does the age of    *)
(* the timer, unless it has gone all the way round.                        *)
LEMMA Advance ==
  ASSUME TypeOK, NEW p \in 0 .. TickMod - 1, tick' = (tick + p) % TickMod
  PROVE  /\ Ticks = p
         /\ tick' = IF tick + p >= TickMod THEN tick + p - TickMod ELSE tick + p
         /\ UNCHANGED draw_start_tick
              => Age' = IF Age + p >= TickMod THEN Age + p - TickMod ELSE Age + p
<1>1. /\ tick \in 0 .. TickMod - 1 /\ draw_start_tick \in 0 .. TickMod - 1
      /\ TickMod \in Nat /\ TickMod > 0
  BY TimeAssumption DEF TypeOK
<1>2. tick' = IF tick + p >= TickMod THEN tick + p - TickMod ELSE tick + p
  <2>1. CASE tick + p < TickMod
    BY <1>1, <2>1
  <2>2. CASE tick + p >= TickMod
    <3>1. tick + p - TickMod \in 0 .. TickMod - 1
      BY <1>1, <2>2
    <3> QED
      BY <1>1, <2>2, <3>1
  <2> QED
    BY <1>1, <2>1, <2>2
<1>3. tick' \in 0 .. TickMod - 1
  BY <1>1, <1>2
<1>4. Ticks = p
  <2>1. Ticks = IF tick' >= tick THEN tick' - tick ELSE tick' - tick + TickMod
    BY <1>1, <1>3, TickArith DEF Ticks
  <2> QED
    BY <1>1, <1>2, <1>3, <2>1
<1>5. Age = IF tick >= draw_start_tick THEN tick - draw_start_tick
            ELSE tick - draw_start_tick + TickMod
  BY <1>1, TickArith DEF Age, Elapsed
<1>6. ASSUME UNCHANGED draw_start_tick
      PROVE  Age' = IF Age + p >= TickMod THEN Age + p - TickMod ELSE Age + p
  <2>1. Age' = (tick' - draw_start_tick) % TickMod
    BY <1>6 DEF Age, Elapsed
  <2>2. Age' = IF tick' >= draw_start_tick THEN tick' - draw_start_tick
               ELSE tick' - draw_start_tick + TickMod
    BY <1>1, <1>3, <2>1, TickArith
  <2> QED
    BY <1>1, <1>2, <1>5, <2>2
<1> QED
  BY <1>2, <1>4, <1>6

(* What the history makes of a step of the clock. *)
LEMMA HistTicks ==
  ASSUME TypeOK, HistTypeOK, HistNext, UNCHANGED <<commands, bottle, pump>>, tick' \in Int
  PROVE  /\ quiet' \in {"disturbed", quiet} /\ (quiet' # "disturbed" => ~key'.enable)
         /\ drawn' = IF pump # 0 /\ pump = bottle.id THEN AtMost(drawn + Ticks, TickMod + Turn)
                     ELSE drawn
         /\ HistTypeOK'
<1>1. /\ quiet' \in {"disturbed", quiet} /\ (quiet' # "disturbed" => ~key'.enable)
      /\ drawn' = IF pump # 0 /\ pump = bottle.id THEN AtMost(drawn + Ticks, TickMod + Turn)
                  ELSE drawn
  BY DEF HistNext, NewCommand
<1>2. Ticks \in Nat
  <2>1. tick' - tick \in Int /\ TickMod \in Nat \ {0}
    BY TimeAssumption DEF TypeOK
  <2> QED
    BY <2>1, Remainder DEF Ticks
<1>3. drawn' \in 0 .. TickMod + Turn
  BY <1>1, <1>2, DrawTypes DEF HistTypeOK, AtMost
<1> QED
  BY <1>1, <1>3 DEF HistTypeOK, Quiet, Turn

(* A period passes: the pump and the timer run on together. *)
LEMMA DrawWake ==
  ASSUME Inv, DrawInv, HistNext, Wake
  PROVE  DrawInv'
<1> USE DEF manager_vars, gear_vars, remote_vars, server_vars
<1>0. TypeOK /\ HistTypeOK
  BY DEF Inv, DrawInv
<1>1. /\ pc = "sleep" /\ pc' = "branch" /\ late = 0 /\ late' = 0
      /\ UNCHANGED <<pump, draw_start_tick, draw_status, bottle, commands, current_gear_pwm,
                    target_gear_pwm, gearpc>>
  BY DEF Wake, Goto, Inv, LateOK
<1>2. Needed' = Needed /\ (HasValve <=> HasValve') /\ Goal' = Goal /\ (Timed <=> Timed')
  BY <1>1, SameCommand
<1>3. /\ Age \in Nat /\ Needed \in Int /\ drawn \in 0 .. TickMod + Turn /\ tick \in Nat
      /\ Turn = Period + 2 * Late /\ Late \in Nat /\ Period \in Nat \ {0}
      /\ (Timed <=> Needed >= 0 /\ Needed + Turn < TickMod)
      /\ TickMod \in Nat \ {0}
  BY <1>0, DrawTypes DEF HistTypeOK
<1>4. /\ quiet' \in {"disturbed", quiet} /\ (quiet' # "disturbed" => ~key'.enable)
      /\ drawn' = IF pump # 0 /\ pump = bottle.id THEN AtMost(drawn + Ticks, TickMod + Turn)
                  ELSE drawn
      /\ HistTypeOK'
  <2>1. tick' \in Int
    <3>1. tick + Period \in Int
      BY <1>3
    <3> QED
      BY <1>3, <3>1, Remainder DEF Wake
  <2> QED
    BY <1>0, <1>1, <2>1, HistTicks
<1>5. Timed => /\ Ticks = Period
               /\ tick' = IF tick + Period >= TickMod THEN tick + Period - TickMod ELSE tick + Period
               /\ Age' = IF Age + Period >= TickMod THEN Age + Period - TickMod ELSE Age + Period
  <2>1. Timed => Period \in 0 .. TickMod - 1
    BY <1>3
  <2> QED
    BY <1>0, <1>1, <2>1, Advance DEF Wake
<1>6. DoneOK'
  BY <1>1 DEF DoneOK
<1>7. AloneInv'
  <2> SUFFICES ASSUME quiet' # "disturbed" PROVE AloneInv'
    BY DEF AloneInv
  <2>1. HasValve /\ Timed => TimerCovered
    BY <1>4 DEF DrawInv, AloneInv
  <2>2. draw_status = 4 => pump = 0
    BY <1>4 DEF DrawInv, AloneInv
  <2>3. HasValve' /\ Timed' => TimerCovered'
    BY <1>1, <1>2, <1>3, <1>4, <1>5, <2>1, <2>2 DEF TimerCovered, AtMost, HasValve
  <2> QED
    BY <1>1, <1>4, <2>3 DEF DrawInv, AloneInv
<1>8. AtRestInv'
  <2> SUFFICES ASSUME quiet = "atRest", HasValve PROVE AtRestInv'
    BY <1>2, <1>4 DEF AtRestInv
  <2>1. CASE draw_status = 4
    BY <1>1, <1>2, <1>4, <2>1 DEF DrawInv, AloneInv, AtRestInv, Turn
  <2>2. CASE draw_status # 4
    <3>1. HoseInv'
      BY <1>1, <1>2, <2>2 DEF DrawInv, AtRestInv, HoseInv, HoseIn, OnItsWay, Pumping
    <3>2. ASSUME Timed PROVE CountInv'
      <4>1. CountInv /\ (draw_start_tick # 0 => pump # 0)
        BY <1>1, <2>2, <3>2 DEF DrawInv, AtRestInv, AloneInv, TimerCovered, HasValve
      <4>2. Slack = Late /\ Slack' = Late + Period + 0
        BY <1>1 DEF Slack
      <4>3. drawn' <= drawn + Period /\ (pump = 0 => drawn' = drawn) /\ drawn' \in Nat
        BY <1>3, <1>4, <1>5, <3>2 DEF AtMost
      <4> QED
        BY <1>1, <1>2, <1>3, <1>5, <3>2, <4>1, <4>2, <4>3 DEF CountInv, Turn
    <3> QED
      BY <1>1, <1>2, <2>2, <3>1, <3>2 DEF AtRestInv
  <2> QED
    BY <2>1, <2>2
<1> QED
  BY <1>4, <1>6, <1>7, <1>8 DEF DrawInv

(* A tick passes while the manager is awake: it counts as lateness if the  *)
(* pump is still off.                                                      *)
LEMMA DrawPreempted ==
  ASSUME Inv, DrawInv, HistNext, Preempted
  PROVE  DrawInv'
<1> USE DEF manager_vars, gear_vars, remote_vars, server_vars
<1>0. TypeOK /\ HistTypeOK
  BY DEF Inv, DrawInv
<1>1. /\ pc # "sleep" /\ pc' = pc /\ late < Late /\ late' = late + 1
      /\ UNCHANGED <<pump, draw_start_tick, draw_status, bottle, commands, current_gear_pwm,
                    target_gear_pwm, gearpc, deep_pwm, key>>
  BY DEF Preempted
<1>2. Needed' = Needed /\ (HasValve <=> HasValve') /\ Goal' = Goal /\ (Timed <=> Timed')
  BY <1>1, SameCommand
<1>3. /\ Age \in Nat /\ Needed \in Int /\ drawn \in 0 .. TickMod + Turn /\ tick \in Nat
      /\ Turn = Period + 2 * Late /\ Late \in Nat /\ Period \in Nat \ {0} /\ late \in Nat
      /\ (Timed <=> Needed >= 0 /\ Needed + Turn < TickMod)
      /\ TickMod \in Nat \ {0}
  BY <1>0, DrawTypes DEF HistTypeOK
<1>4. /\ quiet' \in {"disturbed", quiet} /\ (quiet' # "disturbed" => ~key'.enable)
      /\ drawn' = IF pump # 0 /\ pump = bottle.id THEN AtMost(drawn + Ticks, TickMod + Turn)
                  ELSE drawn
      /\ HistTypeOK'
  <2>1. tick' \in Int
    <3>1. tick + 1 \in Int
      BY <1>3
    <3> QED
      BY <1>3, <3>1, Remainder DEF Preempted
  <2> QED
    BY <1>0, <1>1, <2>1, HistTicks
<1>5. Timed => /\ Ticks = 1
               /\ tick' = IF tick + 1 >= TickMod THEN tick + 1 - TickMod ELSE tick + 1
               /\ Age' = IF Age + 1 >= TickMod THEN Age + 1 - TickMod ELSE Age + 1
  <2>1. Timed => 1 \in 0 .. TickMod - 1
    BY <1>3
  <2> QED
    BY <1>0, <1>1, <2>1, Advance DEF Preempted
<1>6. DoneOK'
  BY <1>1 DEF DrawInv, DoneOK
<1>7. AloneInv'
  <2> SUFFICES ASSUME quiet' # "disturbed" PROVE AloneInv'
    BY DEF AloneInv
  <2>1. HasValve /\ Timed => TimerCovered
    BY <1>4 DEF DrawInv, AloneInv
  <2>2. (draw_status = 4 => pump = 0) /\ (pump # 0 => pump = bottle.id)
    BY <1>4 DEF DrawInv, AloneInv
  <2>3. HasValve' /\ Timed' => TimerCovered'
    BY <1>1, <1>2, <1>3, <1>4, <1>5, <2>1, <2>2 DEF TimerCovered, AtMost, HasValve
  <2> QED
    BY <1>1, <1>4, <2>3 DEF DrawInv, AloneInv
<1>8. AtRestInv'
  <2> SUFFICES ASSUME quiet = "atRest", HasValve PROVE AtRestInv'
    BY <1>2, <1>4 DEF AtRestInv
  <2>1. CASE draw_status = 4
    BY <1>1, <1>2, <1>4, <2>1 DEF DrawInv, AloneInv, AtRestInv, Turn
  <2>2. CASE draw_status # 4
    <3>1. HoseInv'
      BY <1>1, <1>2, <2>2 DEF DrawInv, AtRestInv, HoseInv, HoseIn, OnItsWay, Pumping
    <3>2. ASSUME Timed PROVE CountInv'
      <4>1. CountInv
        BY <2>2, <3>2 DEF DrawInv, AtRestInv
      <4>2. Slack \in Nat /\ Slack' = Slack + 1 /\ Slack < Turn
        BY <1>1, <1>3 DEF Slack
      <4>3. drawn' <= drawn + 1 /\ (pump = 0 => drawn' = drawn) /\ drawn' \in Nat
        BY <1>3, <1>4, <1>5, <3>2 DEF AtMost
      <4> QED
        BY <1>1, <1>2, <1>3, <1>5, <3>2, <4>1, <4>2, <4>3 DEF CountInv, Turn
    <3> QED
      BY <1>1, <1>2, <2>2, <3>1, <3>2 DEF AtRestInv
  <2> QED
    BY <2>1, <2>2
<1> QED
  BY <1>4, <1>6, <1>7, <1>8 DEF DrawInv

-----------------------------------------------------------------------------
(* Every step of the sampler preserves the invariant of the draw. *)
THEOREM SamplerDrawInv == Inv /\ DrawInv /\ [HistNext]_<<vars, hist>> => DrawInv'
<1> SUFFICES ASSUME Inv, DrawInv, [HistNext]_<<vars, hist>> PROVE DrawInv'
  OBVIOUS
<1>1. CASE HistNext
  <2>1. Next
    BY <1>1 DEF HistNext
  <2>2. CASE Manager
    BY <1>1, <2>2, DrawWake, DrawBranch, DrawRemote, DrawCheck, DrawIdle, DrawDepth, DrawLower,
       DrawTime, DrawCompare, DrawPump, DrawMark, DrawFinish DEF Manager
  <2>3. CASE Preempted
    BY <1>1, <2>3, DrawPreempted
  <2>4. CASE loop_change_gear
    BY <1>1, <2>4, DrawGearTest, DrawGearCompare, DrawGearMove DEF loop_change_gear
  <2>5. ASSUME NEW b \in Bottles, BottleCommand(b) PROVE DrawInv'
    BY <1>1, <2>5, DrawCommand
  <2>6. ASSUME NEW k \in KeyFrames, KeyFrame(k) PROVE DrawInv'
    BY <1>1, <2>6, DrawKey
  <2>7. CASE JoystickFrame
    BY <1>1, <2>7, DrawJoystick
  <2> QED
    BY <2>1, <2>2, <2>3, <2>4, <2>5, <2>6, <2>7 DEF Next
<1>2. CASE UNCHANGED <<vars, hist>>
  <2> USE DEF vars, hist, clock, manager_vars, gear_vars, remote_vars, server_vars
  <2>1. Needed' = Needed /\ (HasValve <=> HasValve') /\ Goal' = Goal /\ (Timed <=> Timed') /\ Age' = Age
    BY <1>2, SameCommand, SameTimer
  <2>2. HistTypeOK' /\ DoneOK'
    BY <1>2 DEF DrawInv, HistTypeOK, DoneOK, Turn
  <2>3. AloneInv'
    BY <1>2, <2>1 DEF DrawInv, AloneInv, TimerCovered
  <2>4. AtRestInv'
    BY <1>2, <2>1
    DEF DrawInv, AtRestInv, HoseInv, HoseIn, OnItsWay, Pumping, CountInv, Slack, Turn
  <2> QED
    BY <2>2, <2>3, <2>4 DEF DrawInv
<1> QED
  BY <1>1, <1>2

(* The invariants of the sampler and of the draw hold together. *)
LEMMA HistInvariant == HistSpec => [](Inv /\ DrawInv)
<1>1. HistInit => Inv /\ DrawInv
  <2> SUFFICES ASSUME HistInit PROVE Inv /\ DrawInv
    OBVIOUS
  <2>1. Inv
    BY SamplerInitInv DEF HistInit
  <2>2. 0 \in 0 .. TickMod + Turn
    BY <2>1, DrawTypes DEF Inv
  <2> QED
    BY <2>1, <2>2 DEF HistInit, Init, DrawInv, HistTypeOK, Quiet, DoneOK, AloneInv, AtRestInv
<1>2. Inv /\ DrawInv /\ [HistNext]_<<vars, hist>> => (Inv /\ DrawInv)'
  <2> SUFFICES ASSUME Inv, DrawInv, [HistNext]_<<vars, hist>> PROVE Inv' /\ DrawInv'
    OBVIOUS
  <2>1. [Next]_vars
    BY DEF HistNext
  <2> QED
    BY <2>1, SamplerNextInv, SamplerDrawInv
<1> QED
  BY <1>1, <1>2, PTL DEF HistSpec

(* A command for one of the eight bottles that was left alone from the     *)
(* hose at rest to the report of its end is given the pumping time of its  *)
(* amount, within the lateness of one turn below and two turns above, for  *)
(* every amount that fits the tick counter, every time base and also when  *)
(* the counter wraps in the middle of the draw.                            *)
THEOREM SamplerDrawTime == HistSpec => []UndisturbedDrawTime
<1>1. Inv /\ DrawInv => UndisturbedDrawTime
  <2> SUFFICES ASSUME Inv, DrawInv, quiet = "atRest", draw_status = 4, HasValve, Timed
               PROVE  drawn \in Needed - Late .. Needed - 1 + 2 * Turn
    BY DEF UndisturbedDrawTime
  <2>1. Needed \in Int /\ drawn \in Int /\ Late \in Nat /\ Turn \in Nat
    BY DrawTypes DEF Inv, DrawInv, HistTypeOK
  <2>2. Needed <= drawn + Late
    BY DEF DrawInv, AloneInv, TimerCovered
  <2>3. drawn < Needed + 2 * Turn
    BY DEF DrawInv, AtRestInv
  <2> QED
    BY <2>1, <2>2, <2>3
<1> QED
  BY <1>1, HistInvariant, PTL

(* Such a command pumps only while the hose is at its depth, for every     *)
(* depth, every travel of the hose and every interleaving with             *)
(* loop_change_gear.                                                       *)
THEOREM SamplerAtDepth == HistSpec => []UndisturbedAtDepth
<1>1. Inv /\ DrawInv => UndisturbedAtDepth
  <2> SUFFICES ASSUME Inv, DrawInv, quiet = "atRest", pump # 0
               PROVE  current_gear_pwm = Goal
    BY DEF UndisturbedAtDepth, Goal
  <2>1. HasValve /\ draw_status # 4
    BY DrawTypes DEF Inv, DrawInv, AloneInv, HasValve
  <2> QED
    BY <2>1 DEF DrawInv, AtRestInv, HoseInv, Pumping
<1> QED
  BY <1>1, HistInvariant, PTL

(* A command that found pump and timer off is never reported done before   *)
(* its time, but for the lateness of one turn, even if the hose was moving *)
(* when it came.                                                           *)
THEOREM SamplerDrawnInFull == HistSpec => []AloneDrawnInFull
<1>1. Inv /\ DrawInv => AloneDrawnInFull
  <2> SUFFICES ASSUME Inv, DrawInv, quiet # "disturbed", draw_status = 4, HasValve, Timed
               PROVE  drawn + Late >= Needed
    BY DEF AloneDrawnInFull
  <2>1. Needed \in Int /\ drawn \in Int /\ Late \in Nat
    BY DrawTypes DEF Inv, DrawInv, HistTypeOK
  <2>2. Needed <= drawn + Late
    BY DEF DrawInv, AloneInv, TimerCovered
  <2> QED
    BY <2>1, <2>2
<1> QED
  BY <1>1, HistInvariant, PTL
=============================================================================
