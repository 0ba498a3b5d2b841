-------------------------- MODULE SupervisorProof --------------------------
(***************************************************************************)
(* Proofs about module Supervisor, for all limits, periods and delays of   *)
(* the manager's loop.                                                     *)
(*                                                                         *)
(* Each of the three time-outs has the same argument.  A test that lets a  *)
(* flag stand proves that its stamp is no older than the limit and what    *)
(* the turn has taken so far; what was decided with the flag stays in      *)
(* force for the sleep and the next turn.  The invariant says how old the  *)
(* stamp may be at each place of the loop.  The manager's reading of the   *)
(* tick is at most as far behind as the turn is late.                      *)
(***************************************************************************)
EXTENDS Supervisor, TLAPS

(* How far the reading of the tick is behind the clock. *)
LagOK == IF Reading THEN lag <= late ELSE lag = 0

(* The time since the loop went to sleep. *)
SinceTurn == IF pc = "sleep" THEN Period - sleep ELSE Period + late

(* The remote's stamp, after its test and after the choice of the mode. *)
RemoteOK ==
  lora_pc = "idle" =>
    /\ key0 /\ pc \in {"server", "server_test", "led", "mode"} => remote_age <= RemoteLimit + late
    /\ current_mode = 1 => remote_age <= RemoteLimit + Late + SinceTurn

(* The radar's stamp: between it and the distance, and after its test. *)
RadarOK ==
  /\ radar_pc = "store" =>
       obstacle_age <= IF pc # "sleep" THEN late ELSE IF sleep = Period THEN Late ELSE 0
  /\ near /\ pc \notin {"sleep", "obstacle", "obstacle_test"} =>
       obstacle_age <= ObstacleLimit + late
  /\ near => obstacle_age <= ObstacleLimit + Late + SinceTurn

(* The server's stamp, after its test and after the lamp was set. *)
ServerOK ==
  /\ is_connect /\ pc = "led" => server_age <= ServerLimit + late
  /\ led = "connected" =>
       server_age <= IF pc = "mode" THEN ServerLimit + late ELSE ServerLimit + Late + SinceTurn

SupInv == TypeOK /\ LagOK /\ RemoteOK /\ RadarOK /\ ServerOK

(* It holds at the start, *)
LEMMA SupInit == Init => SupInv
<1> SUFFICES ASSUME Init PROVE SupInv
  OBVIOUS
<1>1. /\ pc = "obstacle" /\ sleep = 0 /\ late = 0 /\ lag = 0
      /\ obstacle_age = 0 /\ remote_age = 0 /\ server_age = 0
      /\ target_id = {} /\ control_mode = 1 /\ led = "red" /\ current_mode = 2
      /\ lora_pc = "idle" /\ radar_pc = "idle"
  BY DEF Init
<1>2. /\ near \in BOOLEAN /\ key0 \in BOOLEAN /\ is_connect \in BOOLEAN
      /\ has_target \in BOOLEAN /\ backhome \in BOOLEAN
  BY DEF Init
<1>3. Period \in Nat /\ Late \in Nat /\ RemoteLimit \in Nat /\ ObstacleLimit \in Nat
      /\ ServerLimit \in Nat
  BY SupervisorAssumption
<1>4. TypeOK
  BY <1>1, <1>2, <1>3 DEF TypeOK
<1>5. LagOK /\ RemoteOK /\ RadarOK /\ ServerOK
  BY <1>1, <1>3 DEF LagOK, Reading, RemoteOK, RadarOK, ServerOK, SinceTurn
<1> QED
  BY <1>4, <1>5 DEF SupInv

(* a stamp grows older by one tick at most, *)
LEMMA OneOlder ==
  ASSUME NEW age \in Nat, NEW limit \in Nat
  PROVE  Older(age, limit) \in Nat /\ Older(age, limit) <= age + 1
BY SupervisorAssumption DEF Older, Grace

(* the types are kept, *)
LEMMA TypesKept == TypeOK /\ [Next]_vars => TypeOK'
<1> SUFFICES ASSUME TypeOK, [Next]_vars PROVE TypeOK'
  OBVIOUS
<1> USE SupervisorAssumption
<1>1. CASE Tick
  <2>1. obstacle_age' \in Nat /\ remote_age' \in Nat /\ server_age' \in Nat
    BY <1>1, OneOlder DEF Tick, TypeOK
  <2>2. sleep' \in 0 .. Period /\ late' \in 0 .. Late /\ lag' \in Nat
    BY <1>1 DEF Tick, TypeOK
  <2> QED
    BY <1>1, <2>1, <2>2 DEF Tick, TypeOK, obstacle, demands, outputs
<1>2. CASE Manager
  <2>1. CASE Wake \/ rt_tick_get
    BY <2>1 DEF Wake, rt_tick_get, TypeOK, clock, ages, obstacle, demands, outputs
  <2>2. CASE ObstacleTimeout
    <3>1. near' \in BOOLEAN
      BY <2>2, Zenon DEF ObstacleTimeout, TypeOK
    <3> QED
      BY <2>2, <3>1 DEF ObstacleTimeout, TypeOK, ages, demands, outputs
  <2>3. CASE RemoteTimeout
    <3>1. key0' \in BOOLEAN
      BY <2>3, Zenon DEF RemoteTimeout, TypeOK
    <3> QED
      BY <2>3, <3>1 DEF RemoteTimeout, TypeOK, ages, obstacle, demands, outputs
  <2>4. CASE ServerTimeout
    <3>1. is_connect' \in BOOLEAN
      BY <2>4, Zenon DEF ServerTimeout, TypeOK
    <3> QED
      BY <2>4, <3>1 DEF ServerTimeout, TypeOK, ages, obstacle, demands, outputs
  <2>5. CASE StatusLed
    BY <2>5 DEF StatusLed, TypeOK, clock, ages, obstacle, demands
  <2>6. CASE ChooseMode
    BY <2>6 DEF ChooseMode, TypeOK, ages, obstacle, demands
  <2> QED
    BY <1>2, <2>1, <2>2, <2>3, <2>4, <2>5, <2>6 DEF Manager
<1>3. CASE Receivers
  <2>1. ASSUME NEW id \in Ids, NEW close \in BOOLEAN, RadarStore(id, close)
        PROVE  TypeOK'
    <3>1. target_id' \subseteq 0 .. 9
      BY <2>1 DEF RadarStore, TypeOK
    <3>2. near' \in BOOLEAN
      BY <2>1, Zenon DEF RadarStore, TypeOK
    <3> QED
      BY <2>1, <3>1, <3>2 DEF RadarStore, TypeOK, clock, ages, demands, outputs
  <2>2. ASSUME NEW h \in BOOLEAN, ServerByte(h)
        PROVE  TypeOK'
    <3>1. is_connect' \in BOOLEAN
      BY <2>2, Zenon DEF ServerByte, TypeOK
    <3> QED
      BY <2>2, <3>1 DEF ServerByte, TypeOK, obstacle, demands, outputs
  <2>3. ASSUME NEW m \in Modes, ControlCommand(m)
        PROVE  TypeOK'
    <3>1. has_target' \in BOOLEAN
      BY <2>3, Zenon DEF ControlCommand, TypeOK
    <3> QED
      BY <2>3, <3>1 DEF ControlCommand, TypeOK, obstacle, outputs
  <2>4. ASSUME NEW k \in BOOLEAN, KeyFrame(k)
        PROVE  TypeOK'
    BY <2>4 DEF KeyFrame, TypeOK, clock, ages, obstacle, demands, outputs
  <2>5. CASE RemoteStamp
    BY <2>5 DEF RemoteStamp, TypeOK, obstacle, demands, outputs
  <2>6. CASE RadarStamp
    BY <2>6 DEF RadarStamp, TypeOK, obstacle, demands, outputs
  <2>7. ASSUME NEW t \in BOOLEAN, TargetCommand(t)
        PROVE  TypeOK'
    BY <2>7 DEF TargetCommand, TypeOK, obstacle, outputs
  <2>8. ASSUME NEW b \in BOOLEAN, FlagsCommand(b)
        PROVE  TypeOK'
    BY <2>8 DEF FlagsCommand, TypeOK, obstacle, outputs
  <2> QED
    BY <1>3, <2>1, <2>2, <2>3, <2>4, <2>5, <2>6, <2>7, <2>8 DEF Receivers
<1>4. CASE UNCHANGED vars
  BY <1>4 DEF vars, clock, ages, obstacle, demands, outputs, TypeOK
<1> QED
  BY <1>1, <1>2, <1>3, <1>4 DEF Next

(* the reading of the tick falls behind by what the turn takes, *)
LEMMA LagKept == TypeOK /\ LagOK /\ [Next]_vars => LagOK'
<1> SUFFICES ASSUME TypeOK, LagOK, [Next]_vars PROVE LagOK'
  OBVIOUS
<1> USE SupervisorAssumption
<1>1. CASE Tick
  BY <1>1 DEF Tick, TypeOK, LagOK, Reading
<1>2. CASE Manager
  BY <1>2 DEF Manager, Wake, rt_tick_get, ObstacleTimeout, RemoteTimeout, ServerTimeout, StatusLed,
              ChooseMode, TypeOK, LagOK, Reading, clock
<1>3. CASE Receivers \/ UNCHANGED vars
  <2>1. UNCHANGED <<pc, late, lag>>
    BY <1>3 DEF Receivers, KeyFrame, RemoteStamp, ServerByte, TargetCommand, ControlCommand,
                FlagsCommand, RadarStamp, RadarStore, vars, clock
  <2> QED
    BY <2>1 DEF LagOK, Reading
<1> QED
  BY <1>1, <1>2, <1>3 DEF Next

(* The limits and delays are natural numbers. *)
LEMMA Bounds ==
  /\ Period \in Nat \ {0} /\ Late \in Nat
  /\ ObstacleLimit \in Nat /\ RemoteLimit \in Nat /\ ServerLimit \in Nat
BY SupervisorAssumption

(* A tick makes every bound of the invariant one longer, *)
LEMMA TickKeeps ==
  ASSUME SupInv, Tick
  PROVE  RemoteOK' /\ RadarOK' /\ ServerOK'
<1>1. /\ UNCHANGED <<pc, near, key0, is_connect, led, current_mode, lora_pc, radar_pc>>
      /\ IF pc = "sleep"
         THEN sleep' = sleep - 1 /\ late' = late /\ lora_pc = "idle" /\ radar_pc = "idle"
         ELSE late' = late + 1 /\ sleep' = sleep
  BY DEF Tick, obstacle, outputs
<1>2. /\ remote_age' <= remote_age + 1 /\ obstacle_age' <= obstacle_age + 1
      /\ server_age' <= server_age + 1
      /\ remote_age' \in Nat /\ obstacle_age' \in Nat /\ server_age' \in Nat
  BY OneOlder, Bounds DEF Tick, SupInv, TypeOK
<1>3. /\ remote_age \in Nat /\ obstacle_age \in Nat /\ server_age \in Nat
      /\ sleep \in Int /\ late \in Nat
  BY Bounds DEF SupInv, TypeOK
<1>4. RemoteOK'
  BY <1>1, <1>2, <1>3, Bounds DEF SupInv, RemoteOK, SinceTurn
<1>5. RadarOK'
  BY <1>1, <1>2, <1>3, Bounds DEF SupInv, RadarOK, SinceTurn
<1>6. ServerOK'
  BY <1>1, <1>2, <1>3, Bounds DEF SupInv, ServerOK, SinceTurn
<1> QED
  BY <1>4, <1>5, <1>6

(* the manager moves from one bound to the next, *)
LEMMA ManagerKeeps ==
  ASSUME SupInv, Manager
  PROVE  RemoteOK' /\ RadarOK' /\ ServerOK'
<1>0. /\ UNCHANGED <<remote_age, obstacle_age, server_age, lora_pc, radar_pc>>
      /\ remote_age \in Nat /\ obstacle_age \in Nat /\ server_age \in Nat
      /\ sleep \in 0 .. Period /\ late \in 0 .. Late /\ lag \in Nat
  BY DEF Manager, Wake, rt_tick_get, ObstacleTimeout, RemoteTimeout, ServerTimeout, StatusLed,
         ChooseMode, clock, ages, SupInv, TypeOK
<1> USE <1>0, Bounds
<1>1. CASE Wake
  <2>1. /\ pc = "sleep" /\ sleep = 0 /\ pc' = "obstacle"
        /\ UNCHANGED <<sleep, late, near, key0, is_connect, led, current_mode>>
    BY <1>1 DEF Wake, clock, obstacle, outputs
  <2>2. SinceTurn = Period /\ SinceTurn' = Period + late
    BY <2>1 DEF SinceTurn
  <2> QED
    BY <2>1, <2>2 DEF SupInv, RemoteOK, RadarOK, ServerOK
<1>2. CASE rt_tick_get
  <2>1. /\ \/ pc = "obstacle" /\ pc' = "obstacle_test"
           \/ pc = "remote" /\ pc' = "remote_test"
           \/ pc = "server" /\ pc' = "server_test"
        /\ UNCHANGED <<sleep, late, near, key0, is_connect, led, current_mode>>
    BY <1>2 DEF rt_tick_get, clock, obstacle, outputs
  <2> QED
    BY <2>1 DEF SupInv, RemoteOK, RadarOK, ServerOK, SinceTurn
<1>3. CASE ObstacleTimeout
  <2>1. /\ pc = "obstacle_test" /\ pc' = "remote"
        /\ UNCHANGED <<sleep, late, key0, is_connect, led, current_mode>>
        /\ near' => near /\ ~Expired(obstacle_age, ObstacleLimit)
    BY <1>3 DEF ObstacleTimeout, outputs
  <2>2. near' => obstacle_age <= ObstacleLimit + late
    BY <2>1 DEF SupInv, LagOK, Reading, Expired
  <2> QED
    BY <2>1, <2>2 DEF SupInv, RemoteOK, RadarOK, ServerOK, SinceTurn
<1>4. CASE RemoteTimeout
  <2>1. /\ pc = "remote_test" /\ pc' = "server"
        /\ UNCHANGED <<sleep, late, near, is_connect, led, current_mode>>
        /\ key0' => key0 /\ ~Expired(remote_age, RemoteLimit)
    BY <1>4 DEF RemoteTimeout, obstacle, outputs
  <2>2. key0' => remote_age <= RemoteLimit + late
    BY <2>1 DEF SupInv, LagOK, Reading, Expired
  <2> QED
    BY <2>1, <2>2 DEF SupInv, RemoteOK, RadarOK, ServerOK, SinceTurn
<1>5. CASE ServerTimeout
  <2>1. /\ pc = "server_test" /\ pc' = "led"
        /\ UNCHANGED <<sleep, late, near, key0, led, current_mode>>
        /\ is_connect' => is_connect /\ ~Expired(server_age, ServerLimit)
    BY <1>5 DEF ServerTimeout, obstacle, outputs
  <2>2. is_connect' => server_age <= ServerLimit + late
    BY <2>1 DEF SupInv, LagOK, Reading, Expired
  <2> QED
    BY <2>1, <2>2 DEF SupInv, RemoteOK, RadarOK, ServerOK, SinceTurn
<1>6. CASE StatusLed
  <2>1. /\ pc = "led" /\ pc' = "mode"
        /\ UNCHANGED <<sleep, late, near, key0, is_connect, current_mode>>
        /\ led' = "connected" => is_connect
    BY <1>6 DEF StatusLed, clock, obstacle
  <2> QED
    BY <2>1 DEF SupInv, RemoteOK, RadarOK, ServerOK, SinceTurn
<1>7. CASE ChooseMode
  <2>1. /\ pc = "mode" /\ pc' = "sleep" /\ sleep' = Period /\ late' = 0
        /\ UNCHANGED <<near, key0, is_connect, led>>
        /\ current_mode' = 1 => key0
    BY <1>7 DEF ChooseMode, obstacle
  <2>2. SinceTurn' = 0
    BY <2>1 DEF SinceTurn
  <2> QED
    BY <2>1, <2>2 DEF SupInv, RemoteOK, RadarOK, ServerOK
<1> QED
  BY <1>1, <1>2, <1>3, <1>4, <1>5, <1>6, <1>7 DEF Manager

(* and the receivers only make a stamp new, or raise a flag whose stamp is *)
(* new or about to be.                                                     *)
LEMMA ReceiversKeep ==
  ASSUME SupInv, Receivers
  PROVE  RemoteOK' /\ RadarOK' /\ ServerOK'
<1>0. /\ UNCHANGED <<pc, sleep, late, led, current_mode>>
      /\ remote_age \in Nat /\ obstacle_age \in Nat /\ server_age \in Nat
      /\ sleep \in 0 .. Period /\ late \in 0 .. Late
  BY DEF Receivers, KeyFrame, RemoteStamp, ServerByte, TargetCommand, ControlCommand, FlagsCommand,
         RadarStamp, RadarStore, clock, outputs, SupInv, TypeOK
<1> USE <1>0, Bounds
<1>1. SinceTurn' = SinceTurn /\ SinceTurn \in Nat
  BY DEF SinceTurn
<1>2. ASSUME NEW k, KeyFrame(k)
      PROVE  RemoteOK' /\ RadarOK' /\ ServerOK'
  <2>1. lora_pc' = "stamp" /\ UNCHANGED <<near, obstacle_age, radar_pc, is_connect, server_age>>
    BY <1>2 DEF KeyFrame, clock, ages, obstacle
  <2> QED
    BY <1>1, <2>1 DEF SupInv, RemoteOK, RadarOK, ServerOK
<1>3. CASE RemoteStamp
  <2>1. remote_age' = 0 /\ UNCHANGED <<near, obstacle_age, radar_pc, is_connect, server_age>>
    BY <1>3 DEF RemoteStamp, obstacle
  <2> QED
    BY <1>1, <2>1 DEF SupInv, RemoteOK, RadarOK, ServerOK
<1>4. CASE \/ \E h \in BOOLEAN : ServerByte(h)
           \/ \E t \in BOOLEAN : TargetCommand(t)
           \/ \E m \in Modes : ControlCommand(m)
           \/ \E b \in BOOLEAN : FlagsCommand(b)
  <2>1. server_age' = 0 /\ UNCHANGED <<near, obstacle_age, radar_pc, key0, remote_age, lora_pc>>
    BY <1>4 DEF ServerByte, TargetCommand, ControlCommand, FlagsCommand, obstacle
  <2> QED
    BY <1>1, <2>1 DEF SupInv, RemoteOK, RadarOK, ServerOK
<1>5. CASE RadarStamp
  <2>1. obstacle_age' = 0 /\ UNCHANGED <<key0, remote_age, lora_pc, is_connect, server_age>>
    BY <1>5 DEF RadarStamp
  <2> QED
    BY <1>1, <2>1 DEF SupInv, RemoteOK, RadarOK, ServerOK
<1>6. ASSUME NEW id, NEW close, RadarStore(id, close)
      PROVE  RemoteOK' /\ RadarOK' /\ ServerOK'
  <2>1. /\ pc = "sleep" /\ radar_pc = "store" /\ radar_pc' = "idle"
        /\ UNCHANGED <<obstacle_age, key0, remote_age, lora_pc, is_connect, server_age>>
    BY <1>6 DEF RadarStore, RadarRuns, clock, ages
  <2>2. obstacle_age <= ObstacleLimit + Late + SinceTurn
    BY <1>1, <2>1 DEF SupInv, RadarOK
  <2> QED
    BY <1>1, <2>1, <2>2 DEF SupInv, RemoteOK, RadarOK, ServerOK
<1> QED
  BY <1>2, <1>3, <1>4, <1>5, <1>6 DEF Receivers

(* Every step keeps the invariant. *)
LEMMA SupNext == SupInv /\ [Next]_vars => SupInv'
<1> SUFFICES ASSUME SupInv, [Next]_vars PROVE SupInv'
  OBVIOUS
<1>1. TypeOK' /\ LagOK'
  BY TypesKept, LagKept DEF SupInv
<1>2. CASE Next
  BY <1>1, <1>2, TickKeeps, ManagerKeeps, ReceiversKeep DEF Next, SupInv
<1>3. CASE UNCHANGED vars
  BY <1>1, <1>3 DEF vars, clock, ages, obstacle, demands, outputs, SupInv, RemoteOK, RadarOK,
                    ServerOK, SinceTurn
<1> QED
  BY <1>2, <1>3

(* It implies the properties. *)
LEMMA SupImplies == SupInv => TypeOK /\ DeadMan /\ ObstacleForgotten /\ ConnectionShownFresh
<1> SUFFICES ASSUME SupInv PROVE TypeOK /\ DeadMan /\ ObstacleForgotten /\ ConnectionShownFresh
  OBVIOUS
<1>1. /\ remote_age \in Nat /\ obstacle_age \in Nat /\ server_age \in Nat
      /\ sleep \in 0 .. Period /\ late \in 0 .. Late
  BY DEF SupInv, TypeOK
<1>2. SinceTurn \in Nat /\ SinceTurn <= Period + Late
  BY <1>1, Bounds DEF SinceTurn
<1> QED
  BY <1>1, <1>2, Bounds
  DEF SupInv, RemoteOK, RadarOK, ServerOK, DeadMan, ObstacleForgotten, ConnectionShownFresh, Grace

-----------------------------------------------------------------------------
(* The supervising loop's state keeps its types. *)
THEOREM SupervisorTypeCorrect == Spec => []TypeOK
BY SupInit, SupNext, SupImplies, PTL DEF Spec

(* The remote steers only while its frames keep coming: however late the   *)
(* loop and however the frames interleave with it, the stamp is at most    *)
(* the limit, one period and two turns old.                                *)
THEOREM SupervisorDeadMan == Spec => []DeadMan
BY SupInit, SupNext, SupImplies, PTL DEF Spec

(* The nearest distance is forgotten in time, although the radar's stamp   *)
(* and distance are stored in two steps.                                   *)
THEOREM SupervisorObstacleForgotten == Spec => []ObstacleForgotten
BY SupInit, SupNext, SupImplies, PTL DEF Spec

(* The lamp stops showing a server that has fallen silent. *)
THEOREM SupervisorConnectionShownFresh == Spec => []ConnectionShownFresh
BY SupInit, SupNext, SupImplies, PTL DEF Spec
=============================================================================
