----------------------------- MODULE Supervisor -----------------------------
(***************************************************************************)
(* The time-outs of the manager thread and the choice of who steers        *)
(* (applications/manager.c 87-126), with the threads that feed it: the     *)
(* remote's receiver (lora.c), the server's receiver (raspberry.c) and the *)
(* radar (compass.c).                                                      *)
(*                                                                         *)
(* Each time-out is  if (rt_tick_get() - stamp > limit)  on an unsigned    *)
(* tick: the tick is read, then the stamp, and another thread may store a  *)
(* newer stamp in between.  The module keeps the age of each stamp instead *)
(* of the stamp, and the lag of the manager's reading of the tick behind   *)
(* the clock: the difference the code computes is age - lag, and a         *)
(* negative one is a huge unsigned number.  Ages stop growing at a bound   *)
(* past every limit, so a wrap of the tick counter does not show.          *)
(*                                                                         *)
(* The server's receiver runs at any moment and to its end; the remote's   *)
(* has the manager's priority and alternates with it at any statement; the *)
(* radar runs only while both wait and may be interrupted anywhere.        *)
(***************************************************************************)
EXTENDS Integers

CONSTANTS ObstacleLimit, RemoteLimit, ServerLimit,  \* 1500, 1500 and 16000 ticks
          Period,    \* rt_thread_mdelay(40) of the manager
          Late,      \* ticks that may pass while one turn of its loop runs
          Ids,       \* numbers the radar gives obstacles
          Modes      \* control modes the server sends

ASSUME SupervisorAssumption ==
  /\ ObstacleLimit \in Nat /\ RemoteLimit \in Nat /\ ServerLimit \in Nat
  /\ Period \in Nat \ {0} /\ Late \in Nat
  /\ Ids \subseteq Nat /\ Modes \subseteq Int

VARIABLES pc, sleep, late, lag,          \* the manager and its reading of the tick
          obstacle_age, remote_age, server_age,
          near,                          \* min_distance is below its default
          target_id,                     \* obstacles marked as present
          key0, is_connect,
          has_target, control_mode,      \* what the server asked for
          backhome,                      \* network_backhome or energy_backhome
          led, current_mode,
          lora_pc, radar_pc              \* receivers in the middle of a frame

ages     == <<obstacle_age, remote_age, server_age>>
clock    == <<sleep, late, lag, ages>>
obstacle == <<near, target_id>>
demands  == <<has_target, control_mode, backhome>>
outputs  == <<led, current_mode>>
vars == <<pc, clock, obstacle, key0, is_connect, demands, outputs, lora_pc, radar_pc>>

(* The longest age that matters under a limit: a reading just within the   *)
(* limit stays in force for the rest of the turn, the sleep and the turn   *)
(* after it.                                                               *)
Grace(limit) == limit + Period + 2 * Late

Init ==
  /\ pc = "obstacle" /\ sleep = 0 /\ late = 0 /\ lag = 0
  /\ obstacle_age = 0 /\ remote_age = 0 /\ server_age = 0
  /\ near = FALSE /\ target_id = {}
  /\ key0 = FALSE /\ is_connect = FALSE
  /\ has_target = FALSE /\ control_mode = 1 /\ backhome = FALSE
  /\ led = "red" /\ current_mode = 2
  /\ lora_pc = "idle" /\ radar_pc = "idle"

-----------------------------------------------------------------------------
Older(age, limit) == IF age > Grace(limit) THEN age ELSE age + 1

(* The manager holds a reading of the tick that it has not used yet. *)
Reading == pc \in {"obstacle_test", "remote_test", "server_test"}

(* One tick of the system clock.  Ready threads of the manager's priority  *)
(* and the radar do not wait for a tick while the manager sleeps.          *)
Tick ==
  /\ IF pc = "sleep" THEN sleep > 0 /\ lora_pc = "idle" /\ radar_pc = "idle" ELSE late < Late
  /\ IF pc = "sleep" THEN sleep' = sleep - 1 /\ UNCHANGED late
                     ELSE late' = late + 1 /\ UNCHANGED sleep
  /\ lag' = IF Reading THEN lag + 1 ELSE lag
  /\ obstacle_age' = Older(obstacle_age, ObstacleLimit)
  /\ remote_age' = Older(remote_age, RemoteLimit)
  /\ server_age' = Older(server_age, ServerLimit)
  /\ UNCHANGED <<pc, obstacle, key0, is_connect, demands, outputs, lora_pc, radar_pc>>

Wake ==
  /\ pc = "sleep" /\ sleep = 0
  /\ pc' = "obstacle"
  /\ UNCHANGED <<clock, obstacle, key0, is_connect, demands, outputs, lora_pc, radar_pc>>

(* rt_tick_get() of one of the three tests. *)
rt_tick_get ==
  /\ pc \in {"obstacle", "remote", "server"}
  /\ pc' = CASE pc = "obstacle" -> "obstacle_test" [] pc = "remote" -> "remote_test"
             [] pc = "server" -> "server_test"
  /\ UNCHANGED <<clock, obstacle, key0, is_connect, demands, outputs, lora_pc, radar_pc>>

(* The rest of the test: the unsigned difference exceeds the limit. *)
Expired(age, limit) == age - lag < 0 \/ age - lag > limit

(* Mutant: the wrong stamp. *)
ObstacleTimeoutByRemote ==
  /\ pc = "obstacle_test"
  /\ near' = (near /\ ~Expired(remote_age, ObstacleLimit))
  /\ pc' = "remote"
  /\ lag' = 0
  /\ UNCHANGED <<sleep, late, ages, target_id, key0, is_connect, demands, outputs, lora_pc, radar_pc>>

ObstacleTimeout ==
  /\ pc = "obstacle_test"
  /\ near' = (near /\ ~Expired(obstacle_age, ObstacleLimit))
  /\ pc' = "remote"
  /\ lag' = 0
  /\ UNCHANGED <<sleep, late, ages, target_id, key0, is_connect, demands, outputs, lora_pc, radar_pc>>

(* Mutant: the wrong stamp. *)
RemoteTimeoutByServer ==
  /\ pc = "remote_test"
  /\ key0' = (key0 /\ ~Expired(server_age, RemoteLimit))
  /\ pc' = "server"
  /\ lag' = 0
  /\ UNCHANGED <<sleep, late, ages, obstacle, is_connect, demands, outputs, lora_pc, radar_pc>>

RemoteTimeout ==
  /\ pc = "remote_test"
  /\ key0' = (key0 /\ ~Expired(remote_age, RemoteLimit))
  /\ pc' = "server"
  /\ lag' = 0
  /\ UNCHANGED <<sleep, late, ages, obstacle, is_connect, demands, outputs, lora_pc, radar_pc>>

ServerTimeout ==
  /\ pc = "server_test"
  /\ is_connect' = (is_connect /\ ~Expired(server_age, ServerLimit))
  /\ pc' = "led"
  /\ lag' = 0
  /\ UNCHANGED <<sleep, late, ages, obstacle, key0, demands, outputs, lora_pc, radar_pc>>

(* Mutant: the default branch that switches back to red is missing. *)
StatusLedSticks ==
  /\ pc = "led"
  /\ led' = IF key0 THEN "remote" ELSE IF ~backhome /\ is_connect THEN "connected" ELSE led
  /\ pc' = "mode"
  /\ UNCHANGED <<clock, obstacle, key0, is_connect, demands, current_mode, lora_pc, radar_pc>>

StatusLed ==
  /\ pc = "led"
  /\ led' = IF key0 THEN "remote" ELSE IF ~backhome /\ is_connect THEN "connected" ELSE "red"
  /\ pc' = "mode"
  /\ UNCHANGED <<clock, obstacle, key0, is_connect, demands, current_mode, lora_pc, radar_pc>>

(* 1: remote control, 2: the server steers by hand, 3: towards the target. *)
ChooseMode ==
  /\ pc = "mode"
  /\ current_mode' = IF key0 THEN 1 ELSE IF has_target /\ control_mode # 4 THEN 3 ELSE 2
  /\ pc' = "sleep" /\ sleep' = Period /\ late' = 0
  /\ UNCHANGED <<lag, ages, obstacle, key0, is_connect, demands, led, lora_pc, radar_pc>>

Manager ==
  Wake \/ rt_tick_get \/ ObstacleTimeout \/ RemoteTimeout \/ ServerTimeout \/ StatusLed \/ ChooseMode

-----------------------------------------------------------------------------
(* A key frame: lora_rec stores the keys first and the time last. *)
KeyFrame(k) ==
  /\ lora_pc = "idle"
  /\ key0' = k
  /\ lora_pc' = "stamp"
  /\ UNCHANGED <<pc, clock, obstacle, is_connect, demands, outputs, radar_pc>>

(* The end of a key frame, or a joystick frame. *)
RemoteStamp ==
  /\ remote_age' = 0
  /\ lora_pc' = "idle"
  /\ UNCHANGED <<pc, sleep, late, lag, obstacle_age, server_age, obstacle, key0, is_connect,
                 demands, outputs, radar_pc>>

(* Any byte from the server renews the stamp, a heartbeat "S8" sets        *)
(* is_connect as well.                                                     *)
ServerByte(heartbeat) ==
  /\ server_age' = 0
  /\ is_connect' = (is_connect \/ heartbeat)
  /\ UNCHANGED <<pc, sleep, late, lag, obstacle_age, remote_age, obstacle, key0, demands,
                 outputs, lora_pc, radar_pc>>

(* "S1": a target, or coordinates of 0 that mean none. *)
TargetCommand(t) ==
  /\ has_target' = t
  /\ server_age' = 0
  /\ UNCHANGED <<pc, sleep, late, lag, obstacle_age, remote_age, obstacle, key0, is_connect,
                 control_mode, backhome, outputs, lora_pc, radar_pc>>

(* "S3": a control mode; mode 3 also drops the target. *)
ControlCommand(m) ==
  /\ control_mode' = m
  /\ has_target' = (has_target /\ m # 3)
  /\ server_age' = 0
  /\ UNCHANGED <<pc, sleep, late, lag, obstacle_age, remote_age, obstacle, key0, is_connect,
                 backhome, outputs, lora_pc, radar_pc>>

(* "S4": flags and speed ratios, of which the lamp shows the flags. *)
FlagsCommand(b) ==
  /\ backhome' = b
  /\ server_age' = 0
  /\ UNCHANGED <<pc, sleep, late, lag, obstacle_age, remote_age, obstacle, key0, is_connect,
                 has_target, control_mode, outputs, lora_pc, radar_pc>>

RadarRuns == pc = "sleep" /\ lora_pc = "idle"

RadarStamp ==
  /\ RadarRuns /\ radar_pc = "idle"
  /\ obstacle_age' = 0
  /\ radar_pc' = "store"
  /\ UNCHANGED <<pc, sleep, late, lag, remote_age, server_age, obstacle, key0, is_connect,
                 demands, outputs, lora_pc>>

(* Mutant: the number is not compared with the length of the list. *)
RadarStoreUnchecked(id, close) ==
  /\ RadarRuns /\ radar_pc = "store"
  /\ near' = (near \/ close)
  /\ target_id' = target_id \cup {id}
  /\ radar_pc' = "idle"
  /\ UNCHANGED <<pc, clock, key0, is_connect, demands, outputs, lora_pc>>

(* A report of a distance below the default or not; only ten obstacles     *)
(* have a place in the list.                                               *)
RadarStore(id, close) ==
  /\ RadarRuns /\ radar_pc = "store"
  /\ near' = (near \/ close)
  /\ target_id' = IF id < 10 THEN target_id \cup {id} ELSE target_id
  /\ radar_pc' = "idle"
  /\ UNCHANGED <<pc, clock, key0, is_connect, demands, outputs, lora_pc>>

Receivers ==
  \/ \E k \in BOOLEAN : KeyFrame(k)
  \/ RemoteStamp
  \/ \E h \in BOOLEAN : ServerByte(h)
  \/ \E t \in BOOLEAN : TargetCommand(t)
  \/ \E m \in Modes : ControlCommand(m)
  \/ \E b \in BOOLEAN : FlagsCommand(b)
  \/ RadarStamp
  \/ \E id \in Ids, close \in BOOLEAN : RadarStore(id, close)

Next == Tick \/ Manager \/ Receivers

Spec == Init /\ [][Next]_vars

-----------------------------------------------------------------------------
(* Types of the state of the supervising loop. *)
TypeOK ==
  /\ pc \in {"obstacle", "obstacle_test", "remote", "remote_test", "server", "server_test",
             "led", "mode", "sleep"}
  /\ sleep \in 0 .. Period /\ late \in 0 .. Late /\ lag \in Nat
  /\ obstacle_age \in Nat /\ remote_age \in Nat /\ server_age \in Nat
  /\ near \in BOOLEAN /\ target_id \subseteq 0 .. 9
  /\ key0 \in BOOLEAN /\ is_connect \in BOOLEAN
  /\ has_target \in BOOLEAN /\ control_mode \in Modes \cup {1} /\ backhome \in BOOLEAN
  /\ led \in {"red", "remote", "connected"} /\ current_mode \in 1 .. 3
  /\ lora_pc \in {"idle", "stamp"} /\ radar_pc \in {"idle", "store"}

(* Dead man's switch: the remote steers only while its frames keep coming. *)
(* Its stamp is never older than the limit plus the delay until the loop   *)
(* has looked again, except in the middle of the frame that renews it.     *)
DeadMan ==
  current_mode = 1 /\ lora_pc = "idle" => remote_age <= Grace(RemoteLimit)

(* The nearest distance does not outlive the radar's reports. *)
ObstacleForgotten ==
  near => obstacle_age <= Grace(ObstacleLimit)

(* "when none is seen until the time-out, clear all obstacles"             *)
(* (manager.c:62): the list does not outlive the radar's reports either.   *)
ObstaclesCleared ==
  target_id # {} => obstacle_age <= Grace(ObstacleLimit)

(* The lamp does not show a server that has been silent too long.  A       *)
(* heartbeat's flag and stamp are set together.                            *)
ConnectionShownFresh ==
  led = "connected" => server_age <= Grace(ServerLimit)

(* "release the enable when the remote times out": the loop releases it    *)
(* for no other reason.                                                    *)
ReleasedOnlyOnTimeout ==
  [][RemoteTimeout /\ key0 /\ ~key0' => remote_age > RemoteLimit]_vars
=============================================================================
