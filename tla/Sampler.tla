------------------------------ MODULE Sampler ------------------------------
(***************************************************************************)
(* Water sampling: the pump and valve block of the manager thread          *)
(* (applications/manager.c 176-257), the gear thread that lowers the       *)
(* suction hose (gear_pwm.c), the pump relay and valves (gpio.c draw), the *)
(* "S2" command of the server (raspberry.c) and the keys of the remote     *)
(* control (lora.c).                                                       *)
(*                                                                         *)
(* Scheduling.  The server's receiver has a higher priority than the       *)
(* manager and may run between any two of its statements; the remote's     *)
(* receiver has the same priority and may run there when a time slice      *)
(* ends.  The gear thread has a lower priority: it runs only while the     *)
(* manager sleeps, and is stopped in mid-step when the manager wakes.  So  *)
(* the manager's block is cut where it reads the tick or what a command    *)
(* writes, the gear's loop where it reads the target, and a command is one *)
(* step.                                                                   *)
(*                                                                         *)
(* The tick wraps at TickMod, as rt_tick_t does at 2^32.  It advances by   *)
(* Period while the manager sleeps, and by up to Late while it is awake    *)
(* and others run before it (Preempted).  Widths are unsigned and wrap at  *)
(* GearMod.                                                                *)
(***************************************************************************)
EXTENDS Integers

CONSTANTS min_geer_pwm,   \* 800:  hose at the deepest
          Surface,        \* 1400: hose at depth 0
          StartGear,      \* 1500: width at reset
          max_geer_pwm,   \* 2400: hose hauled in
          GearMod,        \* 2^32: unsigned widths wrap here
          Second,         \* 1000: ticks in a second
          TickMod,        \* 2^32: the tick counter wraps here
          Period,         \* 40: ticks the manager sleeps in a turn of its loop
          Late,           \* ticks that may pass while it is awake in one turn
          max_draw_amount,\* 1000: what one press of the remote may draw
          RemoteTimeout,  \* turns without a frame after which the remote is released
          GearTurns,      \* turns of the gear thread in one period
          Bottles,        \* what S2 commands ask for: bottle, depth, amount
          KeyFrames,      \* settings of the keys the remote may send
          MaxInputs       \* bound on the commands and frames of a behaviour

draw_speed == 2000                \* ml per minute

ASSUME GearAssumption ==
  /\ min_geer_pwm \in Nat /\ Surface \in Nat /\ StartGear \in Nat /\ max_geer_pwm \in Nat
  /\ min_geer_pwm <= Surface /\ Surface <= StartGear /\ StartGear <= max_geer_pwm
  /\ GearMod \in Nat /\ max_geer_pwm + 1 < GearMod /\ 5 * (Surface - min_geer_pwm) < GearMod

Keys == [enable : BOOLEAN, gear : BOOLEAN, draw : BOOLEAN]

(* Whatever atoi makes of the fields of "S2": nothing checks them. *)
Bottle == [id : Int, deep : Int, amount : Int]

ASSUME CommandAssumption ==
  /\ Bottles \subseteq Bottle
  /\ KeyFrames \subseteq Keys

(* At most a second passes while the manager is awake. *)
ASSUME TimeAssumption ==
  /\ Second \in Nat \ {0} /\ TickMod \in Nat \ {0} /\ max_draw_amount \in Nat
  /\ Period \in Nat \ {0} /\ Late \in Nat /\ Late <= Second
  /\ RemoteTimeout \in Nat /\ GearTurns \in Nat \ {0}
  /\ MaxInputs \in Nat

VARIABLES pc,               \* where the manager thread is
          tick,             \* rt_tick_get()
          late,             \* ticks since the manager woke
          draw_start_tick,  \* 0 when no draw is timed
          is_draw,          \* the remote's draw has run into its limit
          pump,             \* the bottle whose valve is open with the pump on, or 0
          bottle,           \* bottle_id, bottle_deep, bottle_amount
          draw_status,      \* 0 new, 1 lowering, 2 drawing, 4 done
          deep_pwm,
          full_draw_time, dump_draw_time,   \* seconds, reported to the server
          current_gear_pwm, target_gear_pwm,
          gearpc,           \* where the gear thread is
          turns,            \* turns of the gear thread since the manager slept
          key,              \* key[0] enable, key[1] gear, key[2] draw
          silence,          \* turns since the last frame while enabled
          commands, frames  \* inputs so far

clock        == <<tick, late>>
manager_vars == <<draw_start_tick, is_draw, pump, full_draw_time, dump_draw_time, deep_pwm>>
gear_vars    == <<current_gear_pwm, gearpc, turns>>
remote_vars  == <<key, silence, frames>>
server_vars  == <<bottle, commands>>
vars == <<pc, clock, manager_vars, target_gear_pwm, draw_status, gear_vars, remote_vars, server_vars>>

NoKeys == [enable |-> FALSE, gear |-> FALSE, draw |-> FALSE]

Init ==
  /\ pc = "branch" /\ tick = 0 /\ late = 0
  /\ draw_start_tick = 0 /\ is_draw = FALSE /\ pump = 0
  /\ bottle = [id |-> 0, deep |-> 0, amount |-> 0] /\ draw_status = 0
  /\ deep_pwm = min_geer_pwm /\ full_draw_time = 0 /\ dump_draw_time = 0
  /\ current_gear_pwm = StartGear /\ target_gear_pwm = StartGear
  /\ gearpc = "test" /\ turns = 0
  /\ key = NoKeys /\ silence = 0
  /\ commands = 0 /\ frames = 0

-----------------------------------------------------------------------------
(* Mutant: a signed difference, negative once the counter has wrapped. *)
ElapsedSigned(since) == tick - since

(* Unsigned difference of two readings of the tick counter. *)
Elapsed(since) == (tick - since) % TickMod

(* Reading 0 of the counter is indistinguishable from "not started". *)
Started == IF draw_start_tick = 0 THEN tick ELSE draw_start_tick

(* Mutant of Within: the last tick counts as well. *)
WithinInclusive(limit) == Elapsed(draw_start_tick) <= limit % TickMod

(* The comparison is unsigned: a negative limit is a huge one. *)
Within(limit) == Elapsed(draw_start_tick) < limit % TickMod

(* Mutant: the branch that switches everything off is missing. *)
drawNeverOff(id) == IF id \in 1 .. 8 THEN id ELSE pump

(* Mutant: any bottle number is taken for a valve. *)
drawUnchecked(id) == id

draw(id) == IF id \in 1 .. 8 THEN id ELSE 0

(* min_geer_pwm is unsigned, and with it all of the expression. *)
DepthPwm(deep) == (Surface - ((deep * (Surface - min_geer_pwm)) % GearMod) \div 5) % GearMod

(* Mutant: the hose counts as lowered once its target is set. *)
AtDepthByTarget == target_gear_pwm = DepthPwm(bottle.deep)

AtDepth == current_gear_pwm = DepthPwm(bottle.deep)

(* Seconds of pumping that fill amount * 10 ml, cut towards 0. *)
FullDrawTime(amount) ==
  IF amount < 0 THEN -((60 * 10 * (-amount)) \div draw_speed) ELSE (60 * 10 * amount) \div draw_speed

RemoteLimit == (Second * 60 * max_draw_amount) \div draw_speed

-----------------------------------------------------------------------------
(* The next step of the manager, which has slept off its lateness when it  *)
(* wakes.                                                                  *)
Goto(label) == pc' = label /\ late' = IF label = "sleep" THEN 0 ELSE late

(* The manager wakes from rt_thread_mdelay(40) and releases the remote's   *)
(* enable key when no frame came for too long.                             *)
Wake ==
  /\ pc = "sleep" /\ turns > 0
  /\ Goto("branch")
  /\ tick' = (tick + Period) % TickMod
  /\ turns' = 0
  /\ IF key.enable /\ silence >= RemoteTimeout
     THEN key' = [key EXCEPT !.enable = FALSE] /\ silence' = 0
     ELSE key' = key /\ silence' = IF key.enable THEN silence + 1 ELSE 0
  /\ UNCHANGED <<manager_vars, target_gear_pwm, draw_status, current_gear_pwm, gearpc, frames, server_vars>>

(* The clock ticks while the manager is awake: interrupts and the threads  *)
(* of higher priority run, or another slice of its own.                    *)
Preempted ==
  /\ pc # "sleep" /\ late < Late
  /\ tick' = (tick + 1) % TickMod /\ late' = late + 1
  /\ UNCHANGED <<pc, manager_vars, target_gear_pwm, draw_status, gear_vars, remote_vars, server_vars>>

Branch ==
  /\ pc = "branch"
  /\ Goto(IF key.enable THEN "remote" ELSE "check")
  /\ UNCHANGED <<tick, manager_vars, target_gear_pwm, draw_status, gear_vars, remote_vars, server_vars>>

(* Remote control: the gear key lowers or hauls in the hose, the draw key  *)
(* starts the timer of a draw into bottle 1.                               *)
RemoteDraw ==
  /\ pc = "remote"
  /\ target_gear_pwm' = IF key.gear THEN min_geer_pwm ELSE max_geer_pwm
  /\ IF key.draw /\ ~is_draw
     THEN draw_start_tick' = Started /\ Goto("limit") /\ UNCHANGED <<pump, is_draw>>
     ELSE draw_start_tick' = 0 /\ Goto("sleep") /\ pump' = draw(0) /\ is_draw' = FALSE
  /\ UNCHANGED <<tick, full_draw_time, dump_draw_time, deep_pwm, draw_status,
                 gear_vars, remote_vars, server_vars>>

(* The remote's draw goes on up to its limit. *)
RemoteCompare ==
  /\ pc = "limit"
  /\ IF Within(RemoteLimit)
     THEN pump' = draw(1) /\ UNCHANGED <<is_draw, draw_start_tick>>
     ELSE pump' = draw(0) /\ is_draw' = TRUE /\ draw_start_tick' = 0
  /\ Goto("sleep")
  /\ UNCHANGED <<tick, full_draw_time, dump_draw_time, deep_pwm, target_gear_pwm, draw_status,
                 gear_vars, remote_vars, server_vars>>

Check ==
  /\ pc = "check"
  /\ Goto(IF bottle.id # 0 /\ draw_status # 4 THEN "depth" ELSE "idle")
  /\ UNCHANGED <<tick, manager_vars, target_gear_pwm, draw_status, gear_vars, remote_vars, server_vars>>

(* No bottle to fill: stop the pump and haul in the hose. *)
Idle ==
  /\ pc = "idle"
  /\ full_draw_time' = 0 /\ dump_draw_time' = 0
  /\ pump' = draw(0)
  /\ draw_start_tick' = 0
  /\ target_gear_pwm' = max_geer_pwm
  /\ Goto("sleep")
  /\ UNCHANGED <<tick, is_draw, deep_pwm, draw_status, gear_vars, remote_vars, server_vars>>

(* The gear does not move while the manager is awake, so computing the     *)
(* depth and comparing is one step.                                        *)
Depth ==
  /\ pc = "depth"
  /\ deep_pwm' = DepthPwm(bottle.deep)
  /\ Goto(IF AtDepth THEN "time" ELSE "lower")
  /\ UNCHANGED <<tick, draw_start_tick, is_draw, pump, full_draw_time, dump_draw_time,
                 target_gear_pwm, draw_status, gear_vars, remote_vars, server_vars>>

(* Mutant: the servo's target is not set. *)
LowerStays ==
  /\ pc = "lower"
  /\ draw_status' = 1
  /\ Goto("sleep")
  /\ UNCHANGED <<tick, manager_vars, target_gear_pwm, gear_vars, remote_vars, server_vars>>

Lower ==
  /\ pc = "lower"
  /\ draw_status' = 1
  /\ target_gear_pwm' = deep_pwm
  /\ Goto("sleep")
  /\ UNCHANGED <<tick, manager_vars, gear_vars, remote_vars, server_vars>>

(* Start the timer if it is not running. *)
Time ==
  /\ pc = "time"
  /\ draw_start_tick' = Started
  /\ Goto("compare")
  /\ UNCHANGED <<tick, is_draw, pump, full_draw_time, dump_draw_time, deep_pwm, target_gear_pwm,
                 draw_status, gear_vars, remote_vars, server_vars>>

(* Mutant: the time needed is compared in ticks, not in seconds. *)
CompareInTicks ==
  /\ pc = "compare"
  /\ full_draw_time' = FullDrawTime(bottle.amount)
  /\ Goto(IF Within(full_draw_time') THEN "pump" ELSE "finish")
  /\ UNCHANGED <<tick, draw_start_tick, is_draw, pump, dump_draw_time, deep_pwm, target_gear_pwm,
                 draw_status, gear_vars, remote_vars, server_vars>>

(* Compare the timer, at a second reading of the tick, with the time the   *)
(* commanded amount takes.                                                 *)
Compare ==
  /\ pc = "compare"
  /\ full_draw_time' = FullDrawTime(bottle.amount)
  /\ Goto(IF Within(full_draw_time' * Second) THEN "pump" ELSE "finish")
  /\ UNCHANGED <<tick, draw_start_tick, is_draw, pump, dump_draw_time, deep_pwm, target_gear_pwm,
                 draw_status, gear_vars, remote_vars, server_vars>>

(* The time left is computed from a third reading. *)
Pump ==
  /\ pc = "pump"
  /\ dump_draw_time' = full_draw_time - Elapsed(draw_start_tick) \div Second
  /\ pump' = draw(bottle.id)
  /\ Goto("mark")
  /\ UNCHANGED <<tick, draw_start_tick, is_draw, full_draw_time, deep_pwm, target_gear_pwm,
                 draw_status, gear_vars, remote_vars, server_vars>>

Mark ==
  /\ pc = "mark"
  /\ draw_status' = 2
  /\ Goto("sleep")
  /\ UNCHANGED <<tick, manager_vars, target_gear_pwm, gear_vars, remote_vars, server_vars>>

Finish ==
  /\ pc = "finish"
  /\ full_draw_time' = 0 /\ dump_draw_time' = 0
  /\ pump' = draw(0)
  /\ draw_start_tick' = 0
  /\ draw_status' = 4
  /\ Goto("sleep")
  /\ UNCHANGED <<tick, is_draw, deep_pwm, target_gear_pwm, gear_vars, remote_vars, server_vars>>

Manager ==
  \/ Wake \/ Branch \/ RemoteDraw \/ RemoteCompare \/ Check \/ Idle
  \/ Depth \/ Lower \/ Time \/ Compare \/ Pump \/ Mark \/ Finish

-----------------------------------------------------------------------------
(* loop_change_gear reads the target once to see whether to move and again *)
(* to choose the direction; the manager may run in between.                *)
GearRuns == pc = "sleep" /\ turns < GearTurns

GearTest ==
  /\ GearRuns /\ gearpc = "test"
  /\ IF current_gear_pwm # target_gear_pwm
     THEN gearpc' = "compare" /\ turns' = turns
     ELSE gearpc' = gearpc /\ turns' = turns + 1
  /\ UNCHANGED <<pc, clock, manager_vars, target_gear_pwm, draw_status, current_gear_pwm,
                 remote_vars, server_vars>>

(* Mutant: the directions are swapped. *)
GearCompareSwapped ==
  /\ GearRuns /\ gearpc = "compare"
  /\ gearpc' = IF current_gear_pwm < target_gear_pwm THEN "down" ELSE "up"
  /\ UNCHANGED <<pc, clock, manager_vars, target_gear_pwm, draw_status, current_gear_pwm, turns,
                 remote_vars, server_vars>>

GearCompare ==
  /\ GearRuns /\ gearpc = "compare"
  /\ gearpc' = IF current_gear_pwm > target_gear_pwm THEN "down" ELSE "up"
  /\ UNCHANGED <<pc, clock, manager_vars, target_gear_pwm, draw_status, current_gear_pwm, turns,
                 remote_vars, server_vars>>

GearMove ==
  /\ GearRuns /\ gearpc \in {"down", "up"}
  /\ current_gear_pwm' = (IF gearpc = "down" THEN current_gear_pwm - 1 ELSE current_gear_pwm + 1)
                           % GearMod
  /\ gearpc' = "test"
  /\ turns' = turns + 1
  /\ UNCHANGED <<pc, clock, manager_vars, target_gear_pwm, draw_status, remote_vars, server_vars>>

loop_change_gear == GearTest \/ GearCompare \/ GearMove

-----------------------------------------------------------------------------
(* The handler of "S2,id,deep,amountZ". *)
BottleCommand(b) ==
  /\ commands + frames < MaxInputs
  /\ bottle' = b
  /\ draw_status' = 0
  /\ commands' = commands + 1
  /\ UNCHANGED <<pc, clock, manager_vars, target_gear_pwm, gear_vars, remote_vars>>

(* A key frame "H..Z" of the remote.  Its three assignments are one step:  *)
(* a manager that sees only some of them acts as on another frame.         *)
KeyFrame(k) ==
  /\ commands + frames < MaxInputs
  /\ key' = k
  /\ silence' = 0
  /\ frames' = frames + 1
  /\ UNCHANGED <<pc, clock, manager_vars, target_gear_pwm, draw_status, gear_vars, server_vars>>

(* A joystick frame "A..Z" prolongs the enable without repeating the keys. *)
JoystickFrame ==
  /\ commands + frames < MaxInputs
  /\ silence' = 0
  /\ frames' = frames + 1
  /\ UNCHANGED <<pc, clock, manager_vars, target_gear_pwm, draw_status, gear_vars, key, server_vars>>

Next ==
  \/ Manager
  \/ Preempted
  \/ loop_change_gear
  \/ \E b \in Bottles : BottleCommand(b)
  \/ \E k \in KeyFrames : KeyFrame(k)
  \/ JoystickFrame

(* The manager wakes every period; the gear thread has no unbounded work   *)
(* above it.  The server and the remote owe nothing.                       *)
Fairness == WF_vars(Manager) /\ WF_vars(loop_change_gear)

Spec == Init /\ [][Next]_vars /\ Fairness

-----------------------------------------------------------------------------
(* Types of the variables of the sampling path. *)
TypeOK ==
  /\ pc \in {"sleep", "branch", "remote", "limit", "check", "idle", "depth", "lower", "time",
             "compare", "pump", "mark", "finish"}
  /\ tick \in 0 .. TickMod - 1 /\ draw_start_tick \in 0 .. TickMod - 1 /\ late \in 0 .. Late
  /\ is_draw \in BOOLEAN /\ pump \in 0 .. 8
  /\ bottle \in Bottle /\ draw_status \in {0, 1, 2, 4}
  /\ full_draw_time \in Int /\ dump_draw_time \in Int
  /\ deep_pwm \in 0 .. GearMod - 1
  /\ current_gear_pwm \in 0 .. GearMod - 1 /\ target_gear_pwm \in 0 .. GearMod - 1
  /\ gearpc \in {"test", "compare", "down", "up"} /\ turns \in 0 .. GearTurns
  /\ key \in Keys /\ silence \in Nat
  /\ commands \in 0 .. MaxInputs /\ frames \in 0 .. MaxInputs

(* What the server is told about a draw whenever the manager sleeps: the   *)
(* time left is at most the full time and not negative, although the tick  *)
(* is read again after the comparison and may have moved on.  (It may be 0 *)
(* with the pump still on.)  Full times that are negative or too long for  *)
(* the tick counter, which only an amount nobody checked gives, are left   *)
(* out.                                                                    *)
ProgressReport ==
  pc = "sleep" /\ full_draw_time * Second \in 0 .. TickMod - 1 => dump_draw_time \in 0 .. full_draw_time

-----------------------------------------------------------------------------
(* What a command has to satisfy for the code to carry it out.  Depths     *)
(* outside of the five metres of the hose give a width outside of the      *)
(* servo's range, or one that wraps; amounts that are negative or too      *)
(* large give a time that wraps.                                           *)
OnHose(deep) == deep \in 0 .. 5

(* Pumping time of the command, in ticks, and the longest time from one    *)
(* comparison of the timer to the next.                                    *)
Needed == FullDrawTime(bottle.amount) * Second

Turn == Period + 2 * Late

Timed == Needed >= 0 /\ Needed + Turn < TickMod

Regular == OnHose(bottle.deep) /\ Timed

(* The command in force when the inputs end is reported done, if it is     *)
(* regular: through interruptions by the remote, commands it superseded    *)
(* and torn gear steps.  Only reported: one that came while the manager    *)
(* finished the command before is not drawn (see FullVolumeDrawn, and      *)
(* AloneDrawnInFull for those that are), and one that is superseded is     *)
(* never reported.                                                         *)
LastCommandReported == <>[](bottle.id # 0 /\ Regular => draw_status = 4)

(* When the inputs end with a regular command, or with none, the pump      *)
(* stops and the hose is hauled in, whatever the remote or an earlier      *)
(* command left running and wherever it sent the hose.                     *)
PumpStops == <>[](bottle.id = 0 \/ Regular => pump = 0 /\ current_gear_pwm = max_geer_pwm)
=============================================================================
