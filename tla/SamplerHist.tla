---------------------------- MODULE SamplerHist ----------------------------
(***************************************************************************)
(* Sampler with history variables: how long the pump really ran for the    *)
(* command in force, whether anything disturbed that command, how long the *)
(* remote's draw key has kept the pump on, and whether all depths were on  *)
(* the hose.  They read the state and never guard a step of Sampler.       *)
(***************************************************************************)
EXTENDS Sampler

VARIABLES drawn,  \* ticks the commanded valve was open since the command
          quiet,  \* what has interfered with the command, see Quiet
          held,   \* ticks of pumping since the draw key went down
          trusted \* every depth commanded so far is on the hose

hist == <<drawn, quiet, held, trusted>>

(* "disturbed": the command met a running pump, a running timer or a       *)
(* decision taken for the one before, or the remote took over; "alone":    *)
(* none of that; "atRest": moreover the hose was hauled in and neither     *)
(* moving nor about to move.                                               *)
Quiet == {"disturbed", "alone", "atRest"}

HistInit == Init /\ drawn = 0 /\ quiet = "disturbed" /\ held = 0 /\ trusted = TRUE

NewCommand == commands' # commands

(* Ticks that pass in a step. *)
Ticks == (tick' - tick) % TickMod

(* draw() knows eight valves; for any other bottle the timer runs with the *)
(* pump off.                                                               *)
HasValve == bottle.id \in 1 .. 8

HoseIn == current_gear_pwm = max_geer_pwm /\ target_gear_pwm = max_geer_pwm /\ gearpc = "test"

(* Counters stop past the largest value a property compares with. *)
AtMost(n, m) == IF n > m THEN m ELSE n

HistNext ==
  /\ Next
  /\ drawn' = IF NewCommand THEN 0
              ELSE IF pump # 0 /\ pump = bottle.id THEN AtMost(drawn + Ticks, TickMod + Turn)
              ELSE drawn
  /\ quiet' = IF key'.enable THEN "disturbed"
              ELSE IF ~NewCommand THEN quiet
              ELSE IF pump # 0 \/ draw_start_tick # 0
                      \/ pc \in {"remote", "limit", "time", "compare", "pump", "mark", "finish"}
                   THEN "disturbed"
              ELSE IF HoseIn /\ pc # "lower" THEN "atRest" ELSE "alone"
  /\ held' = IF ~(key'.enable /\ key'.draw) THEN 0
             ELSE IF pump # 0 THEN AtMost(held + Ticks, RemoteLimit + 2 * Turn)
             ELSE held
  /\ trusted' = (trusted /\ OnHose(bottle'.deep))

HistSpec == HistInit /\ [][HistNext]_<<vars, hist>> /\ Fairness

-----------------------------------------------------------------------------
(* As long as the server has asked for depths on the hose only, the servo  *)
(* is not driven below its range, and above it by at most the one step     *)
(* that loop_change_gear takes when the target changes to the current      *)
(* width between its two reads.  Nothing in the code keeps it there after  *)
(* any other depth.                                                        *)
GearInRange == trusted => current_gear_pwm \in min_geer_pwm .. max_geer_pwm + 1

(* A command for one of the eight bottles that came with the hose at rest  *)
(* and was neither superseded nor interrupted is reported done             *)
(* (draw_status 4) after the pumping time its amount needs.  It may lack   *)
(* the ticks between the start of the timer and the opening of the valve,  *)
(* and it may exceed it by the time to the next comparison; by another     *)
(* turn when the draw started at reading 0 of the tick counter, which the  *)
(* code takes for "not started".                                           *)
UndisturbedDrawTime ==
  quiet = "atRest" /\ draw_status = 4 /\ HasValve /\ Timed
    => drawn \in Needed - Late .. Needed - 1 + 2 * Turn

(* Such a command pumps only while the hose is at its depth. *)
UndisturbedAtDepth ==
  quiet = "atRest" /\ pump # 0 => current_gear_pwm = DepthPwm(bottle.deep)

(* A command that found no draw under way and was neither superseded nor   *)
(* interrupted is never reported done before its time (but for the ticks   *)
(* between the start of the timer and the opening of the valve), even if   *)
(* the hose was still moving.                                              *)
AloneDrawnInFull ==
  quiet # "disturbed" /\ draw_status = 4 /\ HasValve /\ Timed => drawn + Late >= Needed

(* "full_draw_time: time needed to draw the required volume": a command    *)
(* reported done was given that time, whatever came before it.             *)
FullVolumeDrawn ==
  draw_status = 4 /\ HasValve /\ Timed => drawn + Late >= Needed

(* "maximum sampling volume" and "flag: remote draw timed out": one press  *)
(* of the remote's draw key never pumps longer than the limit, the time to *)
(* the next comparison and a turn for a draw that starts at tick 0.        *)
RemoteDrawLimit == held < RemoteLimit + 2 * Turn
=============================================================================
