# A verification development for the usv_32_rt firmware

The repository is the firmware of an unmanned surface vessel: a boat with two
thrusters, a suction hose on a servo, a pump with eight bottles, a GPS/attitude
unit, an obstacle radar, a water probe, a hand-held remote control and a
Raspberry Pi that relays a server. It runs on an STM32 under RT-Thread 4.0.2.
The program itself is `src/applications` (2300 lines of C); the rest of the
repository is vendored (RT-Thread, ST's HAL, board support).

## 1. Inventory

| part | source | state it keeps | operations | correct when |
|---|---|---|---|---|
| thruster outputs | `motor_pwm.c` | current and target width of two channels | `set_pwm`, `loop_change_pwm`, `thread_pwm` | outputs stay in 1000..2000 µs, equal what the software believes, settle at the targets |
| manager: supervision | `manager.c` 87-126 | `key[0]`, `is_connect`, `min_distance`, `current_mode`, the lamp | three time-outs, lamp, choice of mode | nothing outlives its time-out; nothing is switched off without one |
| manager: sampling | `manager.c` 176-257 | `draw_status`, `draw_start_tick`, `is_draw`, reported times | remote draw, server draw, idle | the commanded volume is drawn at the commanded depth, the pump never stays on |
| manager: thrust mixing | `manager.c` 127-175 | `left_pwm`, `right_pwm` | remote, hand and automatic mixing | no wrap of the unsigned widths, the boat stops when it is told to |
| hose servo | `gear_pwm.c` | current and target width | `set_gear_pwm`, `loop_change_gear` | stays in its range |
| pins | `gpio.c` | relays, valves, lamp | `draw`, `control_status_led` | one valve at most |
| server link | `raspberry.c` | frame buffer, `send_status_data`, `send_confirm_data` | `lora_rec` (commands S1-S6, S8), `lora_send` (telemetry A-D, echo) | every command confirmed, telemetry never stops |
| remote control | `lora.c` | keys, joystick, `rec_tick` | `lora_rec` (frames A and H) | dead man's switch |
| radar | `compass.c` | obstacle list, nearest distance | `check_radar` | lists what was reported, and only while it is |
| position | `gps.c` | `lng`, `lat`, `speed`, `current_theta` | `check_gps` | applies whole frames only |
| water probe | `water.c` | `ph`, `wt` | `check_water`, `send_water_data` | applies whole frames only |
| battery gauge | `energy_adc.c` | `dump_energy` | `check_dump_energy` | monotone in the voltage; its thread sleeps between measurements |
| automatic cruise | `auto_cruise.c` | PID state, `angle_error` | `auto_cruise_pid` | error in -180..180, widths within the speed limit |
| start-up, watchdog | `main.c`, `wdt_usv.c` | device handles | `main`, `wdt_sample`, `feed_dog` | nothing is used before it exists; the watchdog is fed in time |
| serial framework | `rt-thread/components/drivers/serial/serial.c` | receive FIFO, configuration | open, control, read, interrupt | a queue that drops the oldest byte |
| semaphores | `rt-thread/src/ipc.c` | value, waiting threads | init, take, release | no lost wake-up, no waiter passed over |
| scheduler, threads | `rt-thread/src/scheduler.c`, `thread.c`, `idle.c` | ready lists, bit map, current thread, lock nesting, defunct threads | schedule, insert, remove, lock; start, suspend, sleep, exit; reap | no thread is lost, the highest ready priority runs |
| timers, clock | `rt-thread/src/timer.c`, `clock.c` | tick, sorted timer list, time slices | start, stop, check; tick | a sleeper wakes in the tick it asked for, also across the wrap |

The parts interact only through global variables and, below them, through one
semaphore and one FIFO per serial port. There is no lock in the application.
What orders its threads is RT-Thread's fixed-priority preemption (a smaller
number runs first):

| thread | priority | sleeps in |
|---|---|---|
| `t_pwm` | 1 | `mdelay(2)` or `mdelay(10)` |
| server `lora_rec`, `lora_send` | 2 (slices of 20 and 5 ticks) | semaphore; `mdelay` |
| `manager`, remote `lora_rec` | 3 (slices of 5 ticks) | `mdelay(40)`; semaphore |
| radar | 4 | semaphore |
| GPS, water receive and poll | 5 | semaphore; `mdelay(500)` |
| hose servo | 7 | `mdelay(6)` |
| battery, `main` | 10 | `mdelay(100)` |

So the server's commands fall between any two statements of the manager, the
remote's frames too (at the end of a slice), the radar and the servo run only
while the manager sleeps and are stopped half way when it wakes. The hard
behaviours are these interleavings, unsigned time differences on a 32-bit
millisecond tick, values shared by two writers, the order of initialisation,
FIFO and semaphore at their limits, and in the kernel the window between a
service that has enabled interrupts again and the `rt_schedule` it still has to
call. PROJECT.json lists them one by one
under "hazards".

## 2. Modules

**Motor.** `current`, `target` are the four globals; `pulse` is what the timer was
programmed with. `set_pwm` is two actions (`set_pwm_left`, `set_pwm_right`)
because `t_pwm` may run between its two assignments; the clamp is `Clamp`. One
turn of `loop_change_pwm` is one action: nothing preempts it.

**Sampler.** The manager's pump block as a program counter (`Branch`, `RemoteDraw`,
`RemoteCompare`, `Check`, `Depth`, `Lower`, `Time`, `Compare`, `Pump`, `Mark`,
`Finish`, `Idle`, `Wake`), cut at every read of the tick and of what a command
writes: starting the timer (226), comparing it (230) and computing the time left
(233) are three readings, and `Preempted` lets the tick advance before any
statement, by up to `Late` ticks in a turn. The gear thread is three actions that
are enabled only while the manager sleeps (`GearTest`, `GearCompare`,
`GearMove`: the code reads the target again to choose the direction);
`BottleCommand` is the S2 handler, `KeyFrame` and `JoystickFrame` the remote's. The
three fields of S2 are any integers (`Bottle`), since raspberry.c:155 stores what
`atoi` returns and nothing checks it; widths are unsigned and wrap at `GearMod`, as
the expression in manager.c:214 and the servo's variables do.
`draw` keeps the one property of the pins that matters, the open bottle. The
tick wraps (`TickMod`), and reading 0 keeps the meaning "not started" that
`draw_start_tick==0` gives it. **SamplerHist** adds history variables: how long
the commanded valve was open (`drawn`), what interfered (`quiet`), how long one
press of the remote pumped (`held`), whether all depths asked for were on the hose
(`trusted`). A command counts as disturbed from the start
if it finds the pump on or `draw_start_tick` set. `draw` knows eight valves: for any
other bottle the timer runs with the pump off, and `HasValve` keeps the statements
about volumes to the eight.

**Supervisor.** The three tests `rt_tick_get() - stamp > limit` in two steps each,
the reading of the tick and the rest, so that a receiver may store a newer stamp
in between. Ages replace stamps, and `lag` is the age of the manager's reading:
`age - lag` is the difference the code computes, huge when negative. Then the
lamp and the mode. Receivers: remote (keys first, stamp last), server (any byte
stamps; S1, S3, S4, S8), radar (stamp first, then distance and list).

**ServerLink.** `lora_rec` and `lora_send` of `raspberry.c` with the buffer and the two
flags they share. `fate` records for each command whether it was echoed.

**Cruise** and **Thrust.** `Cruise` holds the integer part of `auto_cruise.c` as
operators: bearing to heading (`targe_theta`), the error turned into -180..180
(`Ek`), the forward thrust with its branches (`Forward`), the scaling to the
speed limit with C's division (`Scaled`). Sines, sigmoids and great circles are
tables given as constants. `Thrust` extends it and Motor: the manager's choice of
the mode and the three mixings, one step for every read of a variable that a
receiver may change meanwhile (`RemoteForward`, `RemoteMix`; `Hand`, `Compare`,
`HandForward`, `HandSteer`; `AutoLng`, `auto_cruise_pid`), the conversion to
unsigned and the call of `set_pwm`. `request` is the pair of widths before they
become unsigned, `seen` the course and the heading the last cruise computed from.

**FrameRx.** The five receive loops have one shape and differ in what a record
says (length, header, trailer, whether a header restarts the buffer, what is kept
outside of it, where it is cut); `MCFrameRx` gives the five records. A byte is its
frame and its position, the line loses bytes and binary data may look like a
header or a trailer. `results` lists what was applied since the current frame
began: the number of a frame if buffer and type held exactly that frame, 0 for
anything else.

**SerialPort** and **LossyQueue.** The path of a byte: interrupt, FIFO, callback,
semaphore, `while (rt_device_read(...) != 1) rt_sem_take(...)`, with the four
calls of the init functions in the order each driver makes them (`MCSerial`:
`Lora` also stands for water; `Raspberry` is the console, already open).
`rt_sem_init` runs with interrupts enabled and is three steps, the object's type
(`rt_object_init`), the list of waiters (`rt_ipc_object_init`) and the value; a
release between them fails its assertion before the first, reads an uninitialised
list before the second, and loses its count before the third. The
abstract queue promises order, no duplicates, and loss of the oldest byte on
overflow; the port refines it with the FIFO's contents as the queue
(`Contents`).

**Kernel.** The scheduler, the threads' states, the timer list, the tick and the
semaphores of RT-Thread, for one processor and fixed priorities. `sched` is the
scheduler's record (ready lists, bit map, current thread, states, lock nesting)
and the operators `rt_schedule_insert_thread`, `rt_schedule_remove_thread` and
`rt_schedule` map one such record to the next, as the code does with interrupts
disabled. A service (`rt_thread_sleep`, `rt_sem_take`, `rt_thread_startup`,
`rt_exit_critical`) ends with interrupts enabled and `rt_schedule` still to be
called: the set `due` holds the threads in that window, and `CallSchedule` is the
call. A thread may be switched away in the window and still be due when it comes
back. The clock interrupt is `rt_tick_increase`, one `TimerExpires` per timer that
has ended, and `TimerCheckEnds` (`in_tick`); a receive interrupt is
`rt_sem_release_isr` and `SerialSchedule` (`in_serial`). The interrupts have the
same priority, so neither strikes during the other. `KSpec` has the most general
threads: each may call any service at any time.

**Boot.** The boat on that kernel: `main()` starts the threads and calls
`wdt_sample`, statement by statement; the manager sleeps, then feeds the watchdog
through the handle `wdt_sample` has to find; the receiver of `raspberry.c` waits for
its semaphore. Of the ten threads three are started, one of each kind: one woken
by an interrupt above the manager, the manager, and one that shares the priority
of `main`. The branches of `wdt_sample` for a missing device are left out. Every
step is a step of `KSpec` or changes nothing in the kernel, which is proved.

The definitions whose comment begins with "Mutant" are deliberate mistakes in
the one that follows them; no specification uses them. Each property of a
passing run is violated when the mutant PROJECT.json names takes the place of
the original.

## 3. Runs

| run | checks | shows |
|---|---|---|
| `sampler` | `TypeOK`, `GearInRange`, `ProgressReport`, `UndisturbedDrawTime`, `UndisturbedAtDepth`, `AloneDrawnInFull`, `LastCommandReported`, `PumpStops` | what a command can rely on: alone, it gets its full time; with the hose at rest, its time up to the length of two turns, and only at its depth; the servo stays in its range as long as all depths are on the hose; the progress sent to the server is consistent; the last command is reported done if its depth and amount are sane, the pump goes off and the hose comes in |
| `supervisor` | `TypeOK`, `DeadMan`, `ObstacleForgotten`, `ConnectionShownFresh` | nothing outlives its limit by more than the period and the lateness of two turns |
| `server_link` | `NoneForgotten`, `TelemetryResumes` | a confirmation is missed only in two ways, and telemetry always resumes |
| `serial` | `TypeOK`, `IndexInBuffer`, `NoLostWakeup`, `AllRead`, `ImplementsQueue` | no lost wake-up, no index outside the buffer in any order of initialisation, refinement of the queue |
| `frame_rx` | `TypeOK`, `TerminatorInBuffer`, `Recovers`, `NeverReplayed` | buffers hold although frames run into each other; after any damage the second clean frame (the first, if a header restarts the buffer) is applied exactly once and whole; no old frame is applied again, except by the radar, which accepts a trailer with nothing collected |
| `thrust` | `ThrustTypeOK`, `OutputInRange`, `OutputMatchesCurrent`, `NeverWraps`, `CruiseWithinSpeed`, `TurnsTheShortWay`, `Settles`, `ComesToRest` | the slew loop never leaves the range although it has no clamp and overshoots odd targets, and settles within 1 µs (the comment at motor_pwm.c:49 promises equality, which an odd target never gets); no width becomes a huge unsigned one, even from the halves of two commands; the cruise keeps its limit except in the degree behind the beam that `abs()` cuts off; it turns the shorter way across north; the boat stops when it is told to |
| `boot` | `TypeOK`, `NoThreadLost`, `HighestRuns`, `NoWaiterPassed`, `OnTime`, `DogFoundBeforeFed`, `NeverReset`, `NeverEarly`, `StartUpCompletes` | interrupts in the window before `rt_schedule` lose no thread and pass none over; sleepers wake on time across the wrap of the tick; the watchdog's handle is found before the manager uses it, the watchdog is never starved, and `main` is freed |
| `full_volume` | `FullVolumeDrawn` (violated) | a superseding S2 inherits `draw_start_tick` |
| `remote_limit` | `RemoteDrawLimit` (violated) | `is_draw` is cleared one turn after it was set, the pump restarts under the same press |
| `supervisor_release` | `ReleasedOnlyOnTimeout` (violated) | a frame between the two reads of line 92 releases the remote |
| `obstacles_cleared` | `ObstaclesCleared` (violated) | the radar's time-out resets the nearest distance only; listed obstacles stay for ever |
| `serial_assert` | `NoAssertFailure` (violated) | a radar byte before `rt_sem_init` halts the system |

Bounds. *Sampler*: servo widths 1..3, depths 0 and 5 (widths 2 and 1) and 10,
which the hose does not have (width 0, below the range); a second of two periods,
a tick that wraps at 6, so draws span the wrap and start at 0, and one tick of
lateness per turn; commands for two depths, for an amount that rounds to no second
and one that takes a second, one for a bottle and a depth that do not exist, and
one that withdraws the last; three inputs in all (`MaxInputs`), commands or
frames, enough for a command over a command, over a remote draw, and a remote draw
over a command. A width that wraps lies too far away for a small instance; the
proofs cover it, as they cover every depth and amount. *Supervisor*: limits of 0 and 1 period, one tick of lateness
per turn; the ages stop at one past the bound the properties compare with, so
nothing is lost. *ServerLink*: four frames. *SerialPort*: buffers of 2 and 4, a
semaphore that wraps at 3 and 7 bytes: overflow, wrap-around of both indices and
of the semaphore all happen. *FrameRx*: frames of four to six bytes whose
length, cut and buffer size are related as in the code, five frames with four
lost or aliased bytes, so two damaged frames may be followed by two clean ones.
*Thrust*: widths of 125 µs between 12 and 20; the step of the slew loop is not
scaled, so every relation of step, parity and bound occurs; angles of 22.5 degrees of which two count as a whole
one for `abs()`, directions in three branches, two places, one of them near, and a
third that only mixed coordinates give; three frames or commands, enough to change
the mode and twice what the new mode reads. *Boot*: a tick that wraps at 10,
delays of 3 (manager) and 2 ticks for 40 and 100, a watchdog of 8 ticks for 4000,
at most one byte in 3 ticks. `MaxBusy` names the one assumption about load: of
`MaxBusy + 1` ticks in a row one finds the processor idle. The run has `MaxBusy` 2.
`DogFoundBeforeFed` needs `MaxBusy` below the manager's delay (40 ms in the boat):
`main` is finished before the manager's first delay is over only because the threads
above it leave it some of these 40 ms; nothing else orders the two. `NeverReset`
needs the delay plus twice `MaxBusy` below the watchdog's time-out. Both are
`LoadAssumption` in `Boot`, and neither can be relaxed by a tick: without the
assumption TLC finds the assertion failing at `MaxBusy` 3 with the delay of 3, and
a reset at a time-out of 7.

Conditions on the inputs. Nothing in the code rejects an S2 command, and a comma
lost on the line (`FrameRx`) makes depth 5100 of `5,100`. So the statements about
sampling name what they hold for. `GearInRange` holds while every depth so far was
in 0..5 (`trusted`): depth 6 is width 680, below the servo's 800, and from depth 12
on the target wraps to nearly 2^32. `UndisturbedDrawTime` and `AloneDrawnInFull` ask
for an amount whose time is not negative and fits the tick counter (`Timed`),
`ProgressReport` the same of the full time that is reported, `LastCommandReported`
and `PumpStops` for both of the last command (`Regular`); what came before it may be
anything. `LastCommandReported` says no more than its name: a command that arrives
while the manager finishes the one before is reported done without being drawn,
which `full_volume` shows, and a superseded one is never reported.
`TimeAssumption` has one condition on the load, that at most a second passes while
the manager is awake in one turn (`Late`).

The frame run does not check deadlock, since the line ends; nor does the serial
run: a silent line, or a failed assertion, stops everything.

Fairness. Threads only sleep in `rt_thread_mdelay` or on a semaphore, and no
thread computes without end, so each gets the processor again and again: weak
fairness of the manager, of the gear thread, of `t_pwm`, of `lora_send`, of the
readers and of `main`. The remote, the server and the line owe nothing. In `Boot`
scheduling is modelled, so only the hardware is fair: the processor executes the
current thread (`ThreadStep`), the clock ticks, and handlers come to their end. The
idle thread is preempted again and again, and gets strong fairness for the one
step of freeing a thread, which is far shorter than a tick.

## 4. Proofs

`MotorProof`, `ThrustProof`, `SamplerProof`, `SerialProof`, `FrameRxProof`,
`KernelProof`, `SupervisorProof` and `ServerLinkProof` prove for all constants
that satisfy the assumptions named in the modules:

* `MotorOutputInRange`. The range alone is not inductive: from a width one below
  the bound a step of two leaves it. The invariant adds that widths are even
  (`WidthsEven`), which the even bounds, the even neutral width and the step
  preserve, and that nothing moved before the timer was initialised
  (`NeutralBeforeInit`). `MotorOutputMatchesCurrent` and `MotorTypeCorrect` come
  with it. `ThrustOutputInRange` and `ThrustOutputMatchesCurrent` state the same of
  the composition, in which the manager computes what it asks for.
* `SamplerGearInRange`, for commands with any integers as fields. The servo may be
  one step above its range because of the double read; `RangeInv` says, as long as
  every depth was on the hose, that both the target and the width still to be set
  are in the range and that the gear thread has chosen a direction with room in it
  (`"down"` was chosen above some target, so above the minimum).
  `DepthPwmInRange` shows that nothing wraps for such a depth.
* `SamplerProgressReport` needs `TimeDecided`: on the way to `Pump` the timer is past
  the full time by less than the ticks since the manager woke, at most a second, so
  whole seconds never exceed the full time, but may equal it: the
  time left is 0 with the pump on when a tick falls between lines 230 and 233.
* `SamplerDrawTime`, `SamplerAtDepth`, `SamplerDrawnInFull`, the three promises to a
  single command. `DrawInv` relates the history to the code's variables at each of
  the manager's steps: for a command that is alone the timer leads the pump by at
  most the lateness of the turn in which it was started (`TimerCovered`); for one that
  found the hose at rest the hose goes down to its depth and stays there from the
  first tick of the timer to the last (`HoseInv`), the pump leads the timer by at
  most the turn lost at reading 0, and the timer exceeds the time needed by at most
  what has passed since it was last compared (`CountInv`, `Slack`); a command
  reported done is not being worked on (`DoneOK`). `Advance` is the one lemma about
  the wrap of the tick counter.
* `SerialNoLostWakeup`. The invariant relates FIFO, semaphore and reader: a byte
  that waits has a release that is still counted, or the reader has not looked
  yet. `SerialIndexInBuffer` needs that configuration and allocation agree once
  the port is open, whatever the order of the calls. `SerialImplementsQueue` is the
  refinement: the FIFO's contents from `get_index` on are the abstract queue, the
  lemmas `AppendContents`, `OverflowContents` and `TakeContents` say what a store, a
  store into a full FIFO and a read do to them, and `FullOK` (the flag is set only
  while the put index is right behind the get index) makes a FIFO that is not
  `Empty` hold a byte.
* `FrameRxTerminatorInBuffer`. Inductive once it is stated with the cut: between two
  bytes the index is at most the cut, and the assumption says that the cut leaves
  room for the next byte and the terminator. `FrameRxNeverReplayed` rests on
  `ReplayInv`: a last byte that was collected has ended its frame, so the buffer
  keeps none (`NoEndKept`), and whatever is applied whole must be the frame that
  just arrived (`ResultsFresh`). This leaves out the radar, which reads past a bare
  trailer. `FrameRxRecovers` rests on `RecoverInv`: a clean frame leaves every receiver
  ready for the next one (`Synced`), because a trailer clears the index and a receiver
  that counts bytes is at least as far as the frame, runs full before its end and
  finds no header in the rest (`Closing`); a receiver that is ready, or that a header
  restarts, then holds the frame byte by byte (`Tracking`). For that
  `ReceiverAssumption` says how the five records are related: the cut does not fall
  inside a frame, and the blind trailer is the radar's alone.
* `KernelNoThreadLost`, `KernelHighestRuns`, `KernelNoWaiterPassed`, `KernelOnTime`,
  `KernelNeverEarly`. The invariant `KInv` says what holds in the window before
  `rt_schedule`, where none of the five is inductive: the current thread may be
  suspended and a better thread may be ready, but then it is due, a receive
  interrupt has still to call `rt_schedule`, or the scheduler is locked (`CurrentOK`);
  each suspended thread waits for exactly one event (`WaitsOK`); a released
  semaphore has no waiter (`CountsOK`); the list is sorted by the distance of the ends
  from now, which is below half the range of the tick because every delay is
  (`TimesOK`); the types of the rest are in `RestOK`.
* `BootImplementsKernel` (`Spec => KSpec`): start-up is one of the behaviours of the
  most general threads. It needs that only `main`, and only between `FindDevice` and
  `DeviceFound`, holds the scheduler's lock (`NestOK`). With it `BootKernelSafe`
  carries the kernel's theorems over to the boat, and `BootTypeCorrect` follows.
* `BootDogFoundBeforeFed` and `BootNeverReset`, from `LoadAssumption`. Neither is
  inductive: both depend on what is left of the manager's sleep (`Left`, computed
  from its timer). `DogInv` says that this and the ticks that found the processor busy
  add up to the whole delay as long as `main` has not ended, and that it and the age
  of the last feeding stay within the delay and one busy spell (`SleepOK`); awake, the
  manager waits only while the processor is busy (`DogOK`). The step that needs the
  scheduler is the tick that finds the idle thread: by `HighestRuns` every other
  thread that was started waits then (`IdleAlone`), so `main` has ended and the
  manager sleeps. The proof uses no relation between the priorities but that the
  idle thread has the lowest.
* `SupervisorDeadMan`, `SupervisorObstacleForgotten`,
  `SupervisorConnectionShownFresh`. For each of the three stamps the invariant
  `SupInv` bounds its age at each step of the manager's turn by the limit, the period
  and the lateness used so far, and relates it to the age of the manager's reading
  (`LagOK`, `RemoteOK`, `RadarOK`, `ServerOK`).
* `ServerLinkNoneForgotten`: `LinkInv` adds that only the frame in the buffer
  can wait for its echo (`OneWaits`), and none does while `lora_send` sleeps after
  one (`NoneSettles`).
* `ThrustNeverWraps`. The invariant bounds each part of a width where it is computed
  (`PartsBounded`), so it survives a command between two parts; the price is the
  assumption that twice the fastest speed fits below the neutral width (speeds up
  to 7; the comment at auto_cruise.c:109 speaks of at most 500, a speed of 5). `ThrustCruiseWithinSpeed` rests on `ScaledBound`: the
  quotients of both thrusts add up to at most the limit as long as the forward
  thrust is not negative, and to at most twice the limit if it is at most a third
  of the steering (the code's is 15 of 404). `ThrustTurnsTheShortWay` rests on
  `EkShortest`: the error is congruent to the turn the compass asks for.

Only model-checked: the liveness properties `LastCommandReported`, `PumpStops`, `AllRead`,
`TelemetryResumes`, `Settles`, `ComesToRest` and `StartUpCompletes`, since fairness is
out of the prover's reach. Every invariant, every property of steps and the
refinements that a run checks are proved.

## 5. Not modelled, and the plan

Not modelled: pin and timer set-up, the text of telemetry, floating point
(bearing and distance, the tangent of the battery gauge), the functions the
program never starts (`check_compass`, `check_gps_ascii`, `lora_send` of lora.c).
Of the kernel, what the boat's threads never call: mutexes, events, mailboxes,
semaphores with a time-out, soft timers, changes of priority, suspension of
another thread. The rest of the repository is vendored code the boat configures
out or calls as plain access to registers: file systems, network stacks, the C
library's glue, ST's HAL and headers. The modules above `Kernel` do not run on it;
they take from it that a thread of higher priority may run at any statement and
one of lower priority only while those above wait, which is `HighestRuns`.

Seen while reading and not checked by a run: `init_gps` configures an open
port and `init_raspberry` the open console, so both keep the default buffer of
64 bytes; `is_connect` is exposed to the same race as the remote's enable; S3
with mode 3 clears `target_lat` twice and never `target_lng`; a hose that passes
the commanded depth on its way elsewhere starts the pump, since manager.c:217
compares for equality; a command overtaken by the next frame, or completed during
the sleep after an echo, is never confirmed (`NoneForgotten` says that these are
the only two ways); the direction 90 turns the boat the same way as 270; within
5.5 m the boat moves forward even if the target is behind it, although line 80 of
auto_cruise.c says that it turns on the spot; the PID factors of S5 are stored and
never used; if the device "wdt" is not found, `wdt_sample` returns and the manager
later asserts on the missing handle and spins, with no watchdog to end it;
`rt_schedule` leaves the yield flag of a thread that keeps the processor because
all ready threads are worse, so that it may give up its next slice early, although
rtdef.h:496 speaks of the last schedule. `init_gps` makes the same mistake as
`init_compass` (`serial_assert`): the port is open since gps.c:27 and gets its
callback at 41, before `rt_sem_init` at 43. water.c:49 asks the probe for four
registers, a reply of 13 bytes, while the loop applies a frame at the twelfth;
`FrameRx` has replies of the length the loop expects, and no inserted bytes.
Of an S2 nobody checks: a depth of 12 or more sends the servo after a width near
2^32, a walk of up to 298 days at 6 ms a step, and leaves the pump of a superseded
draw on meanwhile (manager.c:217-221 does not switch it off); a negative amount is
a huge unsigned time and pumps for up to 49 days; an amount below 4 rounds to
no time at all. The comment at manager.c:46 says that the server sends ten times the
depth, and line 214 has 5 as the full length of the hose.

Next, in this order:

1. a closed loop of the cruise: heading and distance that follow the outputs;
2. the battery gauge as a table of the tangent, with its poles;
3. proofs of what the closed loop keeps.
