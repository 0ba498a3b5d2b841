-------------------------------- MODULE Boot --------------------------------
(***************************************************************************)
(* Start-up and watchdog: main() of main.c starts the device threads one   *)
(* after the other and calls wdt_sample() of wdt_usv.c last, while the     *)
(* manager it has started feeds the watchdog after its first delay         *)
(* (manager.c:256), through a handle that wdt_sample() still has to find.  *)
(* The threads run on the kernel of module Kernel.  Of those main starts   *)
(* three are modelled, one of each kind: the receiver of raspberry.c waits *)
(* for a semaphore its interrupt releases and is above the manager, the    *)
(* manager sleeps and feeds the dog, and energy shares the priority of     *)
(* main.                                                                   *)
(***************************************************************************)
EXTENDS Kernel

CONSTANTS Receiver, Manager, Energy, \* the threads
          Rx,          \* the semaphore of the receiver
          Delay,       \* the delay each sleeping thread asks for
          MaxBusy,     \* of MaxBusy + 1 ticks in a row one finds the processor idle
          RxGap,       \* bound: at most one received byte in so many ticks
          RxMax,       \* bound on the bytes that wait to be read
          DogTicks     \* the watchdog's timeout

ASSUME BootAssumption ==
  /\ Threads = {Main, Idle, Receiver, Manager, Energy} /\ Sems = {Rx}
  /\ {Receiver, Manager, Energy} \cap {Main, Idle} = {}
  /\ Receiver # Manager /\ Receiver # Energy /\ Manager # Energy
  /\ Delay \in [{Manager, Energy} -> Delays]
  /\ MaxBusy \in Nat
  /\ RxGap \in Nat /\ RxMax \in Nat /\ DogTicks \in Nat

(* The load: the processor is not busy for as long as the manager sleeps   *)
(* (40 ticks), and the watchdog waits longer (4 s) than that sleep with a  *)
(* busy spell before and one after it.                                     *)
ASSUME LoadAssumption ==
  MaxBusy < Delay[Manager] /\ Delay[Manager] + 2 * MaxBusy < DogTicks

VARIABLES pc,       \* of main, the manager and the receiver
          busy,     \* ticks since one last found the processor idle
          rx_bytes, \* in the receive FIFO
          quiet,    \* ticks since the last byte, up to RxGap
          wdg_dev,  \* the watchdog's handle has been found
          is_start, \* the watchdog runs
          dog       \* ticks since it was started or fed

bvars == <<pc, busy, rx_bytes, quiet, wdg_dev, is_start, dog>>
vars  == <<kvars, bvars>>

(* main() from its first modelled call to its end. *)
MainCalls == <<"energy", "raspberry", "manager", "find", "found", "handle", "start", "exit">>

Init ==
  /\ KInit
  /\ pc = [t \in {Main, Manager, Receiver} |->
             IF t = Main THEN 1 ELSE IF t = Manager THEN "body" ELSE "read"]
  /\ busy = 0
  /\ rx_bytes = 0 /\ quiet = RxGap
  /\ wdg_dev = FALSE /\ is_start = FALSE /\ dog = 0

-----------------------------------------------------------------------------
(* main() of main.c *)
MainAt(call) ==
  /\ pc[Main] <= Len(MainCalls) /\ MainCalls[pc[Main]] = call
  /\ pc' = [pc EXCEPT ![Main] = @ + 1]
  /\ UNCHANGED <<busy, rx_bytes, quiet>>

Starts(call, t) ==
  /\ MainAt(call)
  /\ rt_thread_startup(Main, t)
  /\ UNCHANGED <<wdg_dev, is_start, dog>>

thread_energy    == Starts("energy", Energy)
thread_raspberry == Starts("raspberry", Receiver)
thread_manager   == Starts("manager", Manager)

(* wdt_sample: rt_device_find searches with the scheduler locked. *)
FindDevice ==
  /\ MainAt("find")
  /\ rt_enter_critical(Main)
  /\ UNCHANGED <<wdg_dev, is_start, dog>>

DeviceFound ==
  /\ MainAt("found")
  /\ rt_exit_critical(Main)
  /\ UNCHANGED <<wdg_dev, is_start, dog>>

(* Back in wdt_sample the handle is stored, and the driver is given the    *)
(* timeout it will start with.                                             *)
StoreHandle ==
  /\ MainAt("handle")
  /\ Executes(Main)
  /\ wdg_dev' = TRUE
  /\ UNCHANGED <<kvars, is_start, dog>>

(* RT_DEVICE_CTRL_WDT_START *)
StartDog ==
  /\ MainAt("start")
  /\ Executes(Main)
  /\ is_start' = TRUE /\ dog' = 0
  /\ UNCHANGED <<kvars, wdg_dev>>

MainReturns ==
  /\ MainAt("exit")
  /\ rt_thread_exit(Main)
  /\ UNCHANGED <<wdg_dev, is_start, dog>>

main ==
  \/ thread_energy \/ thread_raspberry \/ thread_manager
  \/ FindDevice \/ DeviceFound \/ StoreHandle \/ StartDog \/ MainReturns

-----------------------------------------------------------------------------
(* The loop of the battery gauge measures and sleeps. *)
check_dump_energy ==
  /\ rt_thread_sleep(Energy, Delay[Energy])
  /\ UNCHANGED <<pc, busy, rx_bytes, quiet, wdg_dev, is_start, dog>>

(* Mutant: the dog is fed before the first delay. *)
ManagerTurn_no_delay ==
  /\ pc[Manager] = "body" /\ Executes(Manager)
  /\ pc' = [pc EXCEPT ![Manager] = "feed"]
  /\ UNCHANGED <<kvars, busy, rx_bytes, quiet, wdg_dev, is_start, dog>>

(* The manager's loop body and its rt_thread_mdelay(40). *)
ManagerTurn ==
  /\ pc[Manager] = "body"
  /\ rt_thread_sleep(Manager, Delay[Manager])
  /\ pc' = [pc EXCEPT ![Manager] = "feed"]
  /\ UNCHANGED <<busy, rx_bytes, quiet, wdg_dev, is_start, dog>>

(* Mutant: the feeding is left out. *)
feed_dog_skipped ==
  /\ pc[Manager] = "feed" /\ Executes(Manager)
  /\ pc' = [pc EXCEPT ![Manager] = "body"]
  /\ UNCHANGED <<kvars, busy, rx_bytes, quiet, wdg_dev, is_start, dog>>

(* rt_device_control asserts that the handle is not RT_NULL; a failed      *)
(* assertion loops for ever.                                               *)
feed_dog ==
  /\ pc[Manager] = "feed" /\ Executes(Manager)
  /\ pc' = [pc EXCEPT ![Manager] = IF wdg_dev THEN "body" ELSE "assert"]
  /\ dog' = IF wdg_dev THEN 0 ELSE dog
  /\ UNCHANGED <<kvars, busy, rx_bytes, quiet, wdg_dev, is_start>>

(* lora_rec: while (rt_device_read(...) != 1) rt_sem_take(...); *)
ReadByte ==
  /\ pc[Receiver] = "read" /\ Executes(Receiver)
  /\ IF rx_bytes > 0 THEN rx_bytes' = rx_bytes - 1 /\ UNCHANGED pc
     ELSE pc' = [pc EXCEPT ![Receiver] = "take"] /\ UNCHANGED rx_bytes
  /\ UNCHANGED <<kvars, busy, quiet, wdg_dev, is_start, dog>>

TakeSem ==
  /\ pc[Receiver] = "take"
  /\ rt_sem_take(Receiver, Rx)
  /\ pc' = [pc EXCEPT ![Receiver] = "read"]
  /\ UNCHANGED <<busy, rx_bytes, quiet, wdg_dev, is_start, dog>>

-----------------------------------------------------------------------------
(* The receive interrupt of the port stores a byte and calls               *)
(* rx_jz_callback.  What may happen before the thread is started is the   *)
(* subject of module SerialPort.                                           *)
rx_jz_callback ==
  /\ sched.stat[Receiver] # "init" /\ quiet = RxGap /\ rx_bytes < RxMax
  /\ rt_sem_release_isr(Rx)
  /\ rx_bytes' = rx_bytes + 1 /\ quiet' = 0
  /\ UNCHANGED <<pc, busy, wdg_dev, is_start, dog>>

(* The clock interrupt, which also counts towards the bounds and the       *)
(* watchdog's timeout.                                                     *)
SysTick_Handler ==
  /\ sched.current # Idle => busy < MaxBusy
  /\ rt_tick_increase
  /\ busy' = IF sched.current = Idle THEN 0 ELSE busy + 1
  /\ quiet' = IF quiet < RxGap THEN quiet + 1 ELSE RxGap
  /\ dog' = IF is_start /\ dog < DogTicks THEN dog + 1 ELSE dog
  /\ UNCHANGED <<pc, rx_bytes, wdg_dev, is_start>>

HandlersGoOn == (TimerExpires \/ TimerCheckEnds \/ SerialSchedule) /\ UNCHANGED bvars

Returns == (\E t \in Threads : CallSchedule(t)) /\ UNCHANGED bvars

Reaps == rt_thread_idle_excute /\ UNCHANGED bvars

ThreadStep ==
  main \/ check_dump_energy \/ ManagerTurn \/ feed_dog \/ ReadByte \/ TakeSem
  \/ Returns \/ Reaps

Next == ThreadStep \/ rx_jz_callback \/ SysTick_Handler \/ HandlersGoOn

(* The processor executes the current thread, the clock ticks, and         *)
(* interrupt handlers come to their end.  The idle thread loses the        *)
(* processor again and again, but gets through its short loop between two  *)
(* ticks.  Bytes need not come.                                            *)
Fairness ==
  /\ WF_vars(ThreadStep) /\ WF_vars(SysTick_Handler) /\ WF_vars(HandlersGoOn)
  /\ SF_vars(Reaps)

Spec == Init /\ [][Next]_vars /\ Fairness

-----------------------------------------------------------------------------
(* Types of the kernel's and the start-up's state. *)
TypeOK ==
  /\ KTypeOK
  /\ pc[Main] \in 1 .. Len(MainCalls) + 1
  /\ pc[Manager] \in {"body", "feed", "assert"} /\ pc[Receiver] \in {"read", "take"}
  /\ busy \in 0 .. MaxBusy
  /\ rx_bytes \in 0 .. RxMax /\ quiet \in 0 .. RxGap
  /\ wdg_dev \in BOOLEAN /\ is_start \in BOOLEAN /\ dog \in 0 .. DogTicks

(* RT_ASSERT(dev != RT_NULL) in rt_device_control never fails: main has    *)
(* stored the handle before the manager, which it started earlier and      *)
(* which has the higher priority, feeds the dog for the first time.        *)
DogFoundBeforeFed == pc[Manager] # "assert"

(* Once started the watchdog is never left unfed for its timeout: the      *)
(* manager gets the processor in time whatever the others do.              *)
NeverReset == is_start => dog < DogTicks

(* Start-up comes to its end: the watchdog runs, and the idle thread has   *)
(* freed main, for which all others must let it run.                       *)
StartUpCompletes == <>(is_start /\ sched.stat[Main] = "close" /\ defunct = {})
=============================================================================
