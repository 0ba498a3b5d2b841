------------------------------- MODULE Kernel -------------------------------
(***************************************************************************)
(* The part of the RT-Thread kernel that every thread of the boat rests    *)
(* on: the scheduler of rt-thread/src/scheduler.c, starting, sleeping and  *)
(* ending of thread.c, the timer list of timer.c, the clock interrupt of   *)
(* clock.c and the semaphore of ipc.c, for one processor and threads whose *)
(* priority never changes.                                                 *)
(*                                                                         *)
(* The services end with interrupts enabled and a call of rt_schedule      *)
(* still to come: the set due holds the threads in that window, in which   *)
(* the clock or a receive interrupt may strike.  The interrupts of the     *)
(* clock and of the ports have the same priority (drv_common.c sets 0, and *)
(* drv_usart.c leaves it at 0 for a port without DMA), so that no handler  *)
(* interrupts another.                                                     *)
(***************************************************************************)
EXTENDS Integers, Sequences

CONSTANTS Threads,
          Idle,      \* the idle thread, which calls nothing that blocks
          Main,      \* the thread rt_application_init creates
          Prio,      \* current_priority: 0 is the highest
          Slice,     \* init_tick: the time slice
          Sems,      \* the semaphores, FIFO and initially 0
          Delays,    \* the sleeping times the threads ask for
          TickMod    \* rt_tick wraps here (2^32)

(* RT_TICK_MAX / 2 *)
HalfTick == (TickMod - 1) \div 2

ASSUME KernelAssumption ==
  /\ Idle \in Threads /\ Main \in Threads /\ Main # Idle
  /\ Prio \in [Threads -> Nat]
  /\ \A t \in Threads : t # Idle => Prio[t] < Prio[Idle]
  /\ Slice \in [Threads -> Nat \ {0}]
  /\ TickMod \in Nat \ {0}
  /\ \A d \in Delays : d \in Nat \ {0} /\ d < HalfTick

Priorities == {Prio[t] : t \in Threads}

VARIABLES sched,          \* the scheduler's state, see TypeOK
          remaining_tick, \* of the time slice
          rt_tick,
          timer_list,     \* the thread_timers that run: whose, and the timeout_tick
          value,          \* of the semaphores
          suspend_thread, \* the threads waiting for each
          due,            \* the threads that have to call rt_schedule next
          in_tick,        \* the clock interrupt is in rt_timer_check
          in_serial,      \* a receive interrupt has to call rt_schedule next
          defunct         \* threads that have ended and are not freed yet

kvars == <<sched, remaining_tick, rt_tick, timer_list, value,
           suspend_thread, due, in_tick, in_serial, defunct>>

Elems(q) == {q[i] : i \in 1 .. Len(q)}

-----------------------------------------------------------------------------
(* scheduler.c.  The operators take the scheduler's state and return it.   *)

(* rt_list_remove *)
RemoveIndex(q, i) == [j \in 1 .. Len(q) - 1 |-> IF j < i THEN q[j] ELSE q[j + 1]]

Without(q, t) ==
  IF t \in Elems(q) THEN RemoveIndex(q, CHOOSE i \in 1 .. Len(q) : q[i] = t) ELSE q

(* Mutant: the bit of the priority is not set. *)
rt_schedule_insert_thread_no_bit(s, t) ==
  IF t = s.current
  THEN [s EXCEPT !.stat[t] = "running"]
  ELSE [s EXCEPT !.stat[t] = "ready", !.ready[Prio[t]] = Append(@, t)]

rt_schedule_insert_thread(s, t) ==
  IF t = s.current
  THEN [s EXCEPT !.stat[t] = "running"]
  ELSE [s EXCEPT !.stat[t] = "ready",
                 !.ready[Prio[t]] = Append(@, t),
                 !.group = @ \cup {Prio[t]}]

rt_schedule_remove_thread(s, t) ==
  LET q == Without(s.ready[Prio[t]], t)
  IN  [s EXCEPT !.ready[Prio[t]] = q,
                !.group = IF q = <<>> THEN @ \ {Prio[t]} ELSE @]

(* __rt_ffs of rt_thread_ready_priority_group *)
Highest(s) == CHOOSE p \in s.group : \A r \in s.group : p <= r

(* The current thread keeps the processor: it still runs, and the best     *)
(* ready thread is worse, or as good and the time slice is not used up.    *)
Keeps(s) ==
  /\ s.stat[s.current] = "running"
  /\ \/ Prio[s.current] < Highest(s)
     \/ Prio[s.current] = Highest(s) /\ ~s.yield[s.current]

SwitchTo(s, to) ==
  LET from    == s.current
      running == s.stat[from] = "running"
      moved   == [s EXCEPT !.current = to,
                           !.yield[from] = IF running THEN FALSE ELSE @]
      queued  == IF running THEN rt_schedule_insert_thread(moved, from) ELSE moved
  IN  [rt_schedule_remove_thread(queued, to) EXCEPT !.stat[to] = "running"]

rt_schedule(s) ==
  IF s.nest > 0 \/ s.group = {} THEN s
  ELSE IF Keeps(s) THEN rt_schedule_remove_thread(s, s.current)
  ELSE SwitchTo(s, Head(s.ready[Highest(s)]))

-----------------------------------------------------------------------------
(* rtthread_startup: main and idle are started, the scheduler picks main.  *)
KInit ==
  /\ sched = [ready   |-> [p \in Priorities |-> IF p = Prio[Idle] THEN <<Idle>> ELSE <<>>],
              group   |-> {Prio[Idle]},
              current |-> Main,
              stat    |-> [t \in Threads |-> IF t = Main THEN "running"
                                             ELSE IF t = Idle THEN "ready" ELSE "init"],
              yield   |-> [t \in Threads |-> FALSE],
              nest    |-> 0]
  /\ remaining_tick = Slice
  /\ rt_tick = 0 /\ timer_list = <<>>
  /\ value = [m \in Sems |-> 0] /\ suspend_thread = [m \in Sems |-> <<>>]
  /\ due = {} /\ in_tick = FALSE /\ in_serial = FALSE /\ defunct = {}

(* t executes its own code, and no interrupt handler is running. *)
Executes(t) == sched.current = t /\ ~in_tick /\ ~in_serial /\ t \notin due

(* rt_thread_suspend, for the current thread. *)
Suspend(s, t) == [rt_schedule_remove_thread(s, t) EXCEPT !.stat[t] = "suspend"]

(* Mutant: times compared as numbers. *)
Later_plain(x, y) == x > y

(* x is a later time than y. *)
Later(x, y) == (x - y) % TickMod # 0 /\ (x - y) % TickMod < HalfTick

(* The threads whose timer runs. *)
Sleepers == {timer_list[i].thread : i \in 1 .. Len(timer_list)}

rt_timer_stop(t) ==
  IF t \in Sleepers
  THEN RemoveIndex(timer_list, CHOOSE i \in 1 .. Len(timer_list) : timer_list[i].thread = t)
  ELSE timer_list

(* Behind all timers that do not end later. *)
rt_timer_start(q, timer) ==
  LET later == {i \in 1 .. Len(q) : Later(q[i].timeout_tick, timer.timeout_tick)}
      pos   == IF later = {} THEN Len(q) + 1
               ELSE CHOOSE i \in later : \A j \in later : i <= j
  IN  [j \in 1 .. Len(q) + 1 |->
         IF j < pos THEN q[j] ELSE IF j = pos THEN timer ELSE q[j - 1]]

rt_thread_sleep(t, d) ==
  /\ Executes(t)
  /\ sched' = Suspend(sched, t)
  /\ timer_list' = rt_timer_start(timer_list, [thread |-> t, timeout_tick |-> (rt_tick + d) % TickMod])
  /\ due' = due \cup {t}
  /\ UNCHANGED <<remaining_tick, rt_tick, value, suspend_thread, in_tick, in_serial, defunct>>

(* Mutant: the last release is not taken. *)
rt_sem_take_off_by_one(t, m) ==
  /\ Executes(t)
  /\ IF value[m] > 1
     THEN /\ value' = [value EXCEPT ![m] = @ - 1]
          /\ UNCHANGED <<sched, suspend_thread, due>>
     ELSE /\ sched' = Suspend(sched, t)
          /\ suspend_thread' = [suspend_thread EXCEPT ![m] = Append(@, t)]
          /\ due' = due \cup {t}
          /\ UNCHANGED value
  /\ UNCHANGED <<remaining_tick, rt_tick, timer_list, in_tick, in_serial, defunct>>

(* rt_sem_take(sem, RT_WAITING_FOREVER) *)
rt_sem_take(t, m) ==
  /\ Executes(t)
  /\ IF value[m] > 0
     THEN /\ value' = [value EXCEPT ![m] = @ - 1]
          /\ UNCHANGED <<sched, suspend_thread, due>>
     ELSE /\ sched' = Suspend(sched, t)
          /\ suspend_thread' = [suspend_thread EXCEPT ![m] = Append(@, t)]
          /\ due' = due \cup {t}
          /\ UNCHANGED value
  /\ UNCHANGED <<remaining_tick, rt_tick, timer_list, in_tick, in_serial, defunct>>

(* rt_thread_startup(new), called by t *)
rt_thread_startup(t, new) ==
  /\ Executes(t)
  /\ sched.stat[new] = "init"
  /\ sched' = rt_schedule_insert_thread(sched, new)
  /\ due' = due \cup {t}
  /\ UNCHANGED <<remaining_tick, rt_tick, timer_list, value, suspend_thread,
                 in_tick, in_serial, defunct>>

rt_enter_critical(t) ==
  /\ Executes(t)
  /\ sched' = [sched EXCEPT !.nest = @ + 1]
  /\ UNCHANGED <<remaining_tick, rt_tick, timer_list, value, suspend_thread,
                 due, in_tick, in_serial, defunct>>

(* Mutant: what became ready meanwhile is not looked at. *)
rt_exit_critical_no_schedule(t) ==
  /\ Executes(t)
  /\ sched' = [sched EXCEPT !.nest = IF @ > 1 THEN @ - 1 ELSE 0]
  /\ UNCHANGED <<remaining_tick, rt_tick, timer_list, value, suspend_thread,
                 due, in_tick, in_serial, defunct>>

rt_exit_critical(t) ==
  /\ Executes(t)
  /\ sched' = [sched EXCEPT !.nest = IF @ > 1 THEN @ - 1 ELSE 0]
  /\ due' = IF sched.nest <= 1 THEN due \cup {t} ELSE due
  /\ UNCHANGED <<remaining_tick, rt_tick, timer_list, value, suspend_thread,
                 in_tick, in_serial, defunct>>

(* The rt_schedule() at the end of a service: t returns from it when it is *)
(* current again.                                                          *)
CallSchedule(t) ==
  /\ t \in due /\ sched.current = t /\ ~in_tick /\ ~in_serial
  /\ sched' = rt_schedule(sched)
  /\ due' = due \ {t}
  /\ UNCHANGED <<remaining_tick, rt_tick, timer_list, value, suspend_thread,
                 in_tick, in_serial, defunct>>

(* The thread's function returns; interrupts stay disabled to the switch.  *)
rt_thread_exit(t) ==
  /\ Executes(t)
  /\ sched' = rt_schedule([rt_schedule_remove_thread(sched, t) EXCEPT !.stat[t] = "close", !.yield[t] = FALSE])
  /\ timer_list' = rt_timer_stop(t)
  /\ defunct' = defunct \cup {t}
  /\ UNCHANGED <<remaining_tick, rt_tick, value, suspend_thread, due, in_tick, in_serial>>

(* Mutant: the idle thread stops at the first dead thread. *)
rt_thread_idle_excute_stops ==
  /\ Executes(Idle) /\ defunct = {}
  /\ UNCHANGED kvars

(* The idle thread frees the objects of threads that have ended, and with  *)
(* them what is left of their time slices.                                 *)
rt_thread_idle_excute ==
  /\ Executes(Idle)
  /\ \E t \in defunct :
       /\ defunct' = defunct \ {t}
       /\ remaining_tick' = [remaining_tick EXCEPT ![t] = Slice[t]]
  /\ UNCHANGED <<sched, rt_tick, timer_list, value, suspend_thread,
                 due, in_tick, in_serial>>

-----------------------------------------------------------------------------
(* Mutant: a used-up time slice is not renewed. *)
rt_tick_increase_no_renewal ==
  LET t    == sched.current
      used == remaining_tick[t] = 1
  IN  /\ ~in_tick /\ ~in_serial
      /\ rt_tick' = (rt_tick + 1) % TickMod
      /\ remaining_tick' = [remaining_tick EXCEPT ![t] = @ - 1]
      /\ sched' = IF used THEN rt_schedule([sched EXCEPT !.yield[t] = TRUE]) ELSE sched
      /\ in_tick' = TRUE
      /\ UNCHANGED <<timer_list, value, suspend_thread, due, in_serial, defunct>>

(* rt_tick_increase up to rt_timer_check. *)
rt_tick_increase ==
  LET t    == sched.current
      used == remaining_tick[t] = 1
  IN  /\ ~in_tick /\ ~in_serial
      /\ rt_tick' = (rt_tick + 1) % TickMod
      /\ remaining_tick' = [remaining_tick EXCEPT ![t] = IF used THEN Slice[t] ELSE @ - 1]
      /\ sched' = IF used THEN rt_schedule([sched EXCEPT !.yield[t] = TRUE]) ELSE sched
      /\ in_tick' = TRUE
      /\ UNCHANGED <<timer_list, value, suspend_thread, due, in_serial, defunct>>

(* Mutant: times are compared as numbers. *)
Expired_plain == timer_list # <<>> /\ rt_tick >= Head(timer_list).timeout_tick

(* The head of the timer list has expired. *)
Expired == timer_list # <<>> /\ (rt_tick - Head(timer_list).timeout_tick) % TickMod < HalfTick

(* One turn of the loop of rt_timer_check, with rt_thread_timeout. *)
TimerExpires ==
  LET t == Head(timer_list).thread
  IN  /\ in_tick /\ Expired
      /\ timer_list' = Tail(timer_list)
      /\ suspend_thread' = [m \in Sems |-> Without(suspend_thread[m], t)]
      /\ sched' = rt_schedule(rt_schedule_insert_thread(sched, t))
      /\ UNCHANGED <<remaining_tick, rt_tick, value, due, in_tick, in_serial, defunct>>

(* The loop ends at the first timer that has not expired. *)
TimerCheckEnds ==
  /\ in_tick /\ ~Expired
  /\ in_tick' = FALSE
  /\ UNCHANGED <<sched, remaining_tick, rt_tick, timer_list, value, suspend_thread,
                 due, in_serial, defunct>>

(* rt_sem_release, called by a receive interrupt, up to its rt_schedule.   *)
rt_sem_release_isr(m) ==
  /\ ~in_tick /\ ~in_serial
  /\ IF suspend_thread[m] # <<>>
     THEN /\ sched' = rt_schedule_insert_thread(sched, Head(suspend_thread[m]))
          /\ suspend_thread' = [suspend_thread EXCEPT ![m] = Tail(@)]
          /\ timer_list' = rt_timer_stop(Head(suspend_thread[m]))
          /\ in_serial' = TRUE
          /\ UNCHANGED value
     ELSE /\ value' = [value EXCEPT ![m] = @ + 1]
          /\ UNCHANGED <<sched, suspend_thread, timer_list, in_serial>>
  /\ UNCHANGED <<remaining_tick, rt_tick, due, in_tick, defunct>>

SerialSchedule ==
  /\ in_serial /\ ~in_tick
  /\ sched' = rt_schedule(sched)
  /\ in_serial' = FALSE
  /\ UNCHANGED <<remaining_tick, rt_tick, timer_list, value, suspend_thread,
                 due, in_tick, defunct>>

-----------------------------------------------------------------------------
(* The most general threads: outside a critical section they may call any  *)
(* service, inside one they only leave it; the idle thread does neither    *)
(* sleep, wait nor end.                                                    *)
ThreadCalls(t) ==
  \/ /\ sched.nest = 0
     /\ \/ /\ t # Idle
           /\ \/ \E d \in Delays : rt_thread_sleep(t, d)
              \/ \E m \in Sems : rt_sem_take(t, m)
              \/ rt_thread_exit(t)
        \/ \E new \in Threads : rt_thread_startup(t, new)
        \/ rt_enter_critical(t)
  \/ sched.nest = 1 /\ rt_exit_critical(t)
  \/ CallSchedule(t)

Interrupts ==
  \/ rt_tick_increase
  \/ TimerExpires
  \/ TimerCheckEnds
  \/ \E m \in Sems : rt_sem_release_isr(m)
  \/ SerialSchedule

KNext == (\E t \in Threads : ThreadCalls(t)) \/ rt_thread_idle_excute \/ Interrupts

KSpec == KInit /\ [][KNext]_kvars

-----------------------------------------------------------------------------
(* Types of the scheduler's, timers' and semaphores' state. *)
KTypeOK ==
  /\ sched \in [ready   : [Priorities -> Seq(Threads)],
                group   : SUBSET Priorities,
                current : Threads,
                stat    : [Threads -> {"init", "ready", "running", "suspend", "close"}],
                yield   : [Threads -> BOOLEAN],
                nest    : {0, 1}]
  /\ remaining_tick \in [Threads -> Nat]
  /\ \A t \in Threads : remaining_tick[t] \in 1 .. Slice[t]
  /\ rt_tick \in 0 .. TickMod - 1
  /\ timer_list \in Seq([thread : Threads, timeout_tick : 0 .. TickMod - 1])
  /\ value \in [Sems -> Nat]
  /\ suspend_thread \in [Sems -> Seq(Threads)]
  /\ due \subseteq Threads /\ in_tick \in BOOLEAN /\ in_serial \in BOOLEAN
  /\ defunct \subseteq Threads

Distinct(q) == \A i, j \in 1 .. Len(q) : q[i] = q[j] => i = j

(* No thread is lost and none is in two places: a thread is on the ready   *)
(* list of its priority exactly if it is ready, the bit map shows exactly  *)
(* the lists that are not empty, only the current thread runs, and every   *)
(* suspended thread has one event to wake it, a timer or a semaphore.      *)
NoThreadLost ==
  /\ \A p \in Priorities :
       /\ Elems(sched.ready[p]) = {t \in Threads : sched.stat[t] = "ready" /\ Prio[t] = p}
       /\ Distinct(sched.ready[p])
       /\ p \in sched.group <=> sched.ready[p] # <<>>
  /\ \A t \in Threads : sched.stat[t] = "running" => t = sched.current
  /\ \A i, j \in 1 .. Len(timer_list) : timer_list[i].thread = timer_list[j].thread => i = j
  /\ \A m \in Sems : Distinct(suspend_thread[m])
  /\ \A t \in Threads :
       sched.stat[t] = "suspend" <=>
         t \in Sleepers \/ \E m \in Sems : t \in Elems(suspend_thread[m])
  /\ \A m \in Sems : \A t \in Elems(suspend_thread[m]) :
       t \notin Sleepers /\ \A n \in Sems : t \in Elems(suspend_thread[n]) => n = m

(* Whenever the current thread executes its own code outside a critical    *)
(* section, it is running and no ready thread has a higher priority: a     *)
(* thread of lower priority executes only while all those above it wait.   *)
HighestRuns ==
  Executes(sched.current) /\ sched.nest = 0 =>
    /\ sched.stat[sched.current] = "running"
    /\ \A t \in Threads : sched.stat[t] = "ready" => Prio[sched.current] <= Prio[t]

(* A release is not kept while a thread waits for it. *)
NoWaiterPassed == \A m \in Sems : value[m] > 0 => suspend_thread[m] = <<>>

(* How far ahead the end of a timer is. *)
Ahead(timer) == (timer.timeout_tick - rt_tick) % TickMod

(* No timer is overdue, also when the tick counter wraps: while the clock  *)
(* interrupt is not at work each one ends after now, and within half the   *)
(* counter's range, and the list is in the order of the ends.              *)
OnTime ==
  /\ \A i \in 1 .. Len(timer_list) :
       /\ Ahead(timer_list[i]) < HalfTick
       /\ ~in_tick => Ahead(timer_list[i]) > 0
  /\ \A i, j \in 1 .. Len(timer_list) :
       i < j => Ahead(timer_list[i]) <= Ahead(timer_list[j])

(* A sleeping thread is woken in the very tick it asked for, no earlier:   *)
(* when its timer leaves the list, the end is now.                         *)
NeverEarly ==
  [][\A t \in Sleepers : t \notin Sleepers' =>
       \E i \in 1 .. Len(timer_list) : timer_list[i] = [thread |-> t, timeout_tick |-> rt_tick]]_kvars
=============================================================================
