----------------------------- MODULE SerialPort -----------------------------
(***************************************************************************)
(* A receiving UART as every device thread of the boat uses one: the init  *)
(* function of the driver (init_compass, init_gps, init_lora,              *)
(* init_raspberry, init_water), the receive FIFO and interrupt handler of  *)
(* rt-thread/components/drivers/serial/serial.c, the semaphore of          *)
(* rt-thread/src/ipc.c and the read loop                                   *)
(*     while (rt_device_read(dev, 0, &c, 1) != 1) rt_sem_take(&sem, ...);  *)
(*                                                                         *)
(* The five init functions make the same four calls in different orders,   *)
(* one of them (raspberry) on the console, which is already open; port is  *)
(* the driver this behaviour is about.  A byte is its serial number.       *)
(***************************************************************************)
EXTENDS Integers, Sequences

CONSTANTS Ports,         \* the drivers: order of the calls, and whether on the console
          DefaultBufsz,  \* RT_SERIAL_RB_BUFSZ: FIFO size before any configuration
          Bufsz,         \* the size the init function asks for
          SemMod,        \* the semaphore's value wraps here (2^16)
          MaxBytes       \* bound on the bytes of a behaviour

Calls == {"config", "open", "indicate", "sem_init"}

ASSUME SerialAssumption ==
  /\ Ports \subseteq [order : Seq(Calls), console : BOOLEAN]
  /\ \A p \in Ports : \A c \in Calls : \E i \in 1 .. Len(p.order) : p.order[i] = c
  /\ DefaultBufsz \in Nat /\ DefaultBufsz > 1 /\ Bufsz \in Nat /\ Bufsz > 1
  /\ SemMod \in Nat /\ SemMod > 1 /\ MaxBytes \in Nat

VARIABLES port,
          step,       \* the next call of its init function; past its end the reader runs
          ref_count,  \* the device is open (for the console: transmit only)
          bufsz,      \* serial->config.bufsz
          alloc,      \* bytes allocated for the FIFO, 0 before
          buffer, put_index, get_index, is_full,
          rx_indicate,\* the callback is set
          sem,        \* how far the semaphore object is initialised
          value,      \* of the semaphore
          rpc,        \* where the reader thread is
          halted,     \* an RT_ASSERT failed: rt_assert_handler loops for ever
          next,       \* the byte that comes next on the line
          last,       \* the byte last read
          wrapped     \* history: the semaphore's value has wrapped to 0

fifo_vars == <<alloc, buffer, put_index, get_index, is_full>>
sem_vars  == <<sem, value, wrapped>>
vars == <<port, step, ref_count, bufsz, fifo_vars, rx_indicate, sem_vars, rpc, halted, next, last>>

Init ==
  /\ port \in Ports /\ step = 1
  /\ ref_count = port.console
  /\ bufsz = DefaultBufsz
  /\ alloc = 0 /\ buffer = <<>> /\ put_index = 0 /\ get_index = 0 /\ is_full = FALSE
  /\ rx_indicate = FALSE
  /\ sem = "none" /\ value = 0 /\ wrapped = FALSE
  /\ rpc = "none" /\ halted = FALSE
  /\ next = 1 /\ last = 0

-----------------------------------------------------------------------------
(* The init function.  Its last call is followed by rt_thread_startup.     *)
AtCall(c) == ~halted /\ step <= Len(port.order) /\ port.order[step] = c

Call(c) ==
  /\ AtCall(c)
  /\ UNCHANGED port
  /\ step' = step + 1
  /\ rpc' = IF step = Len(port.order) THEN "read" ELSE rpc

(* Mutant: the size is stored although the device is open. *)
rt_serial_control_unguarded ==
  /\ Call("config")
  /\ bufsz' = Bufsz
  /\ UNCHANGED <<ref_count, fifo_vars, rx_indicate, sem_vars, halted, next, last>>

(* RT_DEVICE_CTRL_CONFIG: refused (RT_EBUSY, which no caller looks at) if  *)
(* it would change the buffer size of an open device.                      *)
rt_serial_control ==
  /\ Call("config")
  /\ bufsz' = IF bufsz # Bufsz /\ ref_count THEN bufsz ELSE Bufsz
  /\ UNCHANGED <<ref_count, fifo_vars, rx_indicate, sem_vars, halted, next, last>>

rt_serial_open ==
  /\ Call("open")
  /\ ref_count' = TRUE
  /\ IF alloc = 0
     THEN /\ alloc' = bufsz
          /\ buffer' = [i \in 0 .. bufsz - 1 |-> 0]
          /\ put_index' = 0 /\ get_index' = 0 /\ is_full' = FALSE
     ELSE UNCHANGED fifo_vars
  /\ UNCHANGED <<bufsz, rx_indicate, sem_vars, halted, next, last>>

rt_device_set_rx_indicate ==
  /\ Call("indicate")
  /\ rx_indicate' = TRUE
  /\ UNCHANGED <<ref_count, bufsz, fifo_vars, sem_vars, halted, next, last>>

(* rt_sem_init sets the type of the object, the list of waiting threads    *)
(* and the value one after the other, with interrupts enabled.             *)
rt_object_init ==
  /\ AtCall("sem_init") /\ sem = "none"
  /\ sem' = "typed"
  /\ UNCHANGED <<port, step, rpc, ref_count, bufsz, fifo_vars, rx_indicate, value, wrapped, halted,
                 next, last>>

rt_ipc_object_init ==
  /\ AtCall("sem_init") /\ sem = "typed"
  /\ sem' = "listed"
  /\ UNCHANGED <<port, step, rpc, ref_count, bufsz, fifo_vars, rx_indicate, value, wrapped, halted,
                 next, last>>

rt_sem_init ==
  /\ Call("sem_init") /\ sem = "listed"
  /\ value' = 0
  /\ UNCHANGED <<ref_count, bufsz, fifo_vars, rx_indicate, sem, wrapped, halted, next, last>>

-----------------------------------------------------------------------------
Inc(i) == IF i + 1 >= bufsz THEN 0 ELSE i + 1

(* Mutant: a release nobody waits for is not counted. *)
rt_sem_release_uncounted ==
  /\ halted' = (halted \/ sem # "listed")
  /\ rpc' = IF sem = "listed" /\ rpc = "suspended" THEN "read" ELSE rpc
  /\ UNCHANGED <<value, wrapped>>

(* rt_sem_release from the callback: wake the reader if it is suspended,   *)
(* else count up.  An object that is not yet a semaphore fails an          *)
(* assertion; one whose list is still null seems to have a waiter, and     *)
(* what stands there is no thread: the next assertion fails, or it faults. *)
rt_sem_release ==
  IF sem # "listed"
  THEN halted' = TRUE /\ UNCHANGED <<rpc, value, wrapped>>
  ELSE /\ UNCHANGED halted
       /\ IF rpc = "suspended"
          THEN rpc' = "read" /\ UNCHANGED <<value, wrapped>>
          ELSE /\ value' = (value + 1) % SemMod
               /\ wrapped' = (wrapped \/ value + 1 = SemMod)
               /\ UNCHANGED rpc

(* The receive interrupt stores the byte, drops the oldest one if the FIFO *)
(* was full, and calls rx_indicate.                                        *)
rt_hw_serial_isr ==
  LET put  == Inc(put_index)
      full == put = get_index
  IN  /\ ~halted /\ alloc > 0 /\ next <= MaxBytes
      /\ buffer' = [buffer EXCEPT ![put_index] = next]
      /\ put_index' = put
      /\ get_index' = IF full THEN Inc(get_index) ELSE get_index
      /\ is_full' = (is_full \/ full)
      /\ IF rx_indicate THEN rt_sem_release ELSE UNCHANGED <<halted, rpc, value, wrapped>>
      /\ next' = next + 1
      /\ UNCHANGED <<port, step, ref_count, bufsz, alloc, rx_indicate, sem, last>>

(* A byte that comes while the receive interrupt is off. *)
Missed ==
  /\ ~halted /\ alloc = 0 /\ next <= MaxBytes
  /\ next' = next + 1
  /\ UNCHANGED <<port, step, ref_count, bufsz, fifo_vars, rx_indicate, sem_vars, rpc, halted, last>>

-----------------------------------------------------------------------------
Empty == get_index = put_index /\ ~is_full

(* Mutant: reading a byte does not clear is_full. *)
rt_device_read_stays_full ==
  /\ ~halted /\ rpc = "read"
  /\ IF Empty
     THEN rpc' = "take" /\ UNCHANGED <<last, get_index>>
     ELSE last' = buffer[get_index] /\ get_index' = Inc(get_index) /\ UNCHANGED rpc
  /\ UNCHANGED <<port, step, ref_count, bufsz, alloc, buffer, put_index, is_full, rx_indicate, sem_vars, halted, next>>

rt_device_read ==
  /\ ~halted /\ rpc = "read"
  /\ IF Empty
     THEN rpc' = "take" /\ UNCHANGED <<last, get_index, is_full>>
     ELSE /\ last' = buffer[get_index]
          /\ get_index' = Inc(get_index)
          /\ is_full' = FALSE
          /\ UNCHANGED rpc
  /\ UNCHANGED <<port, step, ref_count, bufsz, alloc, buffer, put_index, rx_indicate, sem_vars, halted, next>>

(* Mutant: the value is counted down without looking whether it is 0. *)
rt_sem_take_unchecked ==
  /\ ~halted /\ rpc = "take"
  /\ value' = value - 1 /\ rpc' = "read"
  /\ UNCHANGED <<port, step, ref_count, bufsz, fifo_vars, rx_indicate, sem, wrapped, halted, next, last>>

rt_sem_take ==
  /\ ~halted /\ rpc = "take"
  /\ IF value > 0
     THEN value' = value - 1 /\ rpc' = "read"
     ELSE rpc' = "suspended" /\ UNCHANGED value
  /\ UNCHANGED <<port, step, ref_count, bufsz, fifo_vars, rx_indicate, sem, wrapped, halted, next, last>>

Reader == rt_device_read \/ rt_sem_take

InitFunction ==
  \/ rt_serial_control \/ rt_serial_open \/ rt_device_set_rx_indicate
  \/ rt_object_init \/ rt_ipc_object_init \/ rt_sem_init

Next == InitFunction \/ rt_hw_serial_isr \/ Missed \/ Reader

(* main and the reader are scheduled; the line may stay silent for ever. *)
Fairness == WF_vars(InitFunction) /\ WF_vars(Reader)

Spec == Init /\ [][Next]_vars /\ Fairness

-----------------------------------------------------------------------------
(* Types of the driver's, the FIFO's and the semaphore's fields. *)
TypeOK ==
  /\ port \in Ports /\ step \in 1 .. Len(port.order) + 1
  /\ ref_count \in BOOLEAN /\ rx_indicate \in BOOLEAN /\ sem \in {"none", "typed", "listed"}
  /\ is_full \in BOOLEAN /\ halted \in BOOLEAN /\ wrapped \in BOOLEAN
  /\ bufsz \in {DefaultBufsz, Bufsz} /\ alloc \in {0, DefaultBufsz, Bufsz}
  /\ put_index \in Nat /\ get_index \in Nat
  /\ alloc > 0 => buffer \in [0 .. alloc - 1 -> Nat]
  /\ value \in 0 .. SemMod - 1
  /\ rpc \in {"none", "read", "take", "suspended"}
  /\ next \in Nat /\ last \in Nat

(* The FIFO indices, which wrap at the configured size, stay inside the    *)
(* memory that open allocated, in whatever order a driver configures and   *)
(* opens the port.                                                         *)
IndexInBuffer ==
  alloc > 0 => put_index < alloc /\ get_index < alloc /\ bufsz = alloc

(* A thread never sleeps on the semaphore while a byte waits in the FIFO:  *)
(* the byte may arrive between its empty read and its take.  The only      *)
(* exception is a semaphore whose value has wrapped.                       *)
NoLostWakeup == rpc = "suspended" /\ ~Empty => wrapped

(* As long as the semaphore has not wrapped, whatever reaches the FIFO is  *)
(* read: the FIFO is empty again and again.                                *)
AllRead == []<>(step > Len(port.order) => Empty \/ wrapped)

(* RT_ASSERT(rt_object_get_type(...) == RT_Object_Class_Semaphore) in      *)
(* rt_sem_release never fails.                                             *)
NoAssertFailure == ~halted

-----------------------------------------------------------------------------
Count == IF put_index >= get_index THEN put_index - get_index
                                   ELSE bufsz - (get_index - put_index)

(* The index of the i-th byte from get_index on. *)
Place(i) == IF get_index + i - 1 < bufsz THEN get_index + i - 1 ELSE get_index + i - 1 - bufsz

Contents == [i \in 1 .. Count |-> buffer[Place(i)]]

Queue == INSTANCE LossyQueue WITH queue <- Contents, capacity <- bufsz - 1

(* The port implements the lossy queue. *)
ImplementsQueue == Queue!QSpec
=============================================================================
