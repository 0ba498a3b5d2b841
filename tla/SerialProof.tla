---------------------------- MODULE SerialProof -----------------------------
(***************************************************************************)
(* Memory safety of the receive FIFO and the absence of lost wake-ups, for *)
(* every order of the four calls of an init function, every buffer size    *)
(* and every width of the semaphore.                                       *)
(***************************************************************************)
EXTENDS SerialPort, SequenceTheorems, TLAPS

(* The init function runs before the reader, and what it has called shows. *)
CallsShow ==
  /\ step <= Len(port.order) => rpc = "none"
  /\ \A i \in 1 .. Len(port.order) :
       i < step => /\ port.order[i] = "indicate" => rx_indicate
                   /\ port.order[i] = "sem_init" => sem = "listed"

(* Memory is only allocated on an open device, whose size is frozen. *)
OpenFreezes == alloc > 0 => ref_count

(* A reader that found the FIFO empty holds a count for what came since. *)
TakeFinds == rpc = "take" /\ ~Empty => value > 0 \/ wrapped

(* Before open there is nothing to read. *)
NothingBeforeOpen == alloc = 0 => Empty

Inv == TypeOK /\ NothingBeforeOpen /\ CallsShow /\ OpenFreezes /\ IndexInBuffer /\ TakeFinds /\ NoLostWakeup

-----------------------------------------------------------------------------
(* The next FIFO index stays below the configured size. *)
LEMMA IncInRange ==
  ASSUME TypeOK, NEW i \in Nat
  PROVE  Inc(i) \in Nat /\ Inc(i) < bufsz
BY SerialAssumption DEF TypeOK, Inc

(* Once the reader runs, the callback and the semaphore are in place. *)
LEMMA ReaderReady ==
  ASSUME TypeOK, CallsShow, rpc # "none"
  PROVE  rx_indicate /\ sem = "listed"
<1>1. port \in Ports /\ Len(port.order) \in Nat /\ step \in 1 .. Len(port.order) + 1
  BY SerialAssumption DEF TypeOK
<1>2. step > Len(port.order)
  BY <1>1 DEF CallsShow
<1>3. PICK i \in 1 .. Len(port.order) : port.order[i] = "indicate"
  BY <1>1, SerialAssumption DEF Calls
<1>4. PICK j \in 1 .. Len(port.order) : port.order[j] = "sem_init"
  BY <1>1, SerialAssumption DEF Calls
<1>5. i < step /\ j < step
  BY <1>1, <1>2
<1> QED
  BY <1>3, <1>4, <1>5 DEF CallsShow

(* A call of the init function advances its order by one. *)
LEMMA CallAdvances ==
  ASSUME Inv, NEW c \in Calls, Call(c),
         rx_indicate \/ c = "indicate" => rx_indicate',
         sem = "listed" \/ c = "sem_init" => sem' = "listed"
  PROVE  /\ port' = port /\ step' \in 1 .. Len(port.order) + 1
         /\ rpc = "none" /\ rpc' \in {"none", "read"}
         /\ CallsShow'
<1>1. port \in Ports /\ Len(port.order) \in Nat /\ step \in 1 .. Len(port.order)
      /\ port' = port /\ step' = step + 1 /\ port.order[step] = c
  BY SerialAssumption DEF Inv, TypeOK, Call, AtCall
<1>2. rpc = "none"
  BY <1>1 DEF Inv, CallsShow
<1>3. rpc' \in {"none", "read"} /\ (step' <= Len(port.order) => rpc' = "none")
  BY <1>1, <1>2 DEF Call
<1>4. ASSUME NEW i \in 1 .. Len(port.order), i < step'
      PROVE  /\ port.order[i] = "indicate" => rx_indicate'
             /\ port.order[i] = "sem_init" => sem' = "listed"
  <2>1. i < step \/ i = step
    BY <1>1, <1>4
  <2> QED
    BY <1>1, <1>4, <2>1 DEF Inv, CallsShow
<1>5. CallsShow'
  BY <1>1, <1>3, <1>4 DEF CallsShow
<1> QED
  BY <1>1, <1>2, <1>3, <1>5

-----------------------------------------------------------------------------
(* The state before the init function satisfies the invariant. *)
THEOREM SerialInitInv == Init => Inv
<1> SUFFICES ASSUME Init PROVE Inv
  OBVIOUS
<1>1. port \in Ports /\ Len(port.order) \in Nat /\ port.console \in BOOLEAN
  BY SerialAssumption DEF Init
<1>2. TypeOK
  <2>1. ref_count \in BOOLEAN /\ rx_indicate \in BOOLEAN /\ sem \in {"none", "typed", "listed"}
        /\ is_full \in BOOLEAN /\ halted \in BOOLEAN /\ wrapped \in BOOLEAN
    BY <1>1, Zenon DEF Init
  <2>2. 0 \in 0 .. SemMod - 1 /\ 1 \in 1 .. Len(port.order) + 1
    BY <1>1, SerialAssumption
  <2> QED
    BY <1>1, <2>1, <2>2 DEF Init, TypeOK
<1>3. CallsShow
  BY <1>1 DEF Init, CallsShow
<1>4. NothingBeforeOpen /\ OpenFreezes /\ IndexInBuffer /\ TakeFinds /\ NoLostWakeup
  BY DEF Init, NothingBeforeOpen, Empty, OpenFreezes, IndexInBuffer, TakeFinds, NoLostWakeup
<1> QED
  BY <1>2, <1>3, <1>4 DEF Inv

(* Every call, interrupt and step of the reader preserves it. *)
THEOREM SerialNextInv == Inv /\ [Next]_vars => Inv'
<1> SUFFICES ASSUME Inv, [Next]_vars PROVE Inv'
  OBVIOUS
<1> USE DEF fifo_vars, sem_vars
<1>0. TypeOK /\ NothingBeforeOpen /\ CallsShow /\ OpenFreezes /\ IndexInBuffer /\ TakeFinds /\ NoLostWakeup
  BY DEF Inv
<1>1. CASE rt_serial_control
  <2>1. port' = port /\ step' \in 1 .. Len(port.order) + 1 /\ rpc' \in {"none", "read"} /\ CallsShow'
    BY <1>1, CallAdvances DEF rt_serial_control, Calls
  <2>2. TypeOK'
    BY <1>0, <1>1, <2>1 DEF rt_serial_control, TypeOK
  <2>3. NothingBeforeOpen' /\ OpenFreezes' /\ IndexInBuffer'
    BY <1>0, <1>1 DEF rt_serial_control, NothingBeforeOpen, Empty, OpenFreezes, IndexInBuffer, TypeOK
  <2>4. TakeFinds' /\ NoLostWakeup'
    BY <2>1 DEF TakeFinds, NoLostWakeup
  <2> QED
    BY <2>1, <2>2, <2>3, <2>4 DEF Inv
<1>2. CASE rt_serial_open
  <2>1. port' = port /\ step' \in 1 .. Len(port.order) + 1 /\ rpc' \in {"none", "read"} /\ CallsShow'
    BY <1>2, CallAdvances DEF rt_serial_open, Calls
  <2>2. TypeOK'
    <3>1. CASE alloc = 0
      <4>1. /\ alloc' = bufsz /\ buffer' = [i \in 0 .. bufsz - 1 |-> 0] /\ bufsz' = bufsz
            /\ put_index' = 0 /\ get_index' = 0 /\ is_full' = FALSE /\ ref_count' = TRUE
            /\ rx_indicate' = rx_indicate /\ sem' = sem /\ value' = value
            /\ wrapped' = wrapped /\ halted' = halted /\ next' = next /\ last' = last
        BY <1>2, <3>1 DEF rt_serial_open
      <4>2. is_full' \in BOOLEAN /\ ref_count' \in BOOLEAN
        BY <4>1, Zenon
      <4>3. buffer' \in [0 .. alloc' - 1 -> Nat]
        BY <4>1
      <4> QED
        BY <1>0, <2>1, <4>1, <4>2, <4>3 DEF TypeOK
    <3>2. CASE alloc # 0
      BY <1>0, <1>2, <2>1, <3>2 DEF rt_serial_open, TypeOK
    <3> QED
      BY <3>1, <3>2
  <2>3. NothingBeforeOpen' /\ OpenFreezes' /\ IndexInBuffer'
    BY <1>0, <1>2, SerialAssumption DEF rt_serial_open, NothingBeforeOpen, OpenFreezes, IndexInBuffer, TypeOK
  <2>4. TakeFinds' /\ NoLostWakeup'
    BY <2>1 DEF TakeFinds, NoLostWakeup
  <2> QED
    BY <2>1, <2>2, <2>3, <2>4 DEF Inv
<1>3. CASE rt_device_set_rx_indicate
  <2>1. port' = port /\ step' \in 1 .. Len(port.order) + 1 /\ rpc' \in {"none", "read"} /\ CallsShow'
    BY <1>3, CallAdvances DEF rt_device_set_rx_indicate, Calls
  <2>2. TypeOK'
    BY <1>0, <1>3, <2>1 DEF rt_device_set_rx_indicate, TypeOK
  <2>3. NothingBeforeOpen' /\ OpenFreezes' /\ IndexInBuffer'
    BY <1>0, <1>3 DEF rt_device_set_rx_indicate, NothingBeforeOpen, Empty, OpenFreezes, IndexInBuffer
  <2>4. TakeFinds' /\ NoLostWakeup'
    BY <2>1 DEF TakeFinds, NoLostWakeup
  <2> QED
    BY <2>1, <2>2, <2>3, <2>4 DEF Inv
<1>4. CASE rt_sem_init
  <2>1. port' = port /\ step' \in 1 .. Len(port.order) + 1 /\ rpc' \in {"none", "read"} /\ CallsShow'
    BY <1>4, CallAdvances DEF rt_sem_init, Calls
  <2>2. TypeOK'
    BY <1>0, <1>4, <2>1, SerialAssumption DEF rt_sem_init, TypeOK
  <2>3. NothingBeforeOpen' /\ OpenFreezes' /\ IndexInBuffer'
    BY <1>0, <1>4 DEF rt_sem_init, NothingBeforeOpen, Empty, OpenFreezes, IndexInBuffer
  <2>4. TakeFinds' /\ NoLostWakeup'
    BY <2>1 DEF TakeFinds, NoLostWakeup
  <2> QED
    BY <2>1, <2>2, <2>3, <2>4 DEF Inv
<1>5. CASE rt_hw_serial_isr
  <2>1. /\ port' = port /\ step' = step /\ bufsz' = bufsz /\ alloc' = alloc
        /\ ref_count' = ref_count /\ rx_indicate' = rx_indicate /\ sem' = sem
        /\ last' = last /\ next' = next + 1 /\ alloc > 0
        /\ put_index' = Inc(put_index)
        /\ get_index' \in {get_index, Inc(get_index)}
        /\ is_full' \in BOOLEAN
        /\ alloc' > 0 => buffer' \in [0 .. alloc' - 1 -> Nat]
    BY <1>0, <1>5 DEF rt_hw_serial_isr, TypeOK
  <2>2. Inc(put_index) \in Nat /\ Inc(put_index) < bufsz /\ Inc(get_index) \in Nat /\ Inc(get_index) < bufsz
    BY <1>0, IncInRange DEF TypeOK
  <2>3. CASE rx_indicate /\ sem = "listed" /\ rpc = "suspended"
    <3>1. rpc' = "read" /\ value' = value /\ wrapped' = wrapped /\ halted' = halted
      BY <1>5, <2>3 DEF rt_hw_serial_isr, rt_sem_release
    <3>2. TypeOK'
      <4>1. /\ port' \in Ports /\ step' \in 1 .. Len(port'.order) + 1
            /\ ref_count' \in BOOLEAN /\ rx_indicate' \in BOOLEAN /\ sem' \in {"none", "typed", "listed"}
            /\ bufsz' \in {DefaultBufsz, Bufsz} /\ alloc' \in {0, DefaultBufsz, Bufsz}
            /\ last' \in Nat
        BY <1>0, <2>1 DEF TypeOK
      <4>2. put_index' \in Nat /\ get_index' \in Nat /\ next' \in Nat
        BY <1>0, <2>1, <2>2 DEF TypeOK
      <4>3. /\ rpc' \in {"none", "read", "take", "suspended"} /\ halted' \in BOOLEAN
            /\ value' \in 0 .. SemMod - 1
        BY <1>0, <3>1 DEF TypeOK
      <4>4. wrapped' \in BOOLEAN
        BY <1>0, <3>1, Zenon DEF TypeOK
      <4> QED
        BY <2>1, <4>1, <4>2, <4>3, <4>4 DEF TypeOK
    <3>3. CallsShow' /\ NothingBeforeOpen' /\ OpenFreezes' /\ IndexInBuffer'
      BY <1>0, <2>1, <2>2, <2>3, <3>1 DEF CallsShow, NothingBeforeOpen, OpenFreezes, IndexInBuffer
    <3>4. TakeFinds' /\ NoLostWakeup'
      BY <3>1 DEF TakeFinds, NoLostWakeup
    <3> QED
      BY <3>2, <3>3, <3>4 DEF Inv
  <2>4. CASE rx_indicate /\ sem = "listed" /\ rpc # "suspended"
    <3>1. /\ rpc' = rpc /\ value' = (value + 1) % SemMod
          /\ wrapped' = (wrapped \/ value + 1 = SemMod) /\ halted' = halted
      BY <1>5, <2>4 DEF rt_hw_serial_isr, rt_sem_release
    <3>2. value' \in 0 .. SemMod - 1 /\ (value' > 0 \/ value + 1 = SemMod)
      <4>1. value \in 0 .. SemMod - 1 /\ SemMod \in Nat /\ SemMod > 1
        BY <1>0, SerialAssumption DEF TypeOK
      <4>2. CASE value + 1 = SemMod
        BY <3>1, <4>1, <4>2
      <4>3. CASE value + 1 < SemMod
        BY <3>1, <4>1, <4>3
      <4> QED
        BY <4>1, <4>2, <4>3
    <3>3. wrapped' \in BOOLEAN
      BY <1>0, <3>1, Zenon DEF TypeOK
    <3>a. rpc' = rpc /\ halted' = halted /\ value' \in 0 .. SemMod - 1
      BY <3>1, <3>2
    <3>b. /\ port' \in Ports /\ step' \in 1 .. Len(port'.order) + 1
          /\ ref_count' \in BOOLEAN /\ rx_indicate' \in BOOLEAN /\ sem' \in {"none", "typed", "listed"}
          /\ halted' \in BOOLEAN /\ bufsz' \in {DefaultBufsz, Bufsz}
          /\ alloc' \in {0, DefaultBufsz, Bufsz} /\ rpc' \in {"none", "read", "take", "suspended"}
          /\ last' \in Nat
      BY <1>0, <2>1, <3>a DEF TypeOK
    <3>c. put_index' \in Nat /\ get_index' \in Nat /\ next' \in Nat
      BY <1>0, <2>1, <2>2 DEF TypeOK
    <3>4. TypeOK'
      BY <2>1, <3>a, <3>b, <3>c, <3>3 DEF TypeOK
    <3>5. CallsShow' /\ NothingBeforeOpen' /\ OpenFreezes' /\ IndexInBuffer'
      BY <1>0, <2>1, <2>2, <3>1 DEF CallsShow, NothingBeforeOpen, OpenFreezes, IndexInBuffer
    <3>6. TakeFinds' /\ NoLostWakeup'
      BY <2>4, <3>1, <3>2 DEF TakeFinds, NoLostWakeup
    <3> QED
      BY <3>4, <3>5, <3>6 DEF Inv
  <2>5. CASE ~(rx_indicate /\ sem = "listed")
    <3>1. rpc = "none"
      BY <1>0, <2>5, ReaderReady
    <3>2. rpc' = rpc /\ value' = value /\ wrapped' = wrapped /\ halted' \in BOOLEAN
      BY <1>0, <1>5, <2>5 DEF rt_hw_serial_isr, rt_sem_release, TypeOK
    <3>3. TypeOK'
      <4>1. /\ port' \in Ports /\ step' \in 1 .. Len(port'.order) + 1
            /\ ref_count' \in BOOLEAN /\ rx_indicate' \in BOOLEAN /\ sem' \in {"none", "typed", "listed"}
            /\ bufsz' \in {DefaultBufsz, Bufsz} /\ alloc' \in {0, DefaultBufsz, Bufsz}
            /\ last' \in Nat
        BY <1>0, <2>1 DEF TypeOK
      <4>2. put_index' \in Nat /\ get_index' \in Nat /\ next' \in Nat
        BY <1>0, <2>1, <2>2 DEF TypeOK
      <4>3. /\ rpc' \in {"none", "read", "take", "suspended"} /\ halted' \in BOOLEAN
            /\ value' \in 0 .. SemMod - 1
        BY <1>0, <3>2 DEF TypeOK
      <4>4. wrapped' \in BOOLEAN
        BY <1>0, <3>2, Zenon DEF TypeOK
      <4> QED
        BY <2>1, <4>1, <4>2, <4>3, <4>4 DEF TypeOK
    <3>4. CallsShow' /\ NothingBeforeOpen' /\ OpenFreezes' /\ IndexInBuffer'
      BY <1>0, <2>1, <2>2, <3>2 DEF CallsShow, NothingBeforeOpen, OpenFreezes, IndexInBuffer
    <3>5. TakeFinds' /\ NoLostWakeup'
      BY <3>1, <3>2 DEF TakeFinds, NoLostWakeup
    <3> QED
      BY <3>3, <3>4, <3>5 DEF Inv
  <2> QED
    BY <2>3, <2>4, <2>5
<1>6. CASE Missed
  <2>1. TypeOK'
    BY <1>0, <1>6 DEF Missed, TypeOK
  <2>2. CallsShow' /\ NothingBeforeOpen' /\ OpenFreezes' /\ IndexInBuffer'
    BY <1>0, <1>6 DEF Missed, CallsShow, NothingBeforeOpen, Empty, OpenFreezes, IndexInBuffer
  <2>3. TakeFinds' /\ NoLostWakeup'
    BY <1>0, <1>6 DEF Missed, TakeFinds, NoLostWakeup, Empty
  <2> QED
    BY <2>1, <2>2, <2>3 DEF Inv
<1>7. CASE rt_device_read
  <2>1. CASE Empty
    <3>1. rpc' = "take" /\ Empty'
      BY <1>7, <2>1 DEF rt_device_read, Empty
    <3>2. TypeOK'
      BY <1>0, <1>7, <2>1 DEF rt_device_read, TypeOK
    <3>3. CallsShow' /\ NothingBeforeOpen' /\ OpenFreezes' /\ IndexInBuffer'
      BY <1>0, <1>7, <2>1 DEF rt_device_read, CallsShow, NothingBeforeOpen, Empty, OpenFreezes, IndexInBuffer
    <3>4. TakeFinds' /\ NoLostWakeup'
      BY <3>1 DEF TakeFinds, NoLostWakeup
    <3> QED
      BY <3>2, <3>3, <3>4 DEF Inv
  <2>2. CASE ~Empty
    <3>0. Inc(get_index) \in Nat /\ Inc(get_index) < bufsz
      BY <1>0, IncInRange DEF TypeOK
    <3>1. rpc' = "read" /\ get_index' = Inc(get_index) /\ is_full' = FALSE /\ last' = buffer[get_index]
      BY <1>7, <2>2 DEF rt_device_read
    <3>a. buffer[get_index] \in Nat
      <4>1. alloc \in Nat /\ alloc # 0
        BY <1>0, <2>2, SerialAssumption DEF NothingBeforeOpen, TypeOK
      <4>2. get_index \in 0 .. alloc - 1
        BY <1>0, <4>1 DEF IndexInBuffer, TypeOK
      <4>3. buffer \in [0 .. alloc - 1 -> Nat]
        BY <1>0, <4>1 DEF TypeOK
      <4> QED
        BY <4>2, <4>3
    <3>2. TypeOK'
      BY <1>0, <1>7, <3>0, <3>1, <3>a DEF rt_device_read, TypeOK
    <3>3. CallsShow' /\ NothingBeforeOpen' /\ OpenFreezes' /\ IndexInBuffer'
      BY <1>0, <1>7, <3>0, <3>1 DEF rt_device_read, CallsShow, NothingBeforeOpen, Empty, OpenFreezes, IndexInBuffer
    <3>4. TakeFinds' /\ NoLostWakeup'
      BY <3>1 DEF TakeFinds, NoLostWakeup
    <3> QED
      BY <3>2, <3>3, <3>4 DEF Inv
  <2> QED
    BY <2>1, <2>2
<1>8. CASE rt_sem_take
  <2>1. TypeOK'
    BY <1>0, <1>8, SerialAssumption DEF rt_sem_take, TypeOK
  <2>2. CallsShow' /\ NothingBeforeOpen' /\ OpenFreezes' /\ IndexInBuffer'
    BY <1>0, <1>8 DEF rt_sem_take, CallsShow, NothingBeforeOpen, Empty, OpenFreezes, IndexInBuffer
  <2>3. TakeFinds' /\ NoLostWakeup'
    BY <1>0, <1>8 DEF rt_sem_take, TakeFinds, NoLostWakeup, Empty, TypeOK
  <2> QED
    BY <2>1, <2>2, <2>3 DEF Inv
<1>9. CASE rt_object_init \/ rt_ipc_object_init
  <2>1. /\ sem' \in {"none", "typed", "listed"} /\ sem # "listed"
        /\ UNCHANGED <<port, step, ref_count, bufsz, fifo_vars, rx_indicate, value, wrapped, rpc, halted,
                      next, last>>
    BY <1>9 DEF rt_object_init, rt_ipc_object_init
  <2>2. TypeOK'
    BY <1>0, <2>1 DEF TypeOK
  <2>3. CallsShow'
    BY <1>0, <2>1 DEF CallsShow
  <2>4. NothingBeforeOpen' /\ OpenFreezes' /\ IndexInBuffer' /\ TakeFinds' /\ NoLostWakeup'
    BY <1>0, <2>1 DEF NothingBeforeOpen, OpenFreezes, IndexInBuffer, TakeFinds, NoLostWakeup, Empty
  <2> QED
    BY <2>2, <2>3, <2>4 DEF Inv
<1>10. CASE UNCHANGED vars
  BY <1>0, <1>10
  DEF vars, Inv, TypeOK, NothingBeforeOpen, CallsShow, OpenFreezes, IndexInBuffer, TakeFinds, NoLostWakeup, Empty
<1> QED
  BY <1>1, <1>2, <1>3, <1>4, <1>5, <1>6, <1>7, <1>8, <1>9, <1>10 DEF Next, InitFunction, Reader

(* The serial ports are type correct, in any order of initialisation. *)
THEOREM SerialTypeCorrect == Spec => []TypeOK
<1>1. Inv => TypeOK
  BY DEF Inv
<1> QED
  BY SerialInitInv, SerialNextInv, <1>1, PTL DEF Spec

(* The interrupt handler and the reader never index outside the memory     *)
(* that rt_serial_open allocated, in any order of initialisation.          *)
THEOREM SerialIndexInBuffer == Spec => []IndexInBuffer
<1>1. Inv => IndexInBuffer
  BY DEF Inv
<1> QED
  BY SerialInitInv, SerialNextInv, <1>1, PTL DEF Spec

(* A reader never sleeps while a byte waits, unless the semaphore wrapped. *)
THEOREM SerialNoLostWakeup == Spec => []NoLostWakeup
<1>1. Inv => NoLostWakeup
  BY DEF Inv
<1> QED
  BY SerialInitInv, SerialNextInv, <1>1, PTL DEF Spec

-----------------------------------------------------------------------------
(* The refinement of the queue.  The FIFO's contents as a function of its  *)
(* parts, so that the lemmas serve the state before and after a step.      *)

IncOf(i, n) == IF i + 1 >= n THEN 0 ELSE i + 1

CountOf(put, get, n) == IF put >= get THEN put - get ELSE n - (get - put)

PlaceOf(i, get, n) == IF get + i - 1 < n THEN get + i - 1 ELSE get + i - 1 - n

ContentsOf(buf, put, get, n) == [i \in 1 .. CountOf(put, get, n) |-> buf[PlaceOf(i, get, n)]]

(* They are a sequence of at most n - 1 bytes. *)
LEMMA ContentsType ==
  ASSUME NEW n \in Nat, n > 1, NEW put \in 0 .. n - 1, NEW get \in 0 .. n - 1,
         NEW buf \in [0 .. n - 1 -> Nat]
  PROVE  /\ ContentsOf(buf, put, get, n) \in Seq(Nat)
         /\ Len(ContentsOf(buf, put, get, n)) = CountOf(put, get, n)
         /\ CountOf(put, get, n) \in 0 .. n - 1
         /\ \A i \in 1 .. CountOf(put, get, n) :
              /\ PlaceOf(i, get, n) \in 0 .. n - 1
              /\ ContentsOf(buf, put, get, n)[i] = buf[PlaceOf(i, get, n)]
<1>1. CountOf(put, get, n) \in 0 .. n - 1
  BY DEF CountOf
<1>2. \A i \in 1 .. CountOf(put, get, n) : PlaceOf(i, get, n) \in 0 .. n - 1
  BY <1>1 DEF PlaceOf
<1> DEFINE k == CountOf(put, get, n)
           e(i) == buf[PlaceOf(i, get, n)]
           c == [i \in 1 .. k |-> e(i)]
<1>3. c = ContentsOf(buf, put, get, n)
  BY Zenon DEF ContentsOf
<1>4. k \in Nat /\ \A i \in 1 .. k : e(i) \in Nat
  BY <1>1, <1>2
<1> HIDE DEF k, e
<1>5. c \in Seq(Nat) /\ Len(c) = k /\ \A i \in 1 .. k : c[i] = e(i)
  BY <1>4
<1> QED
  BY <1>1, <1>2, <1>3, <1>5, Zenon DEF k, e

(* Reading the byte at get takes the head. *)
LEMMA TakeContents ==
  ASSUME NEW n \in Nat, n > 1, NEW put \in 0 .. n - 1, NEW get \in 0 .. n - 1,
         NEW buf \in [0 .. n - 1 -> Nat], get # put
  PROVE  /\ ContentsOf(buf, put, get, n) # <<>>
         /\ Head(ContentsOf(buf, put, get, n)) = buf[get]
         /\ ContentsOf(buf, put, IncOf(get, n), n) = Tail(ContentsOf(buf, put, get, n))
<1> DEFINE c == ContentsOf(buf, put, get, n)
           d == ContentsOf(buf, put, IncOf(get, n), n)
           k == CountOf(put, get, n)
<1>0. IncOf(get, n) \in 0 .. n - 1
  BY DEF IncOf
<1>1. /\ c \in Seq(Nat) /\ Len(c) = k /\ k \in 1 .. n - 1
      /\ \A i \in 1 .. k : PlaceOf(i, get, n) \in 0 .. n - 1 /\ c[i] = buf[PlaceOf(i, get, n)]
  <2>1. k # 0
    BY DEF CountOf
  <2>2. k \in 0 .. n - 1
    BY DEF CountOf
  <2>3. /\ c \in Seq(Nat) /\ Len(c) = k
        /\ \A i \in 1 .. k : PlaceOf(i, get, n) \in 0 .. n - 1 /\ c[i] = buf[PlaceOf(i, get, n)]
    BY ContentsType, Zenon
  <2> HIDE DEF c, k
  <2>4. k \in 1 .. n - 1
    BY <2>1, <2>2
  <2> QED
    BY <2>3, <2>4, Zenon
<1>2. /\ d \in Seq(Nat) /\ Len(d) = k - 1
      /\ \A i \in 1 .. k - 1 : d[i] = buf[PlaceOf(i, IncOf(get, n), n)]
  <2>1. CountOf(put, IncOf(get, n), n) = k - 1
    BY DEF CountOf, IncOf
  <2> DEFINE m == CountOf(put, IncOf(get, n), n)
  <2>2. /\ d \in Seq(Nat) /\ Len(d) = m
        /\ \A i \in 1 .. m : d[i] = buf[PlaceOf(i, IncOf(get, n), n)]
    BY <1>0, ContentsType, Zenon
  <2> QED
    BY <2>1, <2>2, Zenon
<1>3. \A i \in 1 .. k - 1 : PlaceOf(i, IncOf(get, n), n) = PlaceOf(i + 1, get, n)
  BY DEF PlaceOf, IncOf, CountOf
<1>4. PlaceOf(1, get, n) = get
  BY DEF PlaceOf
<1> HIDE DEF c, d, k
<1>5. c # <<>> /\ Head(c) = buf[get]
  BY <1>1, <1>4
<1>6. Tail(c) \in Seq(Nat) /\ Len(Tail(c)) = k - 1 /\ \A i \in 1 .. k - 1 : Tail(c)[i] = c[i + 1]
  BY <1>1
<1>7. \A i \in 1 .. k - 1 : d[i] = Tail(c)[i]
  BY <1>1, <1>2, <1>3, <1>6
<1>8. d = Tail(c)
  BY <1>2, <1>6, <1>7, SeqEqual
<1> QED
  BY <1>5, <1>8 DEF c, d

(* A byte that finds room is appended. *)
LEMMA AppendContents ==
  ASSUME NEW n \in Nat, n > 1, NEW put \in 0 .. n - 1, NEW get \in 0 .. n - 1,
         NEW buf \in [0 .. n - 1 -> Nat], NEW x \in Nat, IncOf(put, n) # get
  PROVE  /\ CountOf(put, get, n) < n - 1
         /\ ContentsOf([buf EXCEPT ![put] = x], IncOf(put, n), get, n)
              = Append(ContentsOf(buf, put, get, n), x)
<1> DEFINE c == ContentsOf(buf, put, get, n)
           b == [buf EXCEPT ![put] = x]
           d == ContentsOf(b, IncOf(put, n), get, n)
           k == CountOf(put, get, n)
<1>0. IncOf(put, n) \in 0 .. n - 1 /\ b \in [0 .. n - 1 -> Nat]
  BY DEF IncOf
<1>1. /\ c \in Seq(Nat) /\ Len(c) = k /\ k \in 0 .. n - 1
      /\ \A i \in 1 .. k : PlaceOf(i, get, n) \in 0 .. n - 1 /\ c[i] = buf[PlaceOf(i, get, n)]
  BY ContentsType
<1>a. k < n - 1 /\ CountOf(IncOf(put, n), get, n) = k + 1
  BY DEF CountOf, IncOf
<1>2. /\ d \in Seq(Nat) /\ Len(d) = k + 1
      /\ \A i \in 1 .. k + 1 : d[i] = b[PlaceOf(i, get, n)]
  <2> DEFINE m == CountOf(IncOf(put, n), get, n)
  <2> HIDE DEF b
  <2>1. /\ d \in Seq(Nat) /\ Len(d) = m
        /\ \A i \in 1 .. m : d[i] = b[PlaceOf(i, get, n)]
    BY <1>0, ContentsType, Zenon
  <2> QED
    BY <1>a, <2>1, Zenon
<1>3. PlaceOf(k + 1, get, n) = put /\ \A i \in 1 .. k : PlaceOf(i, get, n) # put
  BY DEF PlaceOf, CountOf
<1>4. b[put] = x /\ \A j \in 0 .. n - 1 : j # put => b[j] = buf[j]
  OBVIOUS
<1> HIDE DEF c, b, d, k
<1>5. \A i \in 1 .. k : d[i] = c[i]
  <2> TAKE i \in 1 .. k
  <2>1. i \in 1 .. k + 1
    BY <1>1
  <2> DEFINE j == PlaceOf(i, get, n)
  <2>2. j \in 0 .. n - 1 /\ j # put /\ d[i] = b[j] /\ c[i] = buf[j]
    BY <1>1, <1>2, <1>3, <2>1
  <2> QED
    BY <1>4, <2>2
<1>6. d[k + 1] = x
  BY <1>1, <1>2, <1>3, <1>4
<1>7. /\ Append(c, x) \in Seq(Nat) /\ Len(Append(c, x)) = k + 1
      /\ Append(c, x)[k + 1] = x /\ \A i \in 1 .. k : Append(c, x)[i] = c[i]
  <2>1. c \in Seq(Nat) /\ Len(c) = k /\ x \in Nat
    BY <1>1
  <2>2. Append(c, x) \in Seq(Nat) /\ Len(Append(c, x)) = k + 1
    BY <2>1
  <2>3. Append(c, x)[k + 1] = x
    BY <2>1
  <2>4. \A i \in 1 .. k : Append(c, x)[i] = c[i]
    BY <2>1
  <2> QED
    BY <2>2, <2>3, <2>4
<1>8. \A i \in 1 .. k + 1 : d[i] = Append(c, x)[i]
  <2> TAKE i \in 1 .. k + 1
  <2>1. i \in 1 .. k \/ i = k + 1
    BY <1>1
  <2> QED
    BY <2>1, <1>5, <1>6, <1>7
<1>9. d = Append(c, x)
  BY <1>2, <1>7, <1>8, SeqEqual
<1> QED
  BY <1>a, <1>9 DEF c, d, b, k

(* A byte that finds none drops the oldest. *)
LEMMA OverflowContents ==
  ASSUME NEW n \in Nat, n > 1, NEW put \in 0 .. n - 1, NEW get \in 0 .. n - 1,
         NEW buf \in [0 .. n - 1 -> Nat], NEW x \in Nat, IncOf(put, n) = get
  PROVE  /\ CountOf(put, get, n) = n - 1
         /\ ContentsOf([buf EXCEPT ![put] = x], get, IncOf(get, n), n)
              = Append(Tail(ContentsOf(buf, put, get, n)), x)
<1>1. IncOf(get, n) \in 0 .. n - 1 /\ get # put /\ IncOf(get, n) # get
  BY DEF IncOf
<1>2. CountOf(put, get, n) = n - 1
  BY DEF CountOf, IncOf
<1>3. ContentsOf(buf, put, IncOf(get, n), n) = Tail(ContentsOf(buf, put, get, n))
  BY <1>1, TakeContents
<1>4. ContentsOf([buf EXCEPT ![put] = x], IncOf(put, n), IncOf(get, n), n)
        = Append(ContentsOf(buf, put, IncOf(get, n), n), x)
  <2> DEFINE g == IncOf(get, n)
  <2>1. g \in 0 .. n - 1 /\ IncOf(put, n) # g
    BY <1>1
  <2> HIDE DEF g
  <2>2. ContentsOf([buf EXCEPT ![put] = x], IncOf(put, n), g, n)
          = Append(ContentsOf(buf, put, g, n), x)
    BY <2>1, AppendContents
  <2> QED
    BY <2>2 DEF g
<1> QED
  BY <1>2, <1>3, <1>4

(* The flag is set only while the FIFO holds one byte less than it can. *)
FullOK == is_full => get_index = Inc(put_index)

(* What a FIFO in use is made of. *)
LEMMA InUse ==
  ASSUME Inv, alloc > 0
  PROVE  /\ bufsz \in Nat /\ bufsz > 1
         /\ put_index \in 0 .. bufsz - 1 /\ get_index \in 0 .. bufsz - 1
         /\ buffer \in [0 .. bufsz - 1 -> Nat]
BY SerialAssumption DEF Inv, TypeOK, IndexInBuffer

(* Before open the queue is empty. *)
LEMMA NothingContained ==
  ASSUME NEW buf, NEW i \in Int, NEW n
  PROVE  ContentsOf(buf, i, i, n) = <<>>
<1>1. CountOf(i, i, n) = 0
  BY DEF CountOf
<1> QED
  BY <1>1 DEF ContentsOf

LEMMA ContentsNow == Contents = ContentsOf(buffer, put_index, get_index, bufsz)
BY Zenon DEF Contents, ContentsOf, Count, CountOf, Place, PlaceOf

LEMMA ContentsNext == Contents' = ContentsOf(buffer', put_index', get_index', bufsz')
BY Zenon DEF Contents, ContentsOf, Count, CountOf, Place, PlaceOf

LEMMA IncNow == ASSUME NEW i PROVE Inc(i) = IncOf(i, bufsz)
BY DEF Inc, IncOf

(* The flag tells the truth in every step. *)
LEMMA FullStep == Inv /\ FullOK /\ [Next]_vars => FullOK'
<1> SUFFICES ASSUME Inv, FullOK, [Next]_vars PROVE FullOK'
  OBVIOUS
<1> USE DEF fifo_vars, sem_vars
<1>0. alloc = 0 => ~is_full
  BY DEF Inv, NothingBeforeOpen, Empty
<1>1. CASE rt_serial_control
  <2>1. bufsz' = bufsz \/ ~is_full
    BY <1>0, <1>1, SerialAssumption DEF rt_serial_control, Inv, OpenFreezes, TypeOK
  <2> QED
    BY <1>1, <2>1 DEF rt_serial_control, FullOK, Inc
<1>2. CASE rt_serial_open
  BY <1>2 DEF rt_serial_open, FullOK, Inc
<1>3. CASE rt_hw_serial_isr
  <2>1. /\ bufsz' = bufsz /\ alloc > 0 /\ put_index' = Inc(put_index)
        /\ get_index' = IF Inc(put_index) = get_index THEN Inc(get_index) ELSE get_index
        /\ is_full' = (is_full \/ Inc(put_index) = get_index)
    BY <1>3 DEF rt_hw_serial_isr
  <2>2. is_full' => Inc(put_index) = get_index
    BY <2>1 DEF FullOK
  <2> QED
    BY <2>1, <2>2 DEF FullOK, Inc
<1>4. CASE rt_device_read
  BY <1>4 DEF rt_device_read, FullOK, Inc
<1>5. CASE \/ rt_device_set_rx_indicate \/ rt_object_init \/ rt_ipc_object_init \/ rt_sem_init
           \/ Missed \/ rt_sem_take \/ UNCHANGED vars
  BY <1>5
  DEF rt_device_set_rx_indicate, rt_object_init, rt_ipc_object_init, rt_sem_init, Missed, rt_sem_take,
      vars, FullOK, Inc
<1> QED
  BY <1>1, <1>2, <1>3, <1>4, <1>5 DEF Next, InitFunction, Reader

(* Before the init function the port is an empty queue, *)
LEMMA QueueInit == Init => Queue!QInit
<1> SUFFICES ASSUME Init PROVE Queue!QInit
  OBVIOUS
<1>1. Contents = <<>>
  BY ContentsNow, NothingContained DEF Init
<1> QED
  BY <1>1, SerialAssumption DEF Init, Queue!QInit

(* and each of its steps is one of the queue's, or none. *)
LEMMA QueueStep == Inv /\ FullOK /\ [Next]_vars => [Queue!QNext]_(Queue!qvars)
<1> SUFFICES ASSUME Inv, FullOK, [Next]_vars PROVE [Queue!QNext]_(Queue!qvars)
  OBVIOUS
<1> USE DEF fifo_vars, sem_vars
<1>0. /\ alloc = 0 => get_index = put_index
      /\ get_index \in Int /\ put_index \in Int
      /\ bufsz \in Nat /\ bufsz > 1 /\ alloc \in Nat
  BY SerialAssumption DEF Inv, NothingBeforeOpen, Empty, TypeOK
<1>a. alloc = 0 => Contents = <<>>
  BY <1>0, ContentsNow, NothingContained
<1>1. CASE rt_serial_control
  <2>1. /\ buffer' = buffer /\ put_index' = put_index /\ get_index' = get_index
        /\ next' = next /\ last' = last
        /\ bufsz' = bufsz \/ (alloc = 0 /\ bufsz' = Bufsz)
    BY <1>0, <1>1 DEF rt_serial_control, Inv, OpenFreezes
  <2>2. CASE bufsz' = bufsz
    <3>1. Contents' = Contents
      BY <2>1, <2>2, ContentsNow, ContentsNext
    <3> QED
      BY <2>1, <2>2, <3>1 DEF Queue!qvars
  <2>3. CASE alloc = 0 /\ bufsz' = Bufsz
    <3>1. Contents' = <<>>
      BY <1>0, <2>1, <2>3, ContentsNext, NothingContained
    <3>2. bufsz' - 1 \in Nat
      BY <2>3, SerialAssumption
    <3> QED
      BY <1>a, <2>1, <2>3, <3>1, <3>2 DEF Queue!QNext, Queue!Configure
  <2> QED
    BY <2>1, <2>2, <2>3
<1>2. CASE rt_serial_open
  <2>1. bufsz' = bufsz /\ next' = next /\ last' = last
    BY <1>2 DEF rt_serial_open
  <2>2. CASE alloc = 0
    <3>1. put_index' = 0 /\ get_index' = 0
      BY <1>2, <2>2 DEF rt_serial_open
    <3>2. Contents' = <<>>
      BY <3>1, ContentsNext, NothingContained
    <3> QED
      BY <1>a, <2>1, <2>2, <3>2 DEF Queue!qvars
  <2>3. CASE alloc # 0
    <3>1. Contents' = Contents
      BY <1>2, <2>1, <2>3, ContentsNow, ContentsNext DEF rt_serial_open
    <3> QED
      BY <2>1, <3>1 DEF Queue!qvars
  <2> QED
    BY <2>2, <2>3
<1>3. CASE rt_hw_serial_isr
  <2>1. /\ bufsz' = bufsz /\ last' = last /\ next' = next + 1 /\ alloc > 0
        /\ buffer' = [buffer EXCEPT ![put_index] = next]
        /\ put_index' = IncOf(put_index, bufsz)
        /\ get_index' = IF IncOf(put_index, bufsz) = get_index
                        THEN IncOf(get_index, bufsz) ELSE get_index
    BY <1>3, IncNow DEF rt_hw_serial_isr
  <2>2. /\ put_index \in 0 .. bufsz - 1 /\ get_index \in 0 .. bufsz - 1
        /\ buffer \in [0 .. bufsz - 1 -> Nat] /\ next \in Nat
    BY <2>1, InUse DEF Inv, TypeOK
  <2>3. Len(Contents) = CountOf(put_index, get_index, bufsz)
    BY <1>0, <2>2, ContentsNow, ContentsType
  <2>4. Contents' = IF Len(Contents) < bufsz - 1 THEN Append(Contents, next)
                    ELSE Append(Tail(Contents), next)
    <3>1. CASE IncOf(put_index, bufsz) = get_index
      <4>1. /\ CountOf(put_index, get_index, bufsz) = bufsz - 1
            /\ ContentsOf([buffer EXCEPT ![put_index] = next], get_index,
                          IncOf(get_index, bufsz), bufsz)
                 = Append(Tail(ContentsOf(buffer, put_index, get_index, bufsz)), next)
        BY <1>0, <2>2, <3>1, OverflowContents
      <4>2. put_index' = get_index /\ get_index' = IncOf(get_index, bufsz)
        BY <2>1, <3>1
      <4>3. Contents' = Append(Tail(Contents), next)
        BY <2>1, <4>1, <4>2, ContentsNow, ContentsNext, Zenon
      <4>4. ~(Len(Contents) < bufsz - 1)
        BY <1>0, <2>3, <4>1
      <4> QED
        BY <4>3, <4>4
    <3>2. CASE IncOf(put_index, bufsz) # get_index
      <4>1. /\ CountOf(put_index, get_index, bufsz) < bufsz - 1
            /\ ContentsOf([buffer EXCEPT ![put_index] = next], IncOf(put_index, bufsz),
                          get_index, bufsz)
                 = Append(ContentsOf(buffer, put_index, get_index, bufsz), next)
        BY <1>0, <2>2, <3>2, AppendContents
      <4>2. get_index' = get_index
        BY <2>1, <3>2
      <4>3. Contents' = Append(Contents, next)
        BY <2>1, <4>1, <4>2, ContentsNow, ContentsNext, Zenon
      <4>4. Len(Contents) < bufsz - 1
        BY <2>3, <4>1
      <4> QED
        BY <4>3, <4>4
    <3> QED
      BY <3>1, <3>2
  <2> QED
    BY <2>1, <2>4 DEF Queue!QNext, Queue!Arrive
<1>4. CASE Missed
  <2>1. Contents' = Contents /\ bufsz' = bufsz /\ last' = last /\ next' = next + 1
    BY <1>4, ContentsNow, ContentsNext DEF Missed
  <2> QED
    BY <2>1 DEF Queue!QNext, Queue!MissWhileOff
<1>5. CASE rt_device_read
  <2>1. CASE Empty
    <3>1. Contents' = Contents /\ bufsz' = bufsz /\ last' = last /\ next' = next
      BY <1>5, <2>1, ContentsNow, ContentsNext DEF rt_device_read
    <3> QED
      BY <3>1 DEF Queue!qvars
  <2>2. CASE ~Empty
    <3>1. /\ bufsz' = bufsz /\ next' = next /\ buffer' = buffer /\ put_index' = put_index
          /\ last' = buffer[get_index] /\ get_index' = IncOf(get_index, bufsz)
      BY <1>5, <2>2, IncNow DEF rt_device_read
    <3>2. alloc > 0
      BY <1>0, <2>2 DEF Inv, NothingBeforeOpen
    <3>3. /\ put_index \in 0 .. bufsz - 1 /\ get_index \in 0 .. bufsz - 1
          /\ buffer \in [0 .. bufsz - 1 -> Nat]
      BY <3>2, InUse
    <3>4. get_index # put_index
      BY <1>0, <2>2, <3>3 DEF Empty, FullOK, Inc
    <3>5. /\ Contents # <<>> /\ Head(Contents) = buffer[get_index]
          /\ ContentsOf(buffer, put_index, IncOf(get_index, bufsz), bufsz) = Tail(Contents)
      BY <1>0, <3>3, <3>4, TakeContents, ContentsNow
    <3>6. Contents' = Tail(Contents)
      BY <3>1, <3>5, ContentsNext, Zenon
    <3> QED
      BY <3>1, <3>5, <3>6 DEF Queue!QNext, Queue!Take
  <2> QED
    BY <2>1, <2>2
<1>6. CASE \/ rt_device_set_rx_indicate \/ rt_object_init \/ rt_ipc_object_init \/ rt_sem_init
           \/ rt_sem_take \/ UNCHANGED vars
  <2>1. Contents' = Contents /\ bufsz' = bufsz /\ last' = last /\ next' = next
    BY <1>6, ContentsNow, ContentsNext
    DEF rt_device_set_rx_indicate, rt_object_init, rt_ipc_object_init, rt_sem_init, rt_sem_take, vars
  <2> QED
    BY <2>1 DEF Queue!qvars
<1> QED
  BY <1>1, <1>2, <1>3, <1>4, <1>5, <1>6 DEF Next, InitFunction, Reader

(* Every serial port of the boat, whatever the order of its initialisation *)
(* and the size of its buffer, is a queue that hands out bytes in order,   *)
(* each at most once, and loses only the oldest when it overflows.         *)
THEOREM SerialImplementsQueue == Spec => ImplementsQueue
<1>1. Init => FullOK
  BY DEF Init, FullOK
<1> QED
  BY SerialInitInv, SerialNextInv, FullStep, QueueInit, QueueStep, <1>1, PTL
  DEF Spec, ImplementsQueue, Queue!QSpec
=============================================================================
