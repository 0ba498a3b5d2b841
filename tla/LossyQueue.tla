----------------------------- MODULE LossyQueue -----------------------------
(***************************************************************************)
(* What a serial port promises its reader: the bytes it hands out come in  *)
(* the order in which they were sent, each at most once; at most capacity  *)
(* of them wait, and when one too many arrives the oldest is lost.  Bytes  *)
(* that come while the receiver is off are lost too.                       *)
(***************************************************************************)
EXTENDS Naturals, Sequences

VARIABLES capacity,  \* how many bytes may wait
          queue,  \* bytes waiting, oldest first; a byte is its serial number
          next,   \* the byte the line delivers next
          last    \* the byte last handed to the reader, 0 at first

qvars == <<capacity, queue, next, last>>

QInit == capacity \in Nat /\ queue = <<>> /\ next = 1 /\ last = 0

Arrive ==
  /\ next' = next + 1
  /\ queue' = IF Len(queue) < capacity THEN Append(queue, next) ELSE Append(Tail(queue), next)
  /\ UNCHANGED <<capacity, last>>

MissWhileOff ==
  /\ next' = next + 1
  /\ UNCHANGED <<capacity, queue, last>>

Take ==
  /\ queue # <<>>
  /\ last' = Head(queue)
  /\ queue' = Tail(queue)
  /\ UNCHANGED <<capacity, next>>

(* The capacity is chosen before any byte waits. *)
Configure ==
  /\ queue = <<>>
  /\ capacity' \in Nat
  /\ UNCHANGED <<queue, next, last>>

QNext == Configure \/ Arrive \/ MissWhileOff \/ Take

QSpec == QInit /\ [][QNext]_qvars
=============================================================================
