------------------------------ MODULE FrameRx ------------------------------
(***************************************************************************)
(* How the receivers find frames in their byte streams.  The five loops    *)
(* (lora_rec of raspberry.c and of lora.c, check_radar, check_gps,         *)
(* check_water) have one shape,                                            *)
(*                                                                         *)
(*   if (header) store; else if (index != 0) store;                        *)
(*   if (end of frame) { apply; index = 0; }                               *)
(*   if (index > cut) index = 0;                                           *)
(*                                                                         *)
(* and differ in what a receiver record says:                              *)
(*   length    bytes of a frame                                            *)
(*   head      header bytes; of two only the second is stored              *)
(*   tail      trailer bytes; 0 if a frame ends by its length              *)
(*   restarts  a header clears what was collected                          *)
(*   blind     a trailer counts even if nothing was collected              *)
(*   latch     which byte of the frame is kept outside the buffer as its   *)
(*             type: 0 none, 1 the header, 2 the byte at index 1           *)
(*   reads     places of the buffer that an application reads              *)
(*   cut, size the index above which the buffer is abandoned, its length   *)
(*   binary    data may look like a header or a trailer                    *)
(*                                                                         *)
(* The line loses bytes (the FIFO drops the oldest, see SerialPort) and    *)
(* binary data aliases header and trailer; both make a frame dirty.  A     *)
(* byte is its frame and its position in it.                               *)
(***************************************************************************)
EXTENDS Integers, Sequences

CONSTANTS Receivers,
          MaxFrames, MaxNoise  \* bounds on the frames and on the lost or aliased bytes

Receiver == [length : Nat, head : {1, 2}, tail : {0, 1, 2}, restarts : BOOLEAN, blind : BOOLEAN,
             latch : {0, 1, 2}, reads : Nat, cut : Nat, size : Nat, binary : BOOLEAN]

(* The cut leaves room for the string terminator behind the next byte, and *)
(* a frame is not abandoned before its last byte.  But for the blind one,  *)
(* a receiver reads whole frames with a header of one byte, and a trailer  *)
(* only ends frames of text; the blind one, the radar's, waits for two     *)
(* trailer bytes and reads part of what it has stored.                     *)
ASSUME ReceiverAssumption ==
  /\ Receivers \subseteq Receiver
  /\ \A r \in Receivers :
       /\ r.cut + 1 < r.size /\ r.length > r.head + r.tail /\ r.length - r.head <= r.cut
       /\ ~r.blind => /\ r.head = 1 /\ r.reads = r.length
                      /\ r.tail = 0 \/ (r.tail = 1 /\ ~r.binary)
       /\ r.blind => /\ r.head = 2 /\ r.tail = 2 /\ ~r.restarts /\ r.latch = 0
                     /\ r.reads \in 1 .. r.length - 1
  /\ MaxFrames \in Nat /\ MaxNoise \in Nat

VARIABLES rx,          \* the receiver this behaviour is about
          frame, pos,  \* the byte that comes next
          index, buffer,
          pre,         \* class of the byte before
          kind,        \* the type kept outside the buffer
          results,     \* history: what was applied since the last frame began
          dirty, noise \* history: frames with a lost or aliased byte, their number

line_vars == <<frame, pos, dirty, noise>>
vars == <<rx, line_vars, index, buffer, pre, kind, results>>

Nothing == <<0, 0>>

Init ==
  /\ rx \in Receivers
  /\ frame = 1 /\ pos = 1 /\ dirty = {} /\ noise = 0
  /\ index = 0 /\ buffer = [i \in 1 .. rx.size |-> Nothing]
  /\ pre = "data" /\ kind = Nothing
  /\ results = <<>>

-----------------------------------------------------------------------------
Class == {"head", "tail", "data"}

(* What the byte at a position is when it does not alias. *)
ClassAt(p) == IF p <= rx.head THEN "head" ELSE IF p > rx.length - rx.tail THEN "tail" ELSE "data"

(* The line moves on to the next byte. *)
Advance(noisy) ==
  /\ frame <= MaxFrames
  /\ noisy => noise < MaxNoise
  /\ noise' = IF noisy THEN noise + 1 ELSE noise
  /\ dirty' = IF noisy THEN dirty \cup {frame} ELSE dirty
  /\ IF pos = rx.length THEN frame' = frame + 1 /\ pos' = 1 ELSE frame' = frame /\ pos' = pos + 1

Starts(c) == c = "head" /\ (rx.head = 2 => pre = "head")

(* The index after the byte is stored, or 0 if it is not. *)
Stored(c) == IF Starts(c) THEN (IF rx.restarts THEN 1 ELSE index + 1)
                          ELSE IF index # 0 THEN index + 1 ELSE 0

Ends(c, n) ==
  /\ CASE rx.tail = 0 -> n = rx.length
       [] rx.tail = 1 -> c = "tail"
       [] rx.tail = 2 -> c = "tail" /\ pre = "tail"
  /\ n # 0 \/ rx.blind

Kind(c, n) ==
  IF (rx.latch = 1 /\ Starts(c)) \/ (rx.latch = 2 /\ ~Starts(c) /\ n = 2) THEN <<frame, pos>> ELSE kind

(* Mutants of AfterByte: the buffer is abandoned one byte late; never; and *)
(* the index is not cleared after a frame.                                 *)
AfterByteLate(ends, n) == IF ends \/ n > rx.cut + 1 THEN 0 ELSE n

AfterByteUncut(ends, n) == IF ends THEN 0 ELSE n

AfterByteUncleared(ends, n) == IF n > rx.cut THEN 0 ELSE n

AfterByte(ends, n) == IF ends \/ n > rx.cut THEN 0 ELSE n

(* The frame that buffer and type hold from end to end, or 0. *)
Whole(buf, k) ==
  LET Holds(f) == /\ \A i \in 1 .. rx.reads : buf[i] = <<f, i + rx.head - 1>>
                  /\ rx.latch # 0 => k = <<f, rx.latch>>
  IN  IF \E f \in 1 .. frame : Holds(f) THEN CHOOSE f \in 1 .. frame : Holds(f) ELSE 0

(* The byte goes to place n; text frames get a string terminator behind it. *)
Collected(ends, n) ==
  [i \in 1 .. rx.size |-> IF n # 0 /\ i = n THEN <<frame, pos>>
                         ELSE IF ends /\ rx.tail = 1 /\ i = n + 1 THEN Nothing
                         ELSE buffer[i]]

(* One turn of the loop, for a byte that looks like class c. *)
Receive(c) ==
  LET n    == Stored(c)
      ends == Ends(c, n)
  IN  /\ Advance(c # ClassAt(pos))
      /\ c # ClassAt(pos) => rx.binary
      /\ buffer' = Collected(ends, n)
      /\ kind' = Kind(c, n)
      /\ results' = (IF pos = 1 THEN <<>> ELSE results)
                      \o (IF ends THEN <<Whole(buffer', kind')>> ELSE <<>>)
      /\ index' = AfterByte(ends, n)
      /\ pre' = c
      /\ UNCHANGED rx

Lose ==
  /\ Advance(TRUE)
  /\ results' = IF pos = 1 THEN <<>> ELSE results
  /\ UNCHANGED <<rx, index, buffer, pre, kind>>

Next == Lose \/ \E c \in Class : Receive(c)

Spec == Init /\ [][Next]_vars

-----------------------------------------------------------------------------
(* Types of the locals of a receiver and of the line. *)
TypeOK ==
  /\ rx \in Receivers
  /\ frame \in 1 .. MaxFrames + 1 /\ pos \in Nat /\ noise \in 0 .. MaxNoise
  /\ index \in 0 .. rx.size
  /\ buffer \in [1 .. rx.size -> Nat \X Nat]
  /\ pre \in Class /\ kind \in Nat \X Nat
  /\ dirty \subseteq 1 .. MaxFrames

(* The next byte and the terminator behind it fit in the buffer, however   *)
(* many frames ran into each other because their ends were lost.           *)
TerminatorInBuffer == index + 1 < rx.size

(* Clean(f): every byte of f arrived, and none of its data aliased. *)
Clean(f) == f \notin dirty

(* Recovery: whatever the line did before, of two clean frames the second  *)
(* is applied exactly once and as it was sent; if a header restarts the    *)
(* buffer, the first one is already.                                       *)
Recovers ==
  pos = 1 /\ frame > 1 /\ Clean(frame - 1) /\ (rx.restarts \/ Clean(frame - 2))
    => results = <<frame - 1>>

(* A frame is never applied again when a later one is on the line, except  *)
(* by the receiver that accepts a trailer blindly.                         *)
NeverReplayed ==
  LET current == IF pos = 1 THEN frame - 1 ELSE frame
  IN  ~rx.blind => \A i \in 1 .. Len(results) : results[i] \in {0, current}
=============================================================================
