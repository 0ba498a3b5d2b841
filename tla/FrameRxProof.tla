---------------------------- MODULE FrameRxProof ----------------------------
(***************************************************************************)
(* Proofs about the receivers for every framing, every length of frame and *)
(* any number of lost bytes.  The buffer bound is inductive once it is     *)
(* stated with the cut instead of the size: between two bytes the index is *)
(* at most the cut.                                                        *)
(***************************************************************************)
EXTENDS FrameRx, TLAPS

Inv == TypeOK /\ index <= rx.cut

(* What the assumption on the receivers says about the one in use. *)
LEMMA ReceiverFields ==
  ASSUME rx \in Receivers
  PROVE  /\ rx.cut \in Nat /\ rx.size \in Nat /\ rx.length \in Nat
         /\ rx.cut + 1 < rx.size
BY ReceiverAssumption DEF Receiver

(* The bound of the code is the bound of the invariant. *)
LEMMA InvImpliesBound ==
  ASSUME Inv
  PROVE  TerminatorInBuffer
BY ReceiverFields DEF Inv, TypeOK, TerminatorInBuffer

LEMMA InitEstablishesInv ==
  ASSUME Init
  PROVE  Inv
<1>1. rx \in Receivers
  BY DEF Init
<1>2. rx.cut \in Nat /\ rx.size \in Nat
  BY <1>1, ReceiverFields
<1>3. frame \in 1 .. MaxFrames + 1 /\ noise \in 0 .. MaxNoise
  BY ReceiverAssumption DEF Init
<1>4. buffer \in [1 .. rx.size -> Nat \X Nat] /\ kind \in Nat \X Nat
  BY DEF Init, Nothing
<1>5. index \in 0 .. rx.size /\ index <= rx.cut
  BY <1>2 DEF Init
<1> QED
  BY <1>1, <1>3, <1>4, <1>5 DEF Init, Inv, TypeOK, Class

(* The line's variables keep their types, whatever the receiver does. *)
LEMMA AdvanceTypes ==
  ASSUME Inv, NEW noisy \in BOOLEAN, Advance(noisy)
  PROVE  /\ frame \in 1 .. MaxFrames
         /\ frame' \in 1 .. MaxFrames + 1 /\ pos' \in Nat
         /\ noise' \in 0 .. MaxNoise /\ dirty' \subseteq 1 .. MaxFrames
<1>1. frame \in 1 .. MaxFrames
  BY ReceiverAssumption DEF Inv, TypeOK, Advance
<1>2. frame' \in 1 .. MaxFrames + 1 /\ pos' \in Nat
  BY <1>1, ReceiverAssumption DEF Inv, TypeOK, Advance
<1>3. noise' \in 0 .. MaxNoise
  BY ReceiverAssumption DEF Inv, TypeOK, Advance
<1>4. dirty' \subseteq 1 .. MaxFrames
  BY <1>1 DEF Inv, TypeOK, Advance
<1> QED
  BY <1>1, <1>2, <1>3, <1>4

(* A byte is stored at most one place behind the cut. *)
LEMMA StoredBound ==
  ASSUME Inv, NEW c \in Class
  PROVE  Stored(c) \in 0 .. rx.cut + 1
BY ReceiverFields DEF Inv, TypeOK, Stored

LEMMA ReceivePreservesInv ==
  ASSUME Inv, NEW c \in Class, Receive(c)
  PROVE  Inv'
<1> DEFINE n == Stored(c)
<1>1. rx \in Receivers /\ rx' = rx
  BY DEF Inv, TypeOK, Receive
<1>2. rx.cut \in Nat /\ rx.size \in Nat /\ rx.cut + 1 < rx.size
  BY <1>1, ReceiverFields
<1>3. n \in 0 .. rx.cut + 1
  BY StoredBound
<1>4. (c # ClassAt(pos)) \in BOOLEAN /\ Advance(c # ClassAt(pos))
  BY DEF Receive
<1>5. /\ frame \in Nat /\ pos \in Nat
      /\ frame' \in 1 .. MaxFrames + 1 /\ pos' \in Nat
      /\ noise' \in 0 .. MaxNoise /\ dirty' \subseteq 1 .. MaxFrames
  <2> DEFINE noisy == c # ClassAt(pos)
  <2>1. noisy \in BOOLEAN /\ Advance(noisy)
    BY <1>4
  <2> HIDE DEF noisy
  <2>2. /\ frame' \in 1 .. MaxFrames + 1 /\ pos' \in Nat
        /\ noise' \in 0 .. MaxNoise /\ dirty' \subseteq 1 .. MaxFrames
    BY <2>1, AdvanceTypes
  <2>3. frame \in Nat /\ pos \in Nat
    BY DEF Inv, TypeOK
  <2> QED
    BY <2>2, <2>3
<1>6. index' \in 0 .. rx.size /\ index' <= rx.cut
  <2>1. index' = AfterByte(Ends(c, n), n)
    BY DEF Receive
  <2> HIDE DEF n
  <2> QED
    BY <1>2, <1>3, <2>1 DEF AfterByte
<1>7. buffer' \in [1 .. rx.size -> Nat \X Nat]
  <2> DEFINE ends == Ends(c, n)
  <2>1. buffer' = Collected(ends, n)
    BY DEF Receive
  <2>2. buffer \in [1 .. rx.size -> Nat \X Nat]
    BY DEF Inv, TypeOK
  <2>3. <<frame, pos>> \in Nat \X Nat /\ Nothing \in Nat \X Nat
    BY <1>5 DEF Nothing
  <2> HIDE DEF n, ends
  <2> QED
    BY <2>1, <2>2, <2>3 DEF Collected
<1>8. kind' \in Nat \X Nat /\ pre' \in Class
  BY <1>5 DEF Receive, Kind, Inv, TypeOK
<1> QED
  BY <1>1, <1>5, <1>6, <1>7, <1>8 DEF Inv, TypeOK

LEMMA LosePreservesInv ==
  ASSUME Inv, Lose
  PROVE  Inv'
<1>1. Advance(TRUE)
  BY DEF Lose
<1>2. /\ frame' \in 1 .. MaxFrames + 1 /\ pos' \in Nat
      /\ noise' \in 0 .. MaxNoise /\ dirty' \subseteq 1 .. MaxFrames
  BY <1>1, AdvanceTypes
<1> QED
  BY <1>2 DEF Lose, Inv, TypeOK

LEMMA NextPreservesInv ==
  ASSUME Inv, [Next]_vars
  PROVE  Inv'
<1>1. CASE Lose
  BY <1>1, LosePreservesInv
<1>2. ASSUME NEW c \in Class, Receive(c)
      PROVE  Inv'
  BY <1>2, ReceivePreservesInv
<1>3. CASE UNCHANGED vars
  BY <1>3 DEF vars, line_vars, Inv, TypeOK
<1> QED
  BY <1>1, <1>2, <1>3 DEF Next

(* The locals of every receiver keep their types. *)
THEOREM FrameRxTypeCorrect == Spec => []TypeOK
<1>1. Init => Inv
  BY InitEstablishesInv
<1>2. Inv /\ [Next]_vars => Inv'
  BY NextPreservesInv
<1>3. Inv => TypeOK
  BY DEF Inv
<1> QED
  BY <1>1, <1>2, <1>3, PTL DEF Spec

(* No receiver writes a byte or a terminator behind its buffer, whatever   *)
(* arrives.                                                                *)
THEOREM FrameRxTerminatorInBuffer == Spec => []TerminatorInBuffer
<1>1. Init => Inv
  BY InitEstablishesInv
<1>2. Inv /\ [Next]_vars => Inv'
  BY NextPreservesInv
<1>3. Inv => TerminatorInBuffer
  BY InvImpliesBound
<1> QED
  BY <1>1, <1>2, <1>3, PTL DEF Spec

-----------------------------------------------------------------------------
(* A frame is not applied again because the byte that ends a frame is in   *)
(* its buffer: among the places an application reads, or behind a place    *)
(* that would have to hold the end of an older frame.  An end that was     *)
(* collected has ended its frame, so none is left in the buffer.           *)

Current == IF pos = 1 THEN frame - 1 ELSE frame

NoEndKept ==
  ~rx.blind /\ rx.tail = 1 => \A i \in 1 .. index : buffer[i][2] # rx.length

ResultsFresh ==
  /\ results \in Seq(Nat)
  /\ ~rx.blind => \A i \in 1 .. Len(results) : results[i] \in {0, Current}

ReplayInv == Inv /\ pos >= 1 /\ NoEndKept /\ ResultsFresh

(* What is applied is 0 or a frame that all places read agree on. *)
LEMMA WholeHolds ==
  ASSUME NEW buf, NEW k, frame \in Nat
  PROVE  /\ Whole(buf, k) \in 0 .. frame
         /\ Whole(buf, k) # 0 =>
              \A i \in 1 .. rx.reads : buf[i] = <<Whole(buf, k), i + rx.head - 1>>
<1> DEFINE Holds(f) == /\ \A i \in 1 .. rx.reads : buf[i] = <<f, i + rx.head - 1>>
                       /\ rx.latch # 0 => k = <<f, rx.latch>>
           w == CHOOSE f \in 1 .. frame : Holds(f)
<1>1. Whole(buf, k) = IF \E f \in 1 .. frame : Holds(f) THEN w ELSE 0
  BY DEF Whole
<1>2. (\E f \in 1 .. frame : Holds(f)) => w \in 1 .. frame /\ Holds(w)
  <2> HIDE DEF Holds
  <2> QED
    OBVIOUS
<1>3. Holds(w) => \A i \in 1 .. rx.reads : buf[i] = <<w, i + rx.head - 1>>
  OBVIOUS
<1> HIDE DEF Holds, w
<1> QED
  BY <1>1, <1>2, <1>3

(* What the assumption says of a receiver that is not blind. *)
LEMMA SightedFields ==
  ASSUME rx \in Receivers, ~rx.blind
  PROVE  /\ rx.head = 1 /\ rx.length \in Nat /\ rx.length > 1 /\ rx.reads = rx.length
         /\ rx.tail = 0 \/ (rx.tail = 1 /\ ~rx.binary)
         /\ rx.cut \in Nat /\ rx.size \in Nat /\ rx.cut + 1 < rx.size
BY ReceiverAssumption DEF Receiver

(* A byte goes to its place, and what is before it stays. *)
LEMMA CollectedPlaces ==
  ASSUME NEW ends \in BOOLEAN, NEW n \in Nat, rx.size \in Nat, n < rx.size
  PROVE  /\ n # 0 => Collected(ends, n)[n] = <<frame, pos>>
         /\ \A i \in 1 .. n - 1 : Collected(ends, n)[i] = buffer[i]
BY DEF Collected

(* The frame that a byte completes is its own. *)
LEMMA CompletedIsCurrent ==
  ASSUME ReplayInv, ~rx.blind, NEW c \in Class, Receive(c), Ends(c, Stored(c))
  PROVE  Whole(buffer', kind') \in {0, frame}
<1> DEFINE n == Stored(c)
           ends == Ends(c, n)
           w == Whole(buffer', kind')
<1>1. /\ rx.head = 1 /\ rx.length \in Nat /\ rx.length > 1 /\ rx.reads = rx.length
      /\ rx.tail = 0 \/ rx.tail = 1
      /\ rx.cut \in Nat /\ rx.size \in Nat /\ rx.cut + 1 < rx.size
  BY SightedFields DEF ReplayInv, Inv, TypeOK
<1>2. n \in 0 .. rx.cut + 1
  BY StoredBound DEF ReplayInv
<1>3. n # 0 /\ (rx.tail = 0 => n = rx.length)
  <2>1. Ends(c, n)
    OBVIOUS
  <2> HIDE DEF n
  <2>2. n # 0
    BY <2>1 DEF Ends
  <2>3. rx.tail = 0 => n = rx.length
    BY <2>1 DEF Ends
  <2> QED
    BY <2>2, <2>3
<1>4. n = 1 \/ n = index + 1
  BY <1>3 DEF Stored
<1>5. ends \in BOOLEAN /\ buffer' = Collected(ends, n)
  BY DEF Receive, Ends
<1>6. frame \in Nat /\ index \in Nat
  BY <1>1 DEF ReplayInv, Inv, TypeOK
<1>7. /\ w \in 0 .. frame
      /\ w # 0 => \A i \in 1 .. rx.reads : buffer'[i] = <<w, i + rx.head - 1>>
  BY <1>6, WholeHolds
<1> HIDE DEF n, ends, w
<1>8. buffer'[n] = <<frame, pos>> /\ \A i \in 1 .. n - 1 : buffer'[i] = buffer[i]
  BY <1>1, <1>2, <1>3, <1>5, CollectedPlaces
<1>9. CASE w # 0 /\ n <= rx.length
  <2>1. buffer'[n] = <<w, n + 1 - 1>>
    BY <1>1, <1>2, <1>3, <1>7, <1>9
  <2> QED
    BY <1>8, <2>1 DEF w
<1>10. CASE w # 0 /\ n > rx.length
  <2>1. rx.tail = 1 /\ rx.length \in 1 .. index /\ rx.length \in 1 .. n - 1
    BY <1>1, <1>3, <1>4, <1>6, <1>10
  <2>2. buffer[rx.length] = <<w, rx.length + 1 - 1>>
    BY <1>1, <1>7, <1>8, <1>10, <2>1
  <2>3. buffer[rx.length][2] = rx.length
    BY <1>1, <2>2
  <2> QED
    BY <2>1, <2>3 DEF ReplayInv, NoEndKept
<1> QED
  BY <1>1, <1>2, <1>9, <1>10 DEF w

(* An end is never kept. *)
LEMMA EndsAreCleared ==
  ASSUME ReplayInv, NEW c \in Class, Receive(c)
  PROVE  NoEndKept'
<1> SUFFICES ASSUME ~rx.blind, rx.tail = 1, NEW i \in 1 .. index'
             PROVE  buffer'[i][2] # rx.length
  BY DEF NoEndKept, Receive
<1> DEFINE n == Stored(c)
           ends == Ends(c, n)
<1>1. /\ rx.head = 1 /\ rx.length \in Nat /\ rx.length > 1 /\ ~rx.binary
      /\ rx.cut \in Nat /\ rx.size \in Nat /\ rx.cut + 1 < rx.size
  BY SightedFields DEF ReplayInv, Inv, TypeOK
<1>2. n \in 0 .. rx.cut + 1
  BY StoredBound DEF ReplayInv
<1>3. ends \in BOOLEAN /\ buffer' = Collected(ends, n) /\ index' = AfterByte(ends, n)
  BY DEF Receive, Ends
<1>4. c = ClassAt(pos)
  BY <1>1 DEF Receive
<1>5. n = 0 \/ n = 1 \/ n = index + 1
  BY DEF Stored
<1>6. frame \in Nat /\ index \in Nat /\ pos \in Nat
  BY <1>1 DEF ReplayInv, Inv, TypeOK
<1>7. n # 0 /\ pos = rx.length => ends
  <2> SUFFICES ASSUME n # 0, pos = rx.length PROVE ends
    OBVIOUS
  <2>1. c = "tail"
    BY <1>1, <1>4 DEF ClassAt
  <2> HIDE DEF n
  <2> QED
    BY <2>1 DEF Ends, ends
<1> HIDE DEF n, ends
<1>8. ~ends /\ index' = n /\ n # 0
  BY <1>2, <1>3 DEF AfterByte
<1>9. buffer'[n] = <<frame, pos>> /\ \A j \in 1 .. n - 1 : buffer'[j] = buffer[j]
  BY <1>1, <1>2, <1>3, <1>8, CollectedPlaces
<1>10. CASE i = n
  BY <1>7, <1>8, <1>9, <1>10
<1>11. CASE i # n
  <2>1. i \in 1 .. n - 1 /\ i \in 1 .. index
    BY <1>2, <1>5, <1>6, <1>8, <1>11
  <2> QED
    BY <1>9, <2>1 DEF ReplayInv, NoEndKept
<1> QED
  BY <1>10, <1>11

(* After a byte the frame it belongs to is the current one. *)
LEMMA CurrentAfter ==
  ASSUME ReplayInv, NEW noisy, Advance(noisy)
  PROVE  Current' = frame /\ pos' >= 1 /\ (pos # 1 => Current = frame)
BY DEF ReplayInv, Inv, TypeOK, Advance, Current

(* Every step keeps the invariant. *)
LEMMA ReplayNext == ReplayInv /\ [Next]_vars => ReplayInv'
<1> SUFFICES ASSUME ReplayInv, [Next]_vars PROVE ReplayInv'
  OBVIOUS
<1>1. Inv'
  BY NextPreservesInv DEF ReplayInv
<1>2. ASSUME NEW c \in Class, Receive(c)
      PROVE  ReplayInv'
  <2> DEFINE kept == IF pos = 1 THEN <<>> ELSE results
             ends == Ends(c, Stored(c))
             w == Whole(buffer', kind')
             new == IF ends THEN <<w>> ELSE <<>>
  <2>1. Current' = frame /\ pos' >= 1 /\ (pos # 1 => Current = frame)
    <3> DEFINE noisy == c # ClassAt(pos)
    <3>1. Advance(noisy)
      BY <1>2 DEF Receive
    <3> HIDE DEF noisy
    <3> QED
      BY <3>1, CurrentAfter
  <2>2. rx' = rx /\ results' = kept \o new
    BY <1>2 DEF Receive
  <2>3. w \in Nat
    BY WholeHolds DEF ReplayInv, Inv, TypeOK
  <2>4. ~rx.blind /\ ends => w \in {0, frame}
    BY <1>2, CompletedIsCurrent
  <2>5. /\ kept \in Seq(Nat)
        /\ ~rx.blind => \A i \in 1 .. Len(kept) : kept[i] \in {0, frame}
    BY <2>1 DEF ReplayInv, ResultsFresh
  <2>6. /\ new \in Seq(Nat)
        /\ ~rx.blind => \A i \in 1 .. Len(new) : new[i] \in {0, frame}
    <3> HIDE DEF ends, w
    <3>1. CASE ends
      BY <2>3, <2>4, <3>1
    <3>2. CASE ~ends
      BY <3>2
    <3> QED
      BY <3>1, <3>2
  <2> HIDE DEF kept, new
  <2>7. /\ results' \in Seq(Nat)
        /\ ~rx.blind => \A i \in 1 .. Len(results') : results'[i] \in {0, frame}
    BY <2>2, <2>5, <2>6
  <2>8. ResultsFresh'
    BY <2>1, <2>2, <2>7 DEF ResultsFresh
  <2> QED
    BY <1>1, <1>2, <2>1, <2>8, EndsAreCleared DEF ReplayInv
<1>3. CASE Lose
  <2>1. Current' = frame /\ pos' >= 1 /\ (pos # 1 => Current = frame)
    BY <1>3, CurrentAfter DEF Lose
  <2>2. UNCHANGED <<rx, index, buffer>> /\ results' = IF pos = 1 THEN <<>> ELSE results
    BY <1>3 DEF Lose
  <2>3. NoEndKept'
    BY <2>2 DEF ReplayInv, NoEndKept
  <2>4. ResultsFresh'
    BY <2>1, <2>2 DEF ReplayInv, ResultsFresh
  <2> QED
    BY <1>1, <2>1, <2>3, <2>4 DEF ReplayInv
<1>4. CASE UNCHANGED vars
  BY <1>1, <1>4 DEF vars, line_vars, ReplayInv, NoEndKept, ResultsFresh, Current
<1> QED
  BY <1>2, <1>3, <1>4 DEF Next

(* No receiver but the one that accepts a trailer blindly applies a frame  *)
(* again after its end, for every framing and every pattern of loss.       *)
THEOREM FrameRxNeverReplayed == Spec => []NeverReplayed
<1>1. Init => ReplayInv
  <2> SUFFICES ASSUME Init PROVE ReplayInv
    OBVIOUS
  <2>1. Inv
    BY InitEstablishesInv
  <2>2. pos = 1 /\ index = 0 /\ results = <<>>
    BY DEF Init
  <2> QED
    BY <2>1, <2>2 DEF ReplayInv, NoEndKept, ResultsFresh
<1>2. ReplayInv => NeverReplayed
  BY DEF ReplayInv, ResultsFresh, NeverReplayed, Current
<1> QED
  BY <1>1, <1>2, ReplayNext, PTL DEF Spec

-----------------------------------------------------------------------------
(***************************************************************************)
(* Recovery.  A clean frame leaves every receiver ready for the next one   *)
(* (Synced): a trailer clears the index, and a receiver that counts bytes  *)
(* is at least as far as the frame (Closing), so it runs full before the   *)
(* frame ends and finds no header in the rest.  A receiver that is ready,  *)
(* or that a header restarts, then tracks the frame byte by byte.          *)
(***************************************************************************)
Synced == index = 0 /\ (rx.head = 2 => pre # "head")

Closing ==
  /\ pre = ClassAt(pos - 1)
  /\ rx.tail = 0 => index = 0 \/ index >= pos - 1

Tracking ==
  /\ results = <<>>
  /\ index = pos - rx.head
  /\ \A i \in 1 .. pos - rx.head : buffer[i] = <<frame, i + rx.head - 1>>
  /\ rx.latch # 0 /\ pos > rx.latch => kind = <<frame, rx.latch>>

RecoverInv ==
  /\ pos \in 1 .. rx.length
  /\ rx.tail = 0 => index < rx.length
  /\ pos = 1 /\ Clean(frame - 1) => Synced
  /\ pos > 1 /\ Clean(frame) => Closing
  /\ pos > 1 /\ Clean(frame) /\ (rx.restarts \/ Clean(frame - 1)) => Tracking
  /\ Recovers

(* The two kinds of receiver. *)
LEMMA ReceiverKinds ==
  ASSUME rx \in Receivers
  PROVE  /\ rx.length \in Nat /\ rx.cut \in Nat /\ rx.size \in Nat /\ rx.latch \in {0, 1, 2}
         /\ rx.cut + 1 < rx.size /\ rx.length - rx.head <= rx.cut
         /\ rx.reads \in 1 .. rx.length + 1 - rx.head
         /\ \/ rx.head = 1 /\ rx.tail \in {0, 1} /\ rx.length > 1 + rx.tail /\ ~rx.blind
            \/ rx.head = 2 /\ rx.tail = 2 /\ rx.length > 4 /\ rx.blind /\ ~rx.restarts /\ rx.latch = 0
<1>1. rx \in Receiver
  BY ReceiverAssumption
<1>2. CASE rx.blind
  BY <1>1, <1>2, ReceiverAssumption DEF Receiver
<1>3. CASE ~rx.blind
  BY <1>1, <1>3, ReceiverAssumption DEF Receiver
<1> QED
  BY <1>2, <1>3

(* A frame that fills the places read is the one applied. *)
LEMMA WholeIs ==
  ASSUME NEW buf, NEW k, frame \in Nat \ {0}, rx.reads \in Nat \ {0},
         \A i \in 1 .. rx.reads : buf[i] = <<frame, i + rx.head - 1>>,
         rx.latch # 0 => k = <<frame, rx.latch>>
  PROVE  Whole(buf, k) = frame
<1> DEFINE Holds(f) == /\ \A i \in 1 .. rx.reads : buf[i] = <<f, i + rx.head - 1>>
                       /\ rx.latch # 0 => k = <<f, rx.latch>>
           w == CHOOSE f \in 1 .. frame : Holds(f)
<1>1. Whole(buf, k) = IF \E f \in 1 .. frame : Holds(f) THEN w ELSE 0
  BY DEF Whole
<1>2. frame \in 1 .. frame /\ Holds(frame)
  OBVIOUS
<1>3. w \in 1 .. frame /\ Holds(w)
  <2> HIDE DEF Holds
  <2> QED
    BY <1>2
<1>4. buf[1] = <<w, 1 + rx.head - 1>> /\ buf[1] = <<frame, 1 + rx.head - 1>>
  <2>1. 1 \in 1 .. rx.reads
    OBVIOUS
  <2>2. \A i \in 1 .. rx.reads : buf[i] = <<w, i + rx.head - 1>>
    BY <1>3
  <2> HIDE DEF w, Holds
  <2> QED
    BY <2>1, <2>2
<1>5. w = frame
  <2> HIDE DEF w
  <2> QED
    BY <1>4
<1> HIDE DEF w, Holds
<1> QED
  BY <1>1, <1>2, <1>5

(* The class of the bytes of a frame. *)
LEMMA Classes ==
  ASSUME rx \in Receivers, NEW p \in 1 .. rx.length
  PROVE  /\ ClassAt(p) = "head" <=> p <= rx.head
         /\ ClassAt(p) = "tail" <=> p > rx.length - rx.tail
         /\ ClassAt(p) \in Class
BY ReceiverKinds DEF ClassAt, Class

(* A byte as it was sent, of a frame that is received from its beginning:  *)
(* it goes to its place, and ends the frame exactly if it is the last.     *)
LEMMA TrackedByte ==
  ASSUME Inv, RecoverInv, Clean(frame), rx.restarts \/ Clean(frame - 1),
         NEW c, c = ClassAt(pos), Receive(c)
  PROVE  /\ Stored(c) = pos + 1 - rx.head
         /\ Ends(c, Stored(c)) <=> pos = rx.length
         /\ \A i \in 1 .. pos + 1 - rx.head : buffer'[i] = <<frame, i + rx.head - 1>>
         /\ rx.latch # 0 /\ pos + 1 > rx.latch => kind' = <<frame, rx.latch>>
         /\ (IF pos = 1 THEN <<>> ELSE results) = <<>>
<1> DEFINE n == Stored(c)
           ends == Ends(c, n)
<1>1. /\ rx.length \in Nat /\ rx.cut \in Nat /\ rx.size \in Nat /\ rx.latch \in {0, 1, 2}
      /\ rx.cut + 1 < rx.size /\ rx.length - rx.head <= rx.cut
      /\ \/ rx.head = 1 /\ rx.tail \in {0, 1} /\ rx.length > 1 + rx.tail /\ ~rx.blind
         \/ rx.head = 2 /\ rx.tail = 2 /\ rx.length > 4 /\ rx.blind /\ ~rx.restarts /\ rx.latch = 0
  BY ReceiverKinds DEF Inv, TypeOK
<1>2. pos \in 1 .. rx.length
  BY DEF RecoverInv
<1>3. /\ c = "head" <=> pos <= rx.head
      /\ c = "tail" <=> pos > rx.length - rx.tail
  BY <1>2, Classes DEF Inv, TypeOK
<1>4. pos = 1 => rx.restarts \/ Synced
  BY DEF RecoverInv
<1>5. pos > 1 => Closing /\ Tracking
  BY DEF RecoverInv
<1>6. pos > 1 => /\ pre = "head" <=> pos - 1 <= rx.head
                 /\ pre = "tail" <=> pos - 1 > rx.length - rx.tail
  <2> SUFFICES ASSUME pos > 1
               PROVE  /\ pre = "head" <=> pos - 1 <= rx.head
                      /\ pre = "tail" <=> pos - 1 > rx.length - rx.tail
    OBVIOUS
  <2>1. pos - 1 \in 1 .. rx.length /\ pre = ClassAt(pos - 1)
    BY <1>1, <1>2, <1>5 DEF Closing
  <2> QED
    BY <2>1, Classes DEF Inv, TypeOK
<1>7. Starts(c) <=> pos = rx.head
  <2>1. CASE rx.head = 1
    BY <1>2, <1>3, <2>1 DEF Starts
  <2>2. CASE rx.head = 2 /\ pos = 1
    BY <1>1, <1>2, <1>4, <2>2 DEF Starts, Synced
  <2>3. CASE rx.head = 2 /\ pos > 1
    BY <1>2, <1>3, <1>6, <2>3 DEF Starts
  <2> QED
    BY <1>1, <1>2, <2>1, <2>2, <2>3
<1>8. n = pos + 1 - rx.head
  <2>1. CASE pos = 1
    BY <1>1, <1>4, <1>7, <2>1 DEF Stored, Synced
  <2>2. CASE pos > 1
    BY <1>1, <1>2, <1>5, <1>7, <2>2 DEF Stored, Tracking
  <2> QED
    BY <1>2, <2>1, <2>2
<1>9. ends <=> pos = rx.length
  <2> HIDE DEF n
  <2>1. CASE rx.tail = 0
    BY <1>1, <1>2, <1>8, <2>1 DEF Ends, ends
  <2>2. CASE rx.tail = 1
    BY <1>1, <1>2, <1>3, <1>8, <2>2 DEF Ends, ends
  <2>3. CASE rx.tail = 2
    BY <1>1, <1>2, <1>3, <1>6, <2>3 DEF Ends, ends
  <2> QED
    BY <1>1, <2>1, <2>2, <2>3
<1>10. \A i \in 1 .. pos + 1 - rx.head : buffer'[i] = <<frame, i + rx.head - 1>>
  <2>1. ends \in BOOLEAN /\ buffer' = Collected(ends, n)
    BY DEF Receive, Ends
  <2> HIDE DEF n, ends
  <2>2. n \in Nat /\ n < rx.size
    BY <1>1, <1>2, <1>8
  <2>3. n # 0 => buffer'[n] = <<frame, pos>>
    BY <1>1, <2>1, <2>2, CollectedPlaces
  <2>4. \A i \in 1 .. n - 1 : buffer'[i] = buffer[i]
    BY <1>1, <2>1, <2>2, CollectedPlaces
  <2>5. \A i \in 1 .. n - 1 : buffer[i] = <<frame, i + rx.head - 1>>
    BY <1>1, <1>2, <1>5, <1>8 DEF Tracking
  <2> QED
    BY <1>1, <1>2, <1>8, <2>2, <2>3, <2>4, <2>5
<1>11. rx.latch # 0 /\ pos + 1 > rx.latch => kind' = <<frame, rx.latch>>
  <2>1. kind' = Kind(c, n)
    BY DEF Receive
  <2> HIDE DEF n
  <2>2. CASE rx.latch = 1
    BY <1>1, <1>2, <1>5, <1>7, <2>1, <2>2 DEF Kind, Tracking
  <2>3. CASE rx.latch = 2
    BY <1>1, <1>2, <1>5, <1>7, <1>8, <2>1, <2>3 DEF Kind, Tracking
  <2> QED
    BY <1>1, <2>2, <2>3
<1>12. (IF pos = 1 THEN <<>> ELSE results) = <<>>
  BY <1>2, <1>5 DEF Tracking
<1> QED
  BY <1>8, <1>9, <1>10, <1>11, <1>12

(* A receiver that counts the bytes of a frame has never more than a frame. *)
LEMMA CountBelowLength ==
  ASSUME Inv, RecoverInv, NEW c, Receive(c), rx.tail = 0
  PROVE  index' < rx.length
<1> DEFINE n == Stored(c)
<1>1. rx.length \in Nat /\ rx.length > 1 /\ index \in Nat /\ index < rx.length
  BY ReceiverKinds DEF Inv, TypeOK, RecoverInv
<1>2. n \in 0 .. rx.length
  BY <1>1 DEF Stored
<1>3. index' = AfterByte(Ends(c, n), n)
  BY DEF Receive
<1> HIDE DEF n
<1>4. n = rx.length => Ends(c, n)
  BY <1>1 DEF Ends
<1> QED
  BY <1>1, <1>2, <1>3, <1>4 DEF AfterByte

(* A byte as it was sent keeps a counting receiver ahead of the frame. *)
LEMMA CountAhead ==
  ASSUME Inv, RecoverInv, Clean(frame), NEW c, c = ClassAt(pos), Receive(c), rx.tail = 0
  PROVE  index' = 0 \/ (index' >= pos /\ pos # rx.length)
<1> DEFINE n == Stored(c)
<1>1. /\ rx.length \in Nat /\ rx.length > 1 /\ index \in Nat /\ index < rx.length
      /\ rx.head = 1 /\ pos \in 1 .. rx.length
  BY ReceiverKinds DEF Inv, TypeOK, RecoverInv
<1>2. c = "head" <=> pos = 1
  BY <1>1, Classes DEF Inv, TypeOK
<1>3. pos > 1 => index = 0 \/ index >= pos - 1
  BY DEF RecoverInv, Closing
<1>4. n = 0 \/ (n >= pos /\ n <= rx.length)
  BY <1>1, <1>2, <1>3 DEF Stored, Starts
<1>5. index' = AfterByte(Ends(c, n), n)
  BY DEF Receive
<1> HIDE DEF n
<1>6. n = rx.length => Ends(c, n)
  BY <1>1 DEF Ends
<1> QED
  BY <1>1, <1>4, <1>5, <1>6 DEF AfterByte

(* The last byte of a clean frame leaves the receiver ready. *)
LEMMA SyncedAfter ==
  ASSUME Inv, RecoverInv, Clean(frame), NEW c, c = ClassAt(pos), Receive(c), pos = rx.length
  PROVE  Synced'
<1> DEFINE n == Stored(c)
<1>1. /\ rx.length \in Nat /\ rx.cut \in Nat
      /\ \/ rx.head = 1 /\ rx.tail \in {0, 1} /\ rx.length > 1 + rx.tail /\ ~rx.blind
         \/ rx.head = 2 /\ rx.tail = 2 /\ rx.length > 4 /\ rx.blind /\ ~rx.restarts /\ rx.latch = 0
  BY ReceiverKinds DEF Inv, TypeOK
<1>2. /\ c = "head" <=> pos <= rx.head
      /\ c = "tail" <=> pos > rx.length - rx.tail
  BY <1>1, Classes DEF Inv, TypeOK
<1>3. index' = AfterByte(Ends(c, n), n) /\ pre' = c /\ rx' = rx
  BY DEF Receive
<1>4. rx.tail = 2 => pre = "tail"
  <2> SUFFICES ASSUME rx.tail = 2 PROVE pre = "tail"
    OBVIOUS
  <2>1. pos - 1 \in 1 .. rx.length /\ pos > 1
    BY <1>1
  <2>2. pre = ClassAt(pos - 1)
    BY <2>1 DEF RecoverInv, Closing
  <2> QED
    BY <1>1, <2>1, <2>2, Classes DEF Inv, TypeOK
<1>5. index' = 0
  <2> HIDE DEF n
  <2>1. CASE rx.tail = 0
    BY <2>1, CountAhead
  <2>2. CASE rx.tail = 1
    BY <1>1, <1>2, <1>3, <2>2 DEF Ends, AfterByte
  <2>3. CASE rx.tail = 2
    BY <1>1, <1>2, <1>3, <1>4, <2>3 DEF Ends, AfterByte
  <2> QED
    BY <1>1, <2>1, <2>2, <2>3
<1> QED
  BY <1>1, <1>2, <1>3, <1>5 DEF Synced

(* What a step of the line does to the cleanness of frames. *)
LEMMA CleanAfter ==
  ASSUME NEW noisy \in BOOLEAN, Advance(noisy)
  PROVE  /\ \A f : f \notin dirty' => f \notin dirty
         /\ frame \notin dirty' => ~noisy
         /\ IF pos = rx.length THEN frame' = frame + 1 /\ pos' = 1 ELSE frame' = frame /\ pos' = pos + 1
BY DEF Advance

(* A byte that is lost or aliases excuses the receiver. *)
LEMMA DirtyStep ==
  ASSUME Inv, RecoverInv, Advance(TRUE), rx' = rx, rx.tail = 0 => index' < rx.length
  PROVE  RecoverInv'
<1>1. pos \in 1 .. rx.length /\ rx.length \in Nat /\ rx.length > 1 /\ frame \in Nat
  BY ReceiverKinds DEF Inv, TypeOK, RecoverInv
<1>2. frame \in dirty'
        /\ IF pos = rx.length THEN frame' = frame + 1 /\ pos' = 1 ELSE frame' = frame /\ pos' = pos + 1
  BY CleanAfter
<1> QED
  BY <1>1, <1>2 DEF RecoverInv, Clean, Recovers

(* A byte as it was sent. *)
LEMMA CleanByte ==
  ASSUME Inv, RecoverInv, NEW c, c = ClassAt(pos), Receive(c)
  PROVE  RecoverInv'
<1> DEFINE n == Stored(c)
           ends == Ends(c, n)
           kept == IF pos = 1 THEN <<>> ELSE results
<1>1. /\ rx.length \in Nat /\ rx.cut \in Nat /\ rx.head \in {1, 2} /\ rx.length > rx.head
      /\ rx.length - rx.head <= rx.cut /\ rx.reads \in 1 .. rx.length + 1 - rx.head
      /\ rx.latch \in {0, 1, 2} /\ (rx.latch # 0 => rx.head = 1)
      /\ pos \in 1 .. rx.length /\ frame \in Nat \ {0}
  <2>1. frame \in Nat \ {0} /\ pos \in 1 .. rx.length
    BY DEF Inv, TypeOK, RecoverInv
  <2>2. rx \in Receivers
    BY DEF Inv, TypeOK
  <2>3. /\ rx.length \in Nat /\ rx.cut \in Nat /\ rx.latch \in {0, 1, 2}
        /\ rx.length - rx.head <= rx.cut /\ rx.reads \in 1 .. rx.length + 1 - rx.head
    BY <2>2, ReceiverKinds
  <2>4. rx.head \in {1, 2} /\ rx.length > rx.head /\ (rx.latch # 0 => rx.head = 1)
    BY <2>2, ReceiverKinds
  <2> QED
    BY <2>1, <2>3, <2>4, Zenon
<1>2. /\ \A f : f \notin dirty' => f \notin dirty
      /\ IF pos = rx.length THEN frame' = frame + 1 /\ pos' = 1 ELSE frame' = frame /\ pos' = pos + 1
  <2> DEFINE noisy == c # ClassAt(pos)
  <2>1. noisy \in BOOLEAN /\ Advance(noisy)
    BY DEF Receive
  <2> HIDE DEF noisy
  <2> QED
    BY <2>1, CleanAfter
<1>3. /\ rx' = rx /\ pre' = c /\ index' = AfterByte(ends, n)
      /\ results' = kept \o (IF ends THEN <<Whole(buffer', kind')>> ELSE <<>>)
  BY DEF Receive
<1>4. rx.tail = 0 => index' < rx.length
  BY CountBelowLength
<1>5. pos' \in 1 .. rx.length
  BY <1>1, <1>2
<1>6. ASSUME pos = rx.length, Clean(frame)
      PROVE  Synced'
  BY <1>6, SyncedAfter
<1>7. ASSUME pos # rx.length, Clean(frame)
      PROVE  Closing'
  <2>1. pre' = ClassAt(pos)
    BY <1>3
  <2>2. pos' - 1 = pos
    BY <1>1, <1>2, <1>7
  <2>3. ClassAt(pos - 1)' = ClassAt(pos)
    BY <1>3, <2>2 DEF ClassAt
  <2>4. rx.tail = 0 => index' = 0 \/ index' >= pos
    BY <1>7, CountAhead
  <2> QED
    BY <1>1, <1>3, <2>1, <2>2, <2>3, <2>4 DEF Closing
<1>8. ASSUME Clean(frame), rx.restarts \/ Clean(frame - 1)
      PROVE  /\ n = pos + 1 - rx.head /\ (ends <=> pos = rx.length)
             /\ \A i \in 1 .. pos + 1 - rx.head : buffer'[i] = <<frame, i + rx.head - 1>>
             /\ rx.latch # 0 /\ pos + 1 > rx.latch => kind' = <<frame, rx.latch>>
             /\ kept = <<>>
  BY <1>8, TrackedByte
<1> HIDE DEF n, ends, kept
<1>9. ASSUME pos # rx.length, Clean(frame), rx.restarts \/ Clean(frame - 1)
      PROVE  Tracking'
  <2>1. frame' = frame /\ pos' = pos + 1 /\ ~ends /\ n = pos + 1 - rx.head /\ kept = <<>>
    BY <1>2, <1>8, <1>9
  <2>2. results' = <<>>
    BY <1>3, <2>1
  <2>3. index' = n
    BY <1>1, <1>3, <1>9, <2>1 DEF AfterByte
  <2>4. \A i \in 1 .. pos' - rx.head : buffer'[i] = <<frame, i + rx.head - 1>>
    <3>1. \A i \in 1 .. pos + 1 - rx.head : buffer'[i] = <<frame, i + rx.head - 1>>
      BY <1>8, <1>9
    <3>2. pos' - rx.head = pos + 1 - rx.head
      BY <1>1, <2>1
    <3> QED
      BY <3>1, <3>2
  <2>5. rx.latch # 0 /\ pos' > rx.latch => kind' = <<frame, rx.latch>>
    BY <1>8, <1>9, <2>1
  <2> QED
    <3>1. index' = pos' - rx.head
      BY <1>1, <2>1, <2>3
    <3>2. \A i \in 1 .. pos' - rx'.head : buffer'[i] = <<frame', i + rx'.head - 1>>
      BY <1>3, <2>1, <2>4
    <3> QED
      BY <1>3, <2>1, <2>2, <2>5, <3>1, <3>2 DEF Tracking
<1>10. ASSUME pos = rx.length, Clean(frame), rx.restarts \/ Clean(frame - 1)
       PROVE  results' = <<frame>>
  <2>1. ends /\ kept = <<>>
    BY <1>8, <1>10
  <2>2. Whole(buffer', kind') = frame
    <3>1. \A i \in 1 .. rx.reads : buffer'[i] = <<frame, i + rx.head - 1>>
      BY <1>1, <1>8, <1>10
    <3>2. rx.latch # 0 => kind' = <<frame, rx.latch>>
      BY <1>1, <1>8, <1>10
    <3>3. rx.reads \in Nat \ {0}
      BY <1>1
    <3> QED
      BY <1>1, <3>1, <3>2, <3>3, WholeIs
  <2> QED
    BY <1>3, <2>1, <2>2
<1>11. Recovers'
  BY <1>1, <1>2, <1>3, <1>10 DEF Recovers, Clean
<1>12. pos' = 1 /\ Clean(frame - 1)' => Synced'
  BY <1>1, <1>2, <1>6 DEF Clean
<1>13. pos' > 1 /\ Clean(frame)' => Closing'
  BY <1>1, <1>2, <1>7 DEF Clean
<1>14. pos' > 1 /\ Clean(frame)' /\ (rx.restarts \/ Clean(frame - 1)') => Tracking'
  BY <1>1, <1>2, <1>9 DEF Clean
<1> QED
  BY <1>3, <1>4, <1>5, <1>11, <1>12, <1>13, <1>14 DEF RecoverInv

(* Every step preserves the invariant. *)
LEMMA RecoverNext == Inv /\ RecoverInv /\ [Next]_vars => RecoverInv'
<1> SUFFICES ASSUME Inv, RecoverInv, [Next]_vars PROVE RecoverInv'
  OBVIOUS
<1>1. CASE Lose
  BY <1>1, DirtyStep DEF Lose, RecoverInv
<1>2. ASSUME NEW c \in Class, Receive(c)
      PROVE  RecoverInv'
  <2>1. CASE c = ClassAt(pos)
    BY <1>2, <2>1, CleanByte
  <2>2. CASE c # ClassAt(pos)
    <3>1. rx.tail = 0 => index' < rx.length
      BY <1>2, CountBelowLength
    <3>2. Advance(TRUE) /\ rx' = rx
      BY <1>2, <2>2 DEF Receive, Advance
    <3> QED
      BY <3>1, <3>2, DirtyStep
  <2> QED
    BY <2>1, <2>2
<1>3. CASE UNCHANGED vars
  <2>1. UNCHANGED <<rx, frame, pos, dirty, noise, index, buffer, pre, kind, results>>
    BY <1>3 DEF vars, line_vars
  <2> QED
    BY <2>1 DEF RecoverInv, Clean, Recovers, Synced, Closing, Tracking, ClassAt
<1> QED
  BY <1>1, <1>2, <1>3 DEF Next

(* Whatever the line lost or aliased before, of two clean frames in a row  *)
(* the second is applied exactly once and as it was sent, and already the  *)
(* first if a header restarts the buffer: for each of the two framings,    *)
(* every length of frame and any pattern of noise.                         *)
THEOREM FrameRxRecovers == Spec => []Recovers
<1>1. Init => Inv /\ RecoverInv
  <2> SUFFICES ASSUME Init PROVE Inv /\ RecoverInv
    OBVIOUS
  <2>1. Inv
    BY InitEstablishesInv
  <2>2. rx.length \in Nat /\ rx.length > 1
    BY <2>1, ReceiverKinds DEF Inv, TypeOK
  <2> QED
    BY <2>1, <2>2 DEF Init, RecoverInv, Synced, Recovers
<1>2. Inv /\ RecoverInv /\ [Next]_vars => (Inv /\ RecoverInv)'
  BY NextPreservesInv, RecoverNext
<1>3. RecoverInv => Recovers
  BY DEF RecoverInv
<1> QED
  BY <1>1, <1>2, <1>3, PTL DEF Spec
=============================================================================
