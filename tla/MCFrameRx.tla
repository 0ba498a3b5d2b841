----------------------------- MODULE MCFrameRx -----------------------------
(* The five receivers.  Their frames are shortened to a type byte, a data  *)
(* byte or two, header and trailer; the relations between length, cut and  *)
(* size are the code's: the server's buffer is abandoned one place before  *)
(* its end, the radar's right after a whole frame, and the two frames of   *)
(* fixed length never get that far.                                        *)
EXTENDS FrameRx

\* "S2,...Z": buffer[50], abandoned at index 49; info_type is kept
Raspberry == [length |-> 4, head |-> 1, tail |-> 1, restarts |-> FALSE, blind |-> FALSE, latch |-> 2,
              reads |-> 4, cut |-> 6, size |-> 8, binary |-> FALSE]
\* "A..Z" and "H..Z": buffer[32], abandoned above 20; data_type is kept
Lora == [length |-> 4, head |-> 1, tail |-> 1, restarts |-> TRUE, blind |-> FALSE, latch |-> 1,
         reads |-> 4, cut |-> 5, size |-> 8, binary |-> FALSE]
\* AA AA ... 55 55: abandoned above 13
Radar == [length |-> 6, head |-> 2, tail |-> 2, restarts |-> FALSE, blind |-> TRUE, latch |-> 0,
          reads |-> 3, cut |-> 5, size |-> 9, binary |-> TRUE]
\* 55 and ten bytes; the water probe's 06 and eleven bytes
Gps == [length |-> 4, head |-> 1, tail |-> 0, restarts |-> FALSE, blind |-> FALSE, latch |-> 0,
        reads |-> 4, cut |-> 4, size |-> 9, binary |-> TRUE]
Water == [Gps EXCEPT !.length = 5, !.reads = 5, !.cut = 5]

AllReceivers == {Raspberry, Lora, Radar, Gps, Water}
=============================================================================
