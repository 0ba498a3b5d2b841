----------------------------- MODULE MCSampler -----------------------------
(* Constants for the runs of Sampler and SamplerHist.  The gear widths are *)
(* scaled to 1..3 (depths 0 and 5 are widths 2 and 1; depth 10, which the  *)
(* hose does not have, is width 0), a second to two periods, and the       *)
(* remote's limit to three.  Amount 3 rounds to no time at all, amount 4   *)
(* to one second; there is no bottle 9.                                    *)
EXTENDS SamplerHist

Ask(id, deep, amount) == [id |-> id, deep |-> deep, amount |-> amount]

\* the end of the hose, a draw of no time at the surface, a command with a
\* bottle and a depth that do not exist, and one that withdraws the last
MCBottles == {Ask(2, 5, 4), Ask(2, 0, 3), Ask(9, 10, 4), Ask(0, 5, 4)}

Keyed(e, g, d) == [enable |-> e, gear |-> g, draw |-> d]

MCKeyFrames == {Keyed(FALSE, FALSE, FALSE), Keyed(TRUE, FALSE, TRUE), Keyed(TRUE, TRUE, FALSE)}
=============================================================================
