------------------------------ MODULE MCThrust ------------------------------
(* Widths in units of 125 microseconds, angles of the cruise in units of   *)
(* 22.5 degrees, two of which abs() takes for a whole one; directions of   *)
(* the server in degrees.                                                  *)
EXTENDS Thrust

MCAngles == {d - 90 * q : d \in {-1, 0, 225, 360}, q \in 0 .. 3}

\* cosine in thousandths, for the angles above
CosTable(a) ==
  LET b == a % 360
  IN  CASE b = 0 -> 1000 [] b = 45 -> 707 [] b = 90 -> 0 [] b = 135 -> -707 [] b = 180 -> -1000
        [] b = 225 -> -707 [] b = 270 -> 0 [] b = 315 -> 707
        [] b = 359 -> 999 [] b = 269 -> -17 [] b = 179 -> -999 [] b = 89 -> 17
MCCos == [a \in MCAngles |-> CosTable(a)]
MCSin == [a \in MCAngles |-> CosTable(a - 90)]

\* 1000 * (1 / (1 + exp(-0.05 * 0.5 * e)) - 0.5) at e = 22.5, 45, ..., 180 degrees
MCSway == LET t == <<1, 2, 2, 3, 3, 3, 3, 3>>
          IN  [e \in -8 .. 8 |-> IF e = 0 THEN 0 ELSE IF e > 0 THEN t[e] ELSE -t[-e]]

\* arrived; next to the target; further than 10 m
MCDistances == {0, 5, 10}
MCNearPush == [d \in MCDistances |-> (35 * d) \div 125]
MCFarPush == LET t == <<3, 3, 3, 2, 0, -1, 0, 0, 0>> IN [p \in MCDistances \X (0 .. 8) |-> t[p[2] + 1]]

\* two places; a coordinate of one with a coordinate of the other is a third
MCCourse == [p \in {0, 1, 2} \X {0, 1, 2} |->
               IF p = <<1, 1>> THEN [bearing |-> 2, distance |-> 10]
               ELSE IF p = <<2, 2>> THEN [bearing |-> -5, distance |-> 5]
               ELSE IF p = <<1, 2>> THEN [bearing |-> -1, distance |-> 0]
               ELSE [bearing |-> 8, distance |-> 10]]
=============================================================================
