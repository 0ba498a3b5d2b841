------------------------------- MODULE MCBoot -------------------------------
(* The order of the priorities 2, 3, 10, 10 and 31 of the source, and its  *)
(* delays of 40 and 100 ticks scaled down.                                 *)
EXTENDS Boot

MCPrio == [t \in Threads |->
             CASE t = "raspberry" -> 0 [] t = "manager" -> 1
               [] t \in {"main", "energy"} -> 2 [] t = "idle" -> 3]

MCSlice == [t \in Threads |-> IF t = "main" THEN 2 ELSE 1]

MCDelay == [t \in {"manager", "energy"} |-> IF t = "manager" THEN 3 ELSE 2]
=============================================================================
