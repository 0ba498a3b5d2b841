------------------------------ MODULE MCSerial ------------------------------
(* The orders of the four calls in the init functions of the drivers.      *)
(* Buffers of 2 and 4 stand for the default of 64 and the larger sizes.   *)
EXTENDS SerialPort

\* init_lora, init_water
Lora == [order |-> <<"config", "open", "sem_init", "indicate">>, console |-> FALSE]
\* init_raspberry: the same order, on the console's UART
Raspberry == [Lora EXCEPT !.console = TRUE]
\* init_compass (radar)
Compass == [order |-> <<"config", "indicate", "open", "sem_init">>, console |-> FALSE]
\* init_gps
Gps == [order |-> <<"open", "config", "indicate", "sem_init">>, console |-> FALSE]

AllPorts == {Lora, Raspberry, Compass, Gps}
CompassPort == {Compass}
=============================================================================
