--------------------------- MODULE MCCheckRaceConds ---------------------------
(* Instance of CheckRaceConds with the arithmetic of MCGrid. *)
EXTENDS CheckRaceConds, MCGrid

MCSerial[n \in 0 .. maxBound] == IF n = 0 THEN u0 ELSE Sweep(MCSerial[n - 1])
=============================================================================
