------------------------------ MODULE MCLabScreen ------------------------------
(* A lab session of a few runs; the later runs are not the faster ones. *)
EXTENDS LabScreen

MCSpeed == <<2, 3, 1, 4, 0>>
MCSpeeds == [k \in 1..MaxRuns |-> MCSpeed[k]]
================================================================================
