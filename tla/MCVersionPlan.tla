----------------------------- MODULE MCVersionPlan -----------------------------
(* Three operators, the first pre-v1; the second has three lines of Kafka. *)
EXTENDS VersionPlan, TLC

MCWindow == 1 :> {10, 20} @@ 2 :> {10, 20, 21, 30} @@ 3 :> {30, 40}
================================================================================
