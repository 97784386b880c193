--------------------------- MODULE MCEventDelivery ---------------------------
(* Instances of EventDelivery for TLC: see the .cfg files. *)
EXTENDS EventDelivery
==============================================================================
