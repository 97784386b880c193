--------------------------- MODULE MCRunLifecycle ---------------------------
(***************************************************************************)
(* Instances of RunLifecycle for TLC: the constants are given in the .cfg   *)
(* files, as model values and small sets.                                  *)
(***************************************************************************)
EXTENDS RunLifecycle
=============================================================================
