---------------------------- MODULE MCWriteFlow ----------------------------
(***************************************************************************)
(* WriteFlow on small instances: the bounds are in the configurations.     *)
(***************************************************************************)
EXTENDS WriteFlow
=============================================================================
