-------------------------- MODULE MCNetfreeMonitor --------------------------
(***************************************************************************)
(* Instances of NetfreeMonitor for TLC.                                    *)
(***************************************************************************)
EXTENDS NetfreeMonitor
=============================================================================
