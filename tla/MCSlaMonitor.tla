---------------------------- MODULE MCSlaMonitor ----------------------------
(***************************************************************************)
(* SlaMonitor on small instances.                                          *)
(***************************************************************************)
EXTENDS SlaMonitor
=============================================================================
