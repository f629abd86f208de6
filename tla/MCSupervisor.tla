---------------------------- MODULE MCSupervisor ----------------------------
(* Supervisor with small bounds.                                           *)
EXTENDS Supervisor
=============================================================================
