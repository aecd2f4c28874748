---------------------------- MODULE MCSupervisor ----------------------------
(* Small instances of the supervisor for TLC. *)
EXTENDS SupervisorExecution
=============================================================================
