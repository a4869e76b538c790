---------------------------- MODULE MCSupervisor ----------------------------
(* Supervisor for TLC: one click and one command of another kind. *)
EXTENDS Supervisor

CONSTANTS click, walk
=============================================================================
