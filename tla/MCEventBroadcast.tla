-------------------------- MODULE MCEventBroadcast --------------------------
(* Two clients, one of which may stop reading, on a channel of two events.     *)
EXTENDS EventBroadcast
=============================================================================
