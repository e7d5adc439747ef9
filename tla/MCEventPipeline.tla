-------------------------- MODULE MCEventPipeline ---------------------------
(* Small instance of EventPipeline for TLC. *)
EXTENDS EventPipeline
=============================================================================
