----------------------------- MODULE MCAppeals ------------------------------
(* Small instance of Appeals for TLC. *)
EXTENDS Appeals
=============================================================================
