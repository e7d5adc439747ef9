------------------------ MODULE MCTransactionalEmail ------------------------
(* Small instance of TransactionalEmail for TLC. *)
EXTENDS TransactionalEmail
=============================================================================
