--------------------------- MODULE MCIdempotency ---------------------------
(* Small instance of Idempotency for TLC. *)
EXTENDS Idempotency, TLC

\* Requests are interchangeable.
Symmetry == Permutations(Requests)

=============================================================================
