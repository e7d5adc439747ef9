------------------------- MODULE MCAuthenticityBeta -------------------------
(* Small instances of AuthenticityBeta for TLC. *)
EXTENDS AuthenticityBeta, TLC

\* Lease holders are interchangeable; there is one case.
Symmetry == Permutations(Tasks)

=============================================================================
