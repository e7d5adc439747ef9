--------------------------- MODULE MCAuthSessions ---------------------------
(* Small instance of AuthSessions for TLC. *)
EXTENDS AuthSessions, TLC

\* Session, challenge and request identifiers are interchangeable.
Symmetry == Permutations(Sessions) \cup Permutations(Challenges) \cup Permutations(Requests)
=============================================================================
