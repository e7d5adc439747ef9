-------------------------- MODULE MCStandardMedia --------------------------
(* Small instances of StandardMedia.                                       *)
EXTENDS StandardMedia, TLC

\* Handlers are interchangeable; a session is created in a fixed order.
Symmetry == Permutations(Tasks)

=============================================================================
