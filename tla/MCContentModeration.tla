------------------------ MODULE MCContentModeration ------------------------
(* Instances of ContentModeration for TLC. *)
EXTENDS ContentModeration, TLC

\* Consumers and moderators are interchangeable, and so are posts.
Symmetry == Permutations(Posts) \cup Permutations(Consumers) \cup Permutations(Moderators)

=============================================================================
