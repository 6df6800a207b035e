--------------------------- MODULE MCJobLifecycle ---------------------------
(* Instances of JobLifecycle for TLC. *)
EXTENDS JobLifecycle, TLC

\* Jobs only differ by what happens to them, workers do not differ at all.
Symmetry == Permutations(Jobs) \cup Permutations(Workers)

=============================================================================
