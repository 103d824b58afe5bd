--------------------------- MODULE MCJobLifecycle ---------------------------
(* JobLifecycle on small instances. *)
EXTENDS JobLifecycle, TLC

\* StopJob calls are interchangeable.
Symmetry == Permutations(Stoppers)
=============================================================================
