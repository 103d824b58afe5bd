---------------------------- MODULE MCTaskPubSub ----------------------------
(* TaskPubSub on small instances. *)
EXTENDS TaskPubSub, TLC

\* Clients are interchangeable, and so are stdout and stderr.
Symmetry == Permutations(Streams) \cup Permutations(Writers)
=============================================================================
