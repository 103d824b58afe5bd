---------------------------- MODULE MCJobService ----------------------------
(* JobService on a small instance. *)
EXTENDS JobService

\* An admin behind another unit, a viewer that is an admin only second, and a
\* certificate that names no role.
SomeCerts == {<<"other", "Admin">>, <<"viewer", "admin">>, <<"other">>}
=============================================================================
