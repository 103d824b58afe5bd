------------------------------ MODULE Overlays ------------------------------
(***************************************************************************)
(* Setting some of the entries of a record, an environment or a directory  *)
(* and leaving the others as they were.                                    *)
(***************************************************************************)

\* The entries of "new", and those of "old" that "new" does not have.
Overlay(new, old) ==
    [x \in DOMAIN new \cup DOMAIN old |-> IF x \in DOMAIN new THEN new[x] ELSE old[x]]

\* One entry.
Entry(name, value) == [x \in {name} |-> value]
=============================================================================
