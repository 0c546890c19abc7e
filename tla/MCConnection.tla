---------------------------- MODULE MCConnection ----------------------------
(* Small instances of Connection for TLC. *)
EXTENDS Connection

OneInfo == {[headers |-> TRUE, max_payload |-> 1, lame_duck |-> FALSE]}

\* Calls are interchangeable.
Symmetry == Permutations(Calls)
=============================================================================
