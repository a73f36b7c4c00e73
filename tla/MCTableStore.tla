---------------------------- MODULE MCTableStore ----------------------------
(* TableStore with rows and keys that are interchangeable. *)
EXTENDS TableStore, TLC

Symmetry == {p @@ q : p \in Permutations(Ids), q \in Permutations(Keys)}
=============================================================================
