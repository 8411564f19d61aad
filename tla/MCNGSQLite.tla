----------------------------- MODULE MCNGSQLite -----------------------------
(* Two interchangeable result sets. *)
EXTENDS NGSQLite, TLC

Symmetry == Permutations(ResultSets)
=============================================================================
