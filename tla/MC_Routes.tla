----------------------------- MODULE MC_Routes -----------------------------
(* Small instance of Routes for TLC. *)
EXTENDS Routes, TLC

(* Nodes are interchangeable model values. *)
MC_Symmetry == Permutations(Nodes)
=============================================================================
