---------------------------- MODULE MC_Registry ----------------------------
(* Small instance of Registry for TLC. *)
EXTENDS Registry, TLC

MC_MaxNodes == 2
MC_NumAddrs == 2
MC_MaxTime  == 0

(* Users and machine keys are interchangeable model values. *)
MC_Symmetry == Permutations(Users) \cup Permutations(MachineKeys)
=============================================================================
