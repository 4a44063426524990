---------------------------- MODULE MC_Lifecycle ----------------------------
(* Small instance of Lifecycle for TLC. *)
EXTENDS Lifecycle, TLC

MC_MaxNodes  == 2
MC_NumAddrs  == 2
MC_MaxTime   == 2
MC_Threshold == 0

(* Two passes after a report need a longer clock. *)
MC_LongMaxTime == 3

(* Users and machine keys are interchangeable model values. *)
MC_Symmetry == Permutations(Users) \cup Permutations(MachineKeys)

(* The sweeps read expiry, lastSeen, ephemeral and the owner only, and   *)
(* lastSeen only of ephemeral nodes, so this instance leaves the         *)
(* interactive registration path to the Registry runs: states with a     *)
(* pending registration, a tag set or a non-ephemeral node's lastSeen    *)
(* set are checked but not explored further.                             *)
MC_Constraint ==
    /\ \A i \in Existing : nodes[i].tags = {}
    /\ \A i \in Existing : ~nodes[i].ephemeral => nodes[i].lastSeen = NULL
    /\ \A m \in MachineKeys : cache[m] = NoEntry
=============================================================================
