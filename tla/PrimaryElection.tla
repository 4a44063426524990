-------------------------- MODULE PrimaryElection --------------------------
(***************************************************************************)
(* What route management promises about primaries (spec sections 2, 3,  *)
(* 4.4): each subnet prefix has at most one primary router; a node only   *)
(* becomes primary for a prefix that has none, and a primary only ever    *)
(* gives the role up (the prefix then has none until a later election).   *)
(* A primary is never handed straight from one node to another.           *)
(***************************************************************************)
CONSTANTS Nodes, Prefixes, NoPrimary

VARIABLE primary   \* primary[p]: the node routing prefix p, or NoPrimary

Init == primary = [p \in Prefixes |-> NoPrimary]

(* What may happen to the primary of one prefix in a step: nothing, an *)
(* election when it has none, or a resignation.                         *)
Elect(p)  == primary[p] = NoPrimary /\ primary'[p] \in Nodes
Resign(p) == primary[p] # NoPrimary /\ primary'[p] = NoPrimary

(* One transaction may touch the primaries of several prefixes at once. *)
Next ==
    /\ primary' \in [Prefixes -> Nodes \cup {NoPrimary}]
    /\ \A p \in Prefixes : primary'[p] = primary[p] \/ Elect(p) \/ Resign(p)

Spec == Init /\ [][Next]_primary
=============================================================================
