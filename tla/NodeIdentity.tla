---------------------------- MODULE NodeIdentity ----------------------------
(***************************************************************************)
(* What the node store promises about node IDs (spec sections 2 and 3):  *)
(* IDs are handed out once each, in increasing order; an ID stays bound   *)
(* to the owner and addresses it was registered with for as long as      *)
(* anything (the table or a copy awaiting re-authorisation) remembers    *)
(* it; once nothing does, the ID is dead for good; and a node in the      *)
(* table always carries the identity bound to its ID.                    *)
(***************************************************************************)
EXTENDS Naturals

CONSTANTS
    MaxId,        \* IDs are 1 .. MaxId
    Identities,   \* what an ID is bound to: an owner and an address
    None          \* the ID is bound to nothing

VARIABLES
    next,    \* the next ID to hand out
    bound,   \* bound[i]: the identity ID i is bound to, or None
    live     \* the IDs with a node in the table

Ids == 1 .. MaxId

Init ==
    /\ next = 1
    /\ bound = [i \in Ids |-> None]
    /\ live = {}

(* A new node gets the next ID, bound to its identity. *)
Issue(v) ==
    /\ next \in Ids
    /\ next' = next + 1
    /\ bound' = [bound EXCEPT ![next] = v]
    /\ live' = live \cup {next}

(* Any other step may remove nodes, forget IDs and bring back nodes, but *)
(* it neither rebinds nor revives an ID, and a node can only come back  *)
(* with the identity its ID is bound to.                                 *)
Update ==
    /\ next' = next
    /\ bound' \in [Ids -> Identities \cup {None}]
    /\ \A i \in Ids : bound'[i] \in {bound[i], None}
    /\ live' \subseteq {i \in Ids : bound'[i] # None}

Next == (\E v \in Identities : Issue(v)) \/ Update

Spec == Init /\ [][Next]_<<next, bound, live>>
=============================================================================
