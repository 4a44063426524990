------------------------------- MODULE Routes -------------------------------
(***************************************************************************)
(* Subnet routes and primary election (hscontrol/db/node.go 456-623).    *)
(* A route row belongs to a node and a prefix and carries the flags       *)
(* Advertised, Enabled and IsPrimary.  enableRoutes validates the whole   *)
(* batch against the advertised routes, then marks each route enabled and *)
(* primary iff the node is the only one offering the prefix.  The rows    *)
(* are written by the device's advertisements and removed with the node.  *)
(*                                                                         *)
(* enableRoutes runs in one write transaction.  Under serializable         *)
(* isolation it is one step (SerialSpec).  Under read committed, the      *)
(* default of PostgreSQL, its reads see only committed rows, so it is a   *)
(* step that reads and decides and a step that commits (ReadCommittedSpec).*)
(***************************************************************************)
EXTENDS Naturals, FiniteSets

CONSTANTS
    Nodes,          \* node IDs
    Prefixes,       \* route prefixes
    ExitPrefixes,   \* the exit routes 0.0.0.0/0 and ::/0
    NoPrimary       \* "no node" in the abstract election

ASSUME RoutesAssumption ==
    /\ ExitPrefixes \subseteq Prefixes
    /\ NoPrimary \notin Nodes

VARIABLES
    routes,    \* routes[n][p]: the route row of node n for prefix p
    deleted,   \* the nodes whose rows were deleted
    pending    \* pending[n]: an enableRoutes transaction that has read
               \* and not committed (read committed only)

rvars == <<routes, deleted, pending>>

NoRoute   == [absent |-> TRUE]
NoPending == [idle |-> TRUE]

(* types.Route, reduced to the flags of one node's route for one prefix. *)
RouteRow == [advertised : BOOLEAN, enabled : BOOLEAN, primary : BOOLEAN]

Row(adv, en, pri) == [advertised |-> adv, enabled |-> en, primary |-> pri]

HasRoute(n, p) == routes[n][p] # NoRoute

(* GetAdvertisedRoutes: the prefixes of the node's advertised rows. *)
GetAdvertisedRoutes(n) ==
    {p \in Prefixes : HasRoute(n, p) /\ routes[n][p].advertised}

(* Mutant: only advertised routes of other nodes count as offers. *)
MutIsUniquePrefix(n, p) ==
    \A m \in Nodes \ {n} : HasRoute(m, p) => ~routes[m][p].advertised

(* isUniquePrefix: no other node offers the prefix (spec 4.4: a route   *)
(* that is enabled or advertised).                                       *)
IsUniquePrefix(n, p) ==
    \A m \in Nodes \ {n} :
        HasRoute(m, p) => ~(routes[m][p].advertised \/ routes[m][p].enabled)

(* Mutant: the exit-route check is dropped. *)
MutEnabled(n, rows, batch, primaryOf) ==
    [p \in Prefixes |->
        IF p \in batch
        THEN Row(rows[p].advertised, TRUE, primaryOf[p])
        ELSE routes[n][p]]

(* The rows of node n after the second loop of enableRoutes has saved   *)
(* each prefix of the batch: the row as First read it (rows), with        *)
(* Enabled set and IsPrimary as decided unless the route is an exit       *)
(* route.  Save writes every column of the row it read.                   *)
Enabled(n, rows, batch, primaryOf) ==
    [p \in Prefixes |->
        IF p \in batch
        THEN Row(rows[p].advertised, TRUE,
                 IF p \in ExitPrefixes THEN rows[p].primary ELSE primaryOf[p])
        ELSE routes[n][p]]

(* The validation of enableRoutes: every prefix is advertised by n (a  *)
(* deleted node advertises nothing).                                     *)
Valid(n, batch) == batch \subseteq GetAdvertisedRoutes(n)

-----------------------------------------------------------------------------
(* enableRoutes(node, routeStrs...) as one serializable transaction.  A  *)
(* batch with a prefix the node does not advertise is rejected before   *)
(* any write; a failing Save or read-back rolls the transaction back.    *)
(* Either way the tables are unchanged, which is a stutter.              *)
EnableRoutes(n, batch) ==
    /\ Valid(n, batch)
    /\ routes' = [routes EXCEPT ![n] =
                    Enabled(n, routes[n], batch,
                            [p \in batch |-> IsUniquePrefix(n, p)])]
    /\ UNCHANGED <<deleted, pending>>

(* Under read committed: GetAdvertisedRoutes, First and isUniquePrefix   *)
(* read the committed rows; what they read is kept until the commit.     *)
BeginEnableRoutes(n, batch) ==
    /\ pending[n] = NoPending
    /\ Valid(n, batch)
    /\ pending' = [pending EXCEPT ![n] =
                    [batch |-> batch, rows |-> routes[n],
                     primaryOf |-> [p \in batch |-> IsUniquePrefix(n, p)]]]
    /\ UNCHANGED <<routes, deleted>>

(* The commit publishes the saved rows.  If the node was deleted in the  *)
(* meantime, Save finds no row to update and its insert is refused by    *)
(* the routes' foreign key to the node, so the transaction rolls back.   *)
CommitEnableRoutes(n) ==
    /\ pending[n] # NoPending
    /\ routes' = IF n \in deleted THEN routes
                 ELSE [routes EXCEPT ![n] =
                        Enabled(n, pending[n].rows, pending[n].batch,
                                pending[n].primaryOf)]
    /\ pending' = [pending EXCEPT ![n] = NoPending]
    /\ UNCHANGED deleted

(* The device advertises or withdraws a prefix, in a transaction of its  *)
(* own.  A new advertisement creates the row; a withdrawal only clears   *)
(* Advertised (spec 3: Enabled implies Advertised is not enforced by     *)
(* storage, and only administrators and the election toggle Enabled and  *)
(* IsPrimary).  Upstream's SaveNodeRoutes also clears Enabled on a       *)
(* withdrawal; the withdrawn primary then stops counting as an offer.    *)
Advertise(n, p, adv) ==
    /\ n \notin deleted
    /\ adv \/ HasRoute(n, p)
    /\ routes' = [routes EXCEPT ![n][p] =
                    IF HasRoute(n, p) THEN Row(adv, @.enabled, @.primary)
                    ELSE Row(adv, FALSE, FALSE)]
    /\ UNCHANGED <<deleted, pending>>

(* DeleteNode: deleteNodeRoutes, then the node row itself; deleting a   *)
(* node that is already gone deletes nothing and succeeds.               *)
DeleteNode(n) ==
    /\ routes' = [routes EXCEPT ![n] = [p \in Prefixes |-> NoRoute]]
    /\ deleted' = deleted \cup {n}
    /\ UNCHANGED pending

Init ==
    /\ routes = [n \in Nodes |-> [p \in Prefixes |-> NoRoute]]
    /\ deleted = {}
    /\ pending = [n \in Nodes |-> NoPending]

Others ==
    \/ \E n \in Nodes, p \in Prefixes, adv \in BOOLEAN : Advertise(n, p, adv)
    \/ \E n \in Nodes : DeleteNode(n)

SerialNext ==
    \/ \E n \in Nodes, batch \in SUBSET Prefixes : EnableRoutes(n, batch)
    \/ Others

ReadCommittedNext ==
    \/ \E n \in Nodes, batch \in SUBSET Prefixes : BeginEnableRoutes(n, batch)
    \/ \E n \in Nodes : CommitEnableRoutes(n)
    \/ Others

SerialSpec == Init /\ [][SerialNext]_rvars

ReadCommittedSpec == Init /\ [][ReadCommittedNext]_rvars

-----------------------------------------------------------------------------
(* Every row is a types.Route or absent, and no exit route is ever      *)
(* primary: enableRoutes leaves IsPrimary of an exit route as stored.    *)
RoutesTypeOK ==
    /\ routes \in [Nodes -> [Prefixes -> RouteRow \cup {NoRoute}]]
    /\ \A n \in Nodes, x \in ExitPrefixes :
          HasRoute(n, x) => ~routes[n][x].primary
    /\ deleted \subseteq Nodes
    /\ \A n \in Nodes : pending[n] = NoPending \/ pending[n].batch \subseteq Prefixes

(* The primary of each prefix, as the abstract election sees it. *)
Primaries(p) == {n \in Nodes : HasRoute(n, p) /\ routes[n][p].primary}

(* Spec sections 2, 3, 5: for each non-exit prefix at most one node is   *)
(* primary, whichever order administrators enable routes on nodes that   *)
(* advertise, withdraw and are deleted.                                   *)
AtMostOnePrimary ==
    \A p \in Prefixes \ ExitPrefixes : Cardinality(Primaries(p)) <= 1

(* Spec 4.4 and 8: a later enable never takes the primary role from the *)
(* node that holds it, as long as that node keeps its route.             *)
NoPrimaryDemotion ==
    [][\A n \in Nodes, p \in Prefixes :
          HasRoute(n, p) /\ routes[n][p].primary /\ HasRoute(n, p)'
              => routes'[n][p].primary]_rvars

(* Spec sections 3 and 4.4: Advertised records what the device asked    *)
(* for, and enabling a route never advertises it again after the device  *)
(* withdrew it.                                                           *)
EnableKeepsWithdrawal ==
    [][\A n \in Nodes, p \in Prefixes :
          \A batch \in SUBSET Prefixes :
              (EnableRoutes(n, batch) \/ BeginEnableRoutes(n, batch)
               \/ CommitEnableRoutes(n))
              /\ HasRoute(n, p) /\ ~routes[n][p].advertised
                  => ~routes'[n][p].advertised]_rvars

(* The refinement: the primaries of the route table implement the       *)
(* abstract election of PrimaryElection, one prefix at a time.           *)
primaryMap ==
    [p \in Prefixes \ ExitPrefixes |->
        IF Primaries(p) = {} THEN NoPrimary ELSE CHOOSE n \in Primaries(p) : TRUE]

Election == INSTANCE PrimaryElection
                WITH Prefixes <- Prefixes \ ExitPrefixes, primary <- primaryMap

ElectionSpec == Election!Spec
=============================================================================
