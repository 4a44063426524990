------------------------------ MODULE Lifecycle ------------------------------
(***************************************************************************)
(* The time-driven part of hscontrol/db/node.go, on top of the registry:  *)
(* the wall clock, NodeSetExpiry and UpdateLastSeen, and the two periodic *)
(* sweeps ExpireEphemeralNodes and ExpireExpiredNodes with the cursor the *)
(* scheduler keeps between passes of the second.  Each sweep runs in one  *)
(* write transaction, so each pass is one step; the registry's operations *)
(* interleave with the passes.                                             *)
(***************************************************************************)
EXTENDS Registry

CONSTANT InactivityThreshold   \* the ephemeral inactivity timeout

ASSUME ThresholdAssumption == InactivityThreshold \in Nat

VARIABLES
    now,        \* the wall clock (time.Now())
    lastCheck,  \* the cursor the scheduler passes to ExpireExpiredNodes
    update,     \* the StateUpdate the last step returned for broadcasting
    written,    \* history: the expiry ExpireExpiredNodes last wrote per node
    awaiting    \* history: nodes whose expiry was set in the future and
                \* that no pass has reported yet

lvars == <<vars, now, lastCheck, update, written, awaiting>>

(* StateUpdate values: which sweep returned it, its type and its IDs. *)
NoUpdate == [kind |-> "none", type |-> "none", ids |-> {}]
Updates  == [kind : {"none", "ephemeral", "expiry"},
             type : {"none", "PeerRemoved", "PeerChangedPatch"},
             ids  : SUBSET NodeId]

(* types.Node.IsExpired at time t: an expiry that is set and before t. *)
IsExpiredAt(n, t) == n.expiry # NULL /\ n.expiry < t

(* The ephemeral sweep's test: time.Now().After(LastSeen + threshold). *)
Inactive(i) ==
    /\ nodes[i].ephemeral
    /\ nodes[i].lastSeen # NULL
    /\ now > nodes[i].lastSeen + InactivityThreshold

(* After a step other than a sweep: a node whose expiry the step set (or *)
(* that the step created) awaits a report iff that expiry is in the      *)
(* future; the others keep their status.                                 *)
AwaitingAfterStep ==
    {i \in NodeId :
        /\ Exists(i)'
        /\ IF ~Exists(i) \/ nodes'[i].expiry # nodes[i].expiry
           THEN nodes'[i].expiry # NULL /\ nodes'[i].expiry > now
           ELSE i \in awaiting}

-----------------------------------------------------------------------------
(* An operation of the registry: it does not read the clock. *)
RegistryStep ==
    /\ Next
    /\ update' = NoUpdate
    /\ awaiting' = AwaitingAfterStep
    /\ UNCHANGED <<now, lastCheck, written>>

(* NodeSetExpiry(nodeID, expiry): UPDATE nodes SET expiry WHERE id = ?. *)
NodeSetExpiry(i, t) ==
    /\ UpdateRow(i, LAMBDA n : [n EXCEPT !.expiry = t])
    /\ update' = NoUpdate
    /\ awaiting' = AwaitingAfterStep
    /\ UNCHANGED <<now, lastCheck, written>>

(* UpdateLastSeen(nodeID, lastSeen), called with the current time. *)
UpdateLastSeen(i) ==
    /\ UpdateRow(i, LAMBDA n : [n EXCEPT !.lastSeen = now])
    /\ update' = NoUpdate
    /\ UNCHANGED <<now, lastCheck, written, awaiting>>

Tick ==
    /\ now < MaxTime
    /\ now' = now + 1
    /\ update' = NoUpdate
    /\ UNCHANGED <<vars, lastCheck, written, awaiting>>

-----------------------------------------------------------------------------
(* ExpireEphemeralNodes: for each user in ListUsers order, the user's    *)
(* inactive ephemeral nodes are collected and deleted.  A failure to list *)
(* one user's nodes ends the pass with no update, after the nodes of the *)
(* users before it were deleted; `done` are the users listed before the  *)
(* pass ends.  A failed DeleteNode is logged and the node stays, but its *)
(* ID was already collected.                                              *)
ExpireEphemeralNodes(done, aborted) ==
    /\ aborted = (done # Users)
    /\ LET cands == {i \in Existing : nodes[i].user \in done /\ Inactive(i)}
       IN  \E failed \in SUBSET cands :
              /\ nodes' = [i \in NodeId |->
                              IF i \in cands \ failed THEN NoNode ELSE nodes[i]]
              /\ update' = IF ~aborted /\ cands # {}
                           THEN [kind |-> "ephemeral", type |-> "PeerRemoved",
                                 ids |-> cands]
                           ELSE [NoUpdate EXCEPT !.kind = "ephemeral"]
              /\ awaiting' = awaiting \ (cands \ failed)
    /\ UNCHANGED <<cache, nextId, outcome, now, lastCheck, written>>

(* Mutant: the cursor returned is the time after the scan, not before it. *)
MutExpireExpiredNodes(listFails) ==
    \/ /\ listFails
       /\ lastCheck' = 0
       /\ update' = [NoUpdate EXCEPT !.kind = "expiry"]
       /\ UNCHANGED <<vars, now, written, awaiting>>
    \/ /\ ~listFails
       /\ now < MaxTime
       /\ LET t == now + 1
              rep == {i \in Existing : IsExpiredAt(nodes[i], t)
                                       /\ nodes[i].expiry > lastCheck}
          IN  \E failed \in SUBSET rep :
                 /\ nodes' = [i \in NodeId |->
                        IF i \in rep \ failed
                        THEN [nodes[i] EXCEPT !.expiry = t] ELSE nodes[i]]
                 /\ written' = [i \in NodeId |->
                        IF i \in rep \ failed THEN t ELSE written[i]]
                 /\ awaiting' = awaiting \ rep
                 /\ update' = IF rep # {}
                              THEN [kind |-> "expiry", type |-> "PeerChangedPatch",
                                    ids |-> rep]
                              ELSE [NoUpdate EXCEPT !.kind = "expiry"]
                 /\ now' = t
                 /\ lastCheck' = t
       /\ UNCHANGED <<cache, nextId, outcome>>

(* ExpireExpiredNodes(lastCheck): `started` is read first; every node   *)
(* expired at the time of the scan whose expiry is after lastCheck is    *)
(* reported with its old expiry and its expiry set to time.Now(), read   *)
(* after `started` and so strictly later on a nanosecond clock.  A       *)
(* failing update is logged and the node is reported anyway.  A failure *)
(* to list the nodes returns time.Unix(0, 0) as the next cursor.         *)
ExpireExpiredNodes(listFails) ==
    \/ /\ listFails
       /\ lastCheck' = 0
       /\ update' = [NoUpdate EXCEPT !.kind = "expiry"]
       /\ UNCHANGED <<vars, now, written, awaiting>>
    \/ /\ ~listFails
       /\ now < MaxTime
       /\ LET started == now
              t == now + 1
              rep == {i \in Existing : IsExpiredAt(nodes[i], t)
                                       /\ nodes[i].expiry > lastCheck}
          IN  \E failed \in SUBSET rep :
                 /\ nodes' = [i \in NodeId |->
                        IF i \in rep \ failed
                        THEN [nodes[i] EXCEPT !.expiry = t] ELSE nodes[i]]
                 /\ written' = [i \in NodeId |->
                        IF i \in rep \ failed THEN t ELSE written[i]]
                 /\ awaiting' = awaiting \ rep
                 /\ update' = IF rep # {}
                              THEN [kind |-> "expiry", type |-> "PeerChangedPatch",
                                    ids |-> rep]
                              ELSE [NoUpdate EXCEPT !.kind = "expiry"]
                 /\ now' = t
                 /\ lastCheck' = started
       /\ UNCHANGED <<cache, nextId, outcome>>

-----------------------------------------------------------------------------
LInit ==
    /\ Init
    /\ now = 0
    /\ lastCheck = 0          \* the scheduler starts from time.Unix(0, 0)
    /\ update = NoUpdate
    /\ written = [i \in NodeId |-> NULL]
    /\ awaiting = {}

LNext ==
    \/ RegistryStep
    \/ \E i \in NodeId :
          \/ \E t \in Time : NodeSetExpiry(i, t)
          \/ UpdateLastSeen(i)
    \/ Tick
    \/ \E done \in SUBSET Users, aborted \in BOOLEAN :
          ExpireEphemeralNodes(done, aborted)
    \/ \E listFails \in BOOLEAN : ExpireExpiredNodes(listFails)

LSpec == LInit /\ [][LNext]_lvars

-----------------------------------------------------------------------------
(* The clock, the cursor and the returned updates are well formed. *)
LifecycleTypeOK ==
    /\ TypeOK
    /\ now \in Time
    /\ lastCheck \in Time
    /\ update \in Updates
    /\ written \in [NodeId -> Time \cup {NULL}]
    /\ awaiting \subseteq Existing

(* The cursor never passes an expiry that no pass has reported: reading *)
(* `started` before the scan and returning it means that a node whose   *)
(* expiry lies in the future when it is set is still after the cursor   *)
(* on every later pass until one of them reports it.                    *)
NoMissedExpiry ==
    \A i \in awaiting : nodes[i].expiry > lastCheck

(* Spec section 8: a second pass never reports again a node that the    *)
(* first pass marked expired, because the expiry it wrote is not after  *)
(* the cursor.  The pass writes time.Now(), later than `started`.       *)
ExpiredReportedOnce ==
    [][update'.kind = "expiry" =>
          \A i \in update'.ids : written[i] # nodes[i].expiry]_lvars

(* Spec section 4.5: the PeerRemoved update lists nodes the pass deleted. *)
(* A failed DeleteNode is logged after the ID was collected.            *)
RemovedAreAbsent ==
    [][update'.type = "PeerRemoved" =>
          \A i \in update'.ids : ~Exists(i)']_lvars

(* Every node the ephemeral sweep deletes reaches the peers in the      *)
(* PeerRemoved update it returns.  A failure to list one user's nodes   *)
(* returns no update after the earlier users' nodes were deleted.       *)
DeletedAreAnnounced ==
    [][update'.kind = "ephemeral" =>
          \A i \in NodeId : Exists(i) /\ ~Exists(i)' => i \in update'.ids]_lvars
=============================================================================
