--------------------------- MODULE LifecycleProofs ---------------------------
(***************************************************************************)
(* Proofs about the lifecycle sweeps: the state stays well typed, and the *)
(* cursor returned by ExpireExpiredNodes never passes an expiry that no   *)
(* pass has reported (NoMissedExpiry), for every value of the constants.  *)
(***************************************************************************)
EXTENDS Lifecycle, IdentityProofs

(* NoMissedExpiry is not inductive: the comparison needs the expiry of   *)
(* an awaiting node to be a time, and the epoch reset and the new cursor *)
(* need the cursor to lag the clock.                                     *)
LInv ==
    /\ LifecycleTypeOK
    /\ lastCheck <= now
    /\ \A i \in awaiting : nodes[i].expiry \in Time
    /\ NoMissedExpiry

(* What a step that changes no existence outside its own row and keeps    *)
(* the clock needs for the awaiting set it recomputes.                   *)
LEMMA AwaitingAfterStepOK ==
    ASSUME LInv, TypeOK', awaiting' = AwaitingAfterStep,
           UNCHANGED <<now, lastCheck>>
    PROVE  /\ awaiting' \subseteq Existing'
           /\ \A i \in awaiting' : nodes'[i].expiry \in Time
           /\ NoMissedExpiry'
<1> SUFFICES ASSUME NEW i \in awaiting'
             PROVE  /\ i \in Existing'
                    /\ nodes'[i].expiry \in Time
                    /\ nodes'[i].expiry > lastCheck'
  BY DEF NoMissedExpiry
<1>1. i \in NodeId /\ Exists(i)'
  BY DEF AwaitingAfterStep
<1>2. nodes'[i] \in NodeRec
  BY <1>1 DEF TypeOK, Exists
<1>3. CASE ~Exists(i) \/ nodes'[i].expiry # nodes[i].expiry
  <2>1. nodes'[i].expiry # NULL /\ nodes'[i].expiry > now
    BY <1>3 DEF AwaitingAfterStep
  <2>2. nodes'[i].expiry \in Time
    BY <1>2, <2>1 DEF NodeRec
  <2>3. now \in Time /\ lastCheck \in Time /\ lastCheck <= now
    BY DEF LInv, LifecycleTypeOK
  <2>4. i \in Existing'
    BY <1>1 DEF Existing
  <2>5. lastCheck' = lastCheck
    OBVIOUS
  <2>6. nodes'[i].expiry > lastCheck
    BY <2>1, <2>2, <2>3, MaxTimeAssumption DEF Time
  <2> QED  BY <2>2, <2>4, <2>5, <2>6
<1>4. CASE Exists(i) /\ nodes'[i].expiry = nodes[i].expiry
  <2>1. i \in awaiting
    BY <1>4 DEF AwaitingAfterStep
  <2> QED  BY <1>1, <1>4, <2>1 DEF LInv, NoMissedExpiry, Existing
<1> QED  BY <1>3, <1>4

LEMMA LInvInit == LInit => LInv
<1> SUFFICES ASSUME LInit PROVE LInv
  OBVIOUS
<1>1. TypeOK  BY TypeInit DEF LInit
<1> QED  BY <1>1, MaxTimeAssumption
         DEF LInit, LInv, LifecycleTypeOK, NoMissedExpiry, Time, NoUpdate,
             Updates

LEMMA LInvNext == LInv /\ [LNext]_lvars => LInv'
<1> SUFFICES ASSUME LInv, [LNext]_lvars PROVE LInv'
  OBVIOUS
<1> USE DEF LInv, LifecycleTypeOK
<1>1. CASE RegistryStep
  <2>1. TypeOK'  BY <1>1, TypeNext DEF RegistryStep
  <2>2. /\ awaiting' \subseteq Existing'
        /\ \A i \in awaiting' : nodes'[i].expiry \in Time
        /\ NoMissedExpiry'
    BY <1>1, <2>1, AwaitingAfterStepOK DEF RegistryStep
  <2> QED  BY <1>1, <2>1, <2>2 DEF RegistryStep, NoUpdate, Updates
<1>2. ASSUME NEW i \in NodeId, NEW t \in Time, NodeSetExpiry(i, t)
      PROVE  LInv'
  <2>1. TypeOK'
    <3>1. nodes' = IF Exists(i)
                   THEN [nodes EXCEPT ![i] = [nodes[i] EXCEPT !.expiry = t]]
                   ELSE nodes
      BY <1>2 DEF NodeSetExpiry, UpdateRow
    <3>2. Exists(i) => [nodes[i] EXCEPT !.expiry = t] \in NodeRec
      BY DEF TypeOK, Exists, NodeRec
    <3> QED  BY <1>2, <3>1, <3>2 DEF NodeSetExpiry, UpdateRow, TypeOK
  <2>2. /\ awaiting' \subseteq Existing'
        /\ \A j \in awaiting' : nodes'[j].expiry \in Time
        /\ NoMissedExpiry'
    BY <1>2, <2>1, AwaitingAfterStepOK DEF NodeSetExpiry
  <2> QED  BY <1>2, <2>1, <2>2 DEF NodeSetExpiry, NoUpdate, Updates
<1>3. ASSUME NEW i \in NodeId, UpdateLastSeen(i)
      PROVE  LInv'
  <2>1. nodes' = IF Exists(i)
                 THEN [nodes EXCEPT ![i] = [nodes[i] EXCEPT !.lastSeen = now]]
                 ELSE nodes
    BY <1>3 DEF UpdateLastSeen, UpdateRow
  <2>2. /\ TypeOK'
        /\ \A j \in NodeId : Exists(j)' <=> Exists(j)
    <3>1. Exists(i) => [nodes[i] EXCEPT !.lastSeen = now] \in NodeRec
      BY DEF TypeOK, Exists, NodeRec
    <3> QED  BY <1>3, <2>1, <3>1, SentinelsDiffer
             DEF UpdateLastSeen, UpdateRow, TypeOK, Exists
  <2>3. \A j \in NodeId : nodes'[j].expiry = nodes[j].expiry
    BY <2>1 DEF Exists
  <2>4. awaiting' \subseteq Existing'
    BY <1>3, <2>2 DEF UpdateLastSeen, Existing
  <2> QED  BY <1>3, <2>2, <2>3, <2>4
           DEF UpdateLastSeen, NoUpdate, Updates, NoMissedExpiry, Existing
<1>4. CASE Tick
  <2>1. now' \in Time /\ lastCheck' <= now'
    BY <1>4, MaxTimeAssumption DEF Tick, Time
  <2> QED  BY <1>4, <2>1
           DEF Tick, vars, TypeOK, Existing, Exists, NoMissedExpiry,
               NoUpdate, Updates
<1>5. ASSUME NEW done \in SUBSET Users, NEW aborted \in BOOLEAN,
             ExpireEphemeralNodes(done, aborted)
      PROVE  LInv'
  <2> DEFINE cands == {i \in Existing : nodes[i].user \in done /\ Inactive(i)}
  <2>1. PICK failed \in SUBSET cands :
          /\ nodes' = [i \in NodeId |->
                          IF i \in cands \ failed THEN NoNode ELSE nodes[i]]
          /\ update' = IF ~aborted /\ cands # {}
                       THEN [kind |-> "ephemeral", type |-> "PeerRemoved",
                             ids |-> cands]
                       ELSE [NoUpdate EXCEPT !.kind = "ephemeral"]
          /\ awaiting' = awaiting \ (cands \ failed)
    BY <1>5 DEF ExpireEphemeralNodes
  <2>2. UNCHANGED <<cache, nextId, outcome, now, lastCheck, written>>
    BY <1>5 DEF ExpireEphemeralNodes
  <2>3. TypeOK'
    BY <2>1, <2>2 DEF TypeOK
  <2>4. update' \in Updates
    BY <2>1 DEF Updates, NoUpdate, Existing
  <2>5. \A i \in awaiting' : i \in Existing' /\ nodes'[i] = nodes[i]
    BY <2>1 DEF Existing, Exists
  <2> QED  BY <2>1, <2>2, <2>3, <2>4, <2>5 DEF NoMissedExpiry
<1>6. ASSUME NEW listFails \in BOOLEAN, ExpireExpiredNodes(listFails)
      PROVE  LInv'
  <2>1. CASE listFails
    <3>1. /\ lastCheck' = 0
          /\ update' = [NoUpdate EXCEPT !.kind = "expiry"]
          /\ UNCHANGED <<vars, now, written, awaiting>>
      BY <1>6, <2>1 DEF ExpireExpiredNodes
    <3>2. \A i \in awaiting : nodes[i].expiry > 0
      BY MaxTimeAssumption DEF NoMissedExpiry, Time
    <3> QED  BY <3>1, <3>2, MaxTimeAssumption
             DEF vars, TypeOK, Existing, Exists, NoMissedExpiry, Time,
                 NoUpdate, Updates
  <2>2. CASE ~listFails
    <3> DEFINE t == now + 1
               rep == {i \in Existing : IsExpiredAt(nodes[i], t)
                                        /\ nodes[i].expiry > lastCheck}
    <3>1. now < MaxTime
      BY <1>6, <2>2 DEF ExpireExpiredNodes
    <3>2. PICK failed \in SUBSET rep :
            /\ nodes' = [i \in NodeId |->
                   IF i \in rep \ failed
                   THEN [nodes[i] EXCEPT !.expiry = t] ELSE nodes[i]]
            /\ written' = [i \in NodeId |->
                   IF i \in rep \ failed THEN t ELSE written[i]]
            /\ awaiting' = awaiting \ rep
            /\ update' = IF rep # {}
                         THEN [kind |-> "expiry", type |-> "PeerChangedPatch",
                               ids |-> rep]
                         ELSE [NoUpdate EXCEPT !.kind = "expiry"]
            /\ now' = t
            /\ lastCheck' = now
      BY <1>6, <2>2 DEF ExpireExpiredNodes
    <3>3. UNCHANGED <<cache, nextId, outcome>>
      BY <1>6, <2>2 DEF ExpireExpiredNodes
    <3>4. t \in Time /\ now \in Time
      BY <3>1, MaxTimeAssumption DEF Time
    <3>5. \A i \in rep : nodes[i] \in NodeRec
      BY DEF Existing, Exists, TypeOK
    <3>6. \A i \in rep : [nodes[i] EXCEPT !.expiry = t] \in NodeRec
      BY <3>4, <3>5 DEF NodeRec
    <3>7. TypeOK'
      BY <3>2, <3>3, <3>6 DEF TypeOK
    <3>8. /\ written' \in [NodeId -> Time \cup {NULL}]
          /\ update' \in Updates
      BY <3>2, <3>4 DEF Updates, NoUpdate, Existing
    <3>9. \A i \in awaiting' : i \in Existing' /\ nodes'[i] = nodes[i]
      BY <3>2, SentinelsDiffer DEF Existing, Exists
    <3>10. \A i \in awaiting' : nodes[i].expiry > now
      <4> SUFFICES ASSUME NEW i \in awaiting' PROVE nodes[i].expiry > now
        OBVIOUS
      <4>1. i \in awaiting /\ i \notin rep
        BY <3>2
      <4>2. nodes[i].expiry \in Time /\ nodes[i].expiry > lastCheck
        BY <4>1 DEF NoMissedExpiry
      <4>3. i \in Existing
        BY <4>1
      <4>4. ~IsExpiredAt(nodes[i], t)
        BY <4>1, <4>2, <4>3
      <4>5. nodes[i].expiry # NULL
        BY <4>2, NullAssumption DEF Time
      <4> QED  BY <4>2, <4>4, <4>5, <3>4 DEF IsExpiredAt, Time
    <3>11. /\ awaiting' \subseteq Existing'
           /\ \A i \in awaiting' : nodes'[i].expiry \in Time
      BY <3>2, <3>9
    <3>12. NoMissedExpiry'
      BY <3>2, <3>9, <3>10 DEF NoMissedExpiry
    <3>13. now' \in Time /\ lastCheck' \in Time /\ lastCheck' <= now'
      BY <3>2, <3>4 DEF Time
    <3> QED  BY <3>7, <3>8, <3>11, <3>12, <3>13
  <2> QED  BY <2>1, <2>2
<1>7. CASE UNCHANGED lvars
  BY <1>7 DEF lvars, vars, TypeOK, Existing, Exists, NoMissedExpiry
<1> QED  BY <1>1, <1>2, <1>3, <1>4, <1>5, <1>6, <1>7 DEF LNext

(* The lifecycle state stays well typed in every behaviour. *)
THEOREM LifecycleTypeCorrect == LSpec => []LifecycleTypeOK
<1>1. LInv => LifecycleTypeOK  BY DEF LInv
<1> QED  BY <1>1, LInvInit, LInvNext, PTL DEF LSpec

(* ExpireExpiredNodes reads `started` before its scan and returns it as  *)
(* the next cursor: an expiry set in the future stays after the cursor   *)
(* until a pass reports it, whatever registrations, expiry updates,      *)
(* clock ticks, listing failures and epoch resets come in between.       *)
THEOREM ExpiryNeverMissed == LSpec => []NoMissedExpiry
<1>1. LInv => NoMissedExpiry  BY DEF LInv
<1> QED  BY <1>1, LInvInit, LInvNext, PTL DEF LSpec
-----------------------------------------------------------------------------
(* The sweeps and the clock-driven updates also keep the node registry an *)
(* implementation of NodeIdentity.                                        *)

(* A step that leaves the cache and the counter alone, and only removes  *)
(* rows or rewrites columns other than the owner and the addresses,     *)
(* keeps the registry invariant and is an Update of NodeIdentity.        *)
LEMMA RowsOnlyShrink ==
    ASSUME IInv, UNCHANGED <<cache, nextId, outcome>>,
           nodes' \in [NodeId -> NodeRec \cup {NoNode}],
           \A i \in NodeId : Exists(i)' =>
              /\ Exists(i)
              /\ nodes'[i].user = nodes[i].user
              /\ nodes'[i].ip = nodes[i].ip
    PROVE  IInv' /\ Identity!Update
<1>1. TypeOK'  BY DEF IInv, TypeOK
<1>2. IdsIssued'  BY DEF IInv, IdsIssued
<1>3. CacheCoherent'
  <2> SUFFICES ASSUME NEW m \in MachineKeys, cache[m] # NoEntry, cache[m].id # 0
               PROVE  CacheCoherent!(m)'
    BY DEF CacheCoherent
  <2>1. cache[m].id \in NodeId  BY DEF IInv, TypeOK, PendingRec
  <2>. QED  BY <2>1 DEF IInv, CacheCoherent
<1>4. IInv'  BY <1>1, <1>2, <1>3 DEF IInv
<1>5. \A i \in NodeId : Exists(i)' => Exists(i) /\ Ident(nodes'[i]) = Ident(nodes[i])
  BY DEF Ident
<1>. QED  BY <1>4, <1>5, RetainStep

(* The registry invariant together with the lifecycle invariant. *)
LIInv == LInv /\ IInv

LEMMA LIInvNext ==
    LIInv /\ [LNext]_lvars
        => LIInv' /\ [Identity!Next]_<<nextId, boundMap, Existing>>
<1> SUFFICES ASSUME LIInv, [LNext]_lvars
             PROVE  IInv' /\ [Identity!Next]_<<nextId, boundMap, Existing>>
  BY LInvNext DEF LIInv
<1>a. Identity!Update => Identity!Next  BY DEF Identity!Next
<1>c. UNCHANGED vars => IInv' /\ UNCHANGED <<nextId, boundMap, Existing>>
  <2>1. UNCHANGED vars => IInv'
    BY DEF LIInv, vars, IInv, TypeOK, IdsIssued, CacheCoherent, Exists
  <2>2. UNCHANGED vars => UNCHANGED <<nextId, boundMap, Existing>>
    BY DEF vars, boundMap, BoundTo, CopiesIn, Existing, Exists
  <2>. QED  BY <2>1, <2>2
<1>1. CASE RegistryStep
  <2>1. Next  BY <1>1 DEF RegistryStep
  <2>2. IInv'  BY <2>1, IInvNext DEF LIInv
  <2>. QED  BY <2>1, <2>2, IdentityNext DEF LIInv
<1>2. ASSUME NEW i \in NodeId, NEW t \in Time, NodeSetExpiry(i, t)
      PROVE  IInv' /\ [Identity!Next]_<<nextId, boundMap, Existing>>
  <2>1. nodes' = IF Exists(i)
                 THEN [nodes EXCEPT ![i] = [nodes[i] EXCEPT !.expiry = t]]
                 ELSE nodes
    BY <1>2 DEF NodeSetExpiry, UpdateRow
  <2>2. Exists(i) => /\ [nodes[i] EXCEPT !.expiry = t] \in NodeRec
                     /\ [nodes[i] EXCEPT !.expiry = t].user = nodes[i].user
                     /\ [nodes[i] EXCEPT !.expiry = t].ip = nodes[i].ip
    BY DEF LIInv, IInv, TypeOK, Exists, NodeRec
  <2>3. nodes' \in [NodeId -> NodeRec \cup {NoNode}]
    BY <2>1, <2>2 DEF LIInv, IInv, TypeOK
  <2>4. \A j \in NodeId : Exists(j)' =>
            Exists(j) /\ nodes'[j].user = nodes[j].user /\ nodes'[j].ip = nodes[j].ip
    BY <2>1, <2>2 DEF LIInv, IInv, TypeOK, Exists
  <2>. QED  BY <1>2, <2>3, <2>4, <1>a, RowsOnlyShrink DEF NodeSetExpiry, UpdateRow, LIInv
<1>3. ASSUME NEW i \in NodeId, UpdateLastSeen(i)
      PROVE  IInv' /\ [Identity!Next]_<<nextId, boundMap, Existing>>
  <2>1. nodes' = IF Exists(i)
                 THEN [nodes EXCEPT ![i] = [nodes[i] EXCEPT !.lastSeen = now]]
                 ELSE nodes
    BY <1>3 DEF UpdateLastSeen, UpdateRow
  <2>0. now \in Time  BY DEF LIInv, LInv, LifecycleTypeOK
  <2>2. Exists(i) => /\ [nodes[i] EXCEPT !.lastSeen = now] \in NodeRec
                     /\ [nodes[i] EXCEPT !.lastSeen = now].user = nodes[i].user
                     /\ [nodes[i] EXCEPT !.lastSeen = now].ip = nodes[i].ip
    BY <2>0 DEF LIInv, IInv, TypeOK, Exists, NodeRec
  <2>3. nodes' \in [NodeId -> NodeRec \cup {NoNode}]
    BY <2>1, <2>2 DEF LIInv, IInv, TypeOK
  <2>4. \A j \in NodeId : Exists(j)' =>
            Exists(j) /\ nodes'[j].user = nodes[j].user /\ nodes'[j].ip = nodes[j].ip
    BY <2>1, <2>2 DEF LIInv, IInv, TypeOK, Exists
  <2>. QED  BY <1>3, <2>3, <2>4, <1>a, RowsOnlyShrink DEF UpdateLastSeen, UpdateRow, LIInv
<1>4. CASE Tick  BY <1>4, <1>c DEF Tick
<1>5. ASSUME NEW done \in SUBSET Users, NEW aborted \in BOOLEAN,
             ExpireEphemeralNodes(done, aborted)
      PROVE  IInv' /\ [Identity!Next]_<<nextId, boundMap, Existing>>
  <2> DEFINE cands == {i \in Existing : nodes[i].user \in done /\ Inactive(i)}
  <2>1. PICK failed \in SUBSET cands :
          nodes' = [i \in NodeId |-> IF i \in cands \ failed THEN NoNode ELSE nodes[i]]
    BY <1>5 DEF ExpireEphemeralNodes
  <2>2. UNCHANGED <<cache, nextId, outcome>>  BY <1>5 DEF ExpireEphemeralNodes
  <2>3. nodes' \in [NodeId -> NodeRec \cup {NoNode}]  BY <2>1 DEF LIInv, IInv, TypeOK
  <2>4. \A j \in NodeId : Exists(j)' => Exists(j) /\ nodes'[j] = nodes[j]
    BY <2>1 DEF Exists
  <2>. QED  BY <2>2, <2>3, <2>4, <1>a, RowsOnlyShrink DEF LIInv
<1>6. ASSUME NEW listFails \in BOOLEAN, ExpireExpiredNodes(listFails)
      PROVE  IInv' /\ [Identity!Next]_<<nextId, boundMap, Existing>>
  <2>1. CASE listFails  BY <1>6, <2>1, <1>c DEF ExpireExpiredNodes
  <2>2. CASE ~listFails
    <3> DEFINE t == now + 1
               rep == {i \in Existing : IsExpiredAt(nodes[i], t)
                                        /\ nodes[i].expiry > lastCheck}
    <3>1. PICK failed \in SUBSET rep :
            nodes' = [i \in NodeId |->
                IF i \in rep \ failed THEN [nodes[i] EXCEPT !.expiry = t] ELSE nodes[i]]
      BY <1>6, <2>2 DEF ExpireExpiredNodes
    <3>2. UNCHANGED <<cache, nextId, outcome>>  BY <1>6, <2>2 DEF ExpireExpiredNodes
    <3>3. t \in Time  BY <1>6, <2>2, MaxTimeAssumption
                         DEF ExpireExpiredNodes, Time, LIInv, LInv, LifecycleTypeOK
    <3>4. \A i \in rep : /\ [nodes[i] EXCEPT !.expiry = t] \in NodeRec
                         /\ [nodes[i] EXCEPT !.expiry = t].user = nodes[i].user
                         /\ [nodes[i] EXCEPT !.expiry = t].ip = nodes[i].ip
      BY <3>3 DEF Existing, Exists, LIInv, IInv, TypeOK, NodeRec
    <3>5. nodes' \in [NodeId -> NodeRec \cup {NoNode}]
      BY <3>1, <3>4 DEF LIInv, IInv, TypeOK
    <3>6. \A j \in NodeId : Exists(j)' =>
              Exists(j) /\ nodes'[j].user = nodes[j].user /\ nodes'[j].ip = nodes[j].ip
      BY <3>1, <3>4, SentinelsDiffer DEF Exists, Existing, NodeRec
    <3>. QED  BY <3>2, <3>5, <3>6, <1>a, RowsOnlyShrink DEF LIInv
  <2>. QED  BY <2>1, <2>2
<1>7. CASE UNCHANGED lvars  BY <1>7, <1>c DEF lvars
<1>. QED  BY <1>1, <1>2, <1>3, <1>4, <1>5, <1>6, <1>7 DEF LNext

(* Spec sections 2, 3, 4.5 and 8, for every value of the constants: the *)
(* registry together with the clock, NodeSetExpiry, UpdateLastSeen and  *)
(* both sweeps (their failures included) still implements NodeIdentity: *)
(* the sweeps only delete nodes or rewrite expiries, so no ID is rebound *)
(* to another owner or address and no forgotten ID comes back.          *)
THEOREM LifecycleIdentityRefined == LSpec => IdentitySpec
<1>1. LInit => LIInv  BY LInvInit, IInvInit DEF LInit, LIInv
<1>2. LInit => Identity!Init  BY IdentityInit DEF LInit
<1>3. LIInv /\ [LNext]_lvars => LIInv'  BY LIInvNext
<1>4. LIInv /\ [LNext]_lvars => [Identity!Next]_<<nextId, boundMap, Existing>>
  BY LIInvNext
<1>. QED  BY <1>1, <1>2, <1>3, <1>4, PTL DEF LSpec, IdentitySpec, Identity!Spec
=============================================================================
