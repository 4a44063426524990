--------------------------- MODULE RegistryProofs ---------------------------
(***************************************************************************)
(* Proofs about the node registry of Registry.tla, for every value of     *)
(* the constants that satisfies the module's assumptions.                 *)
(***************************************************************************)
EXTENDS Registry, TLAPS

LEMMA SentinelsDiffer ==
    /\ \A n \in NodeRec : n # NoNode
    /\ \A p \in PendingRec : p # NoEntry
    /\ NoIP \notin Addrs
BY DEF NodeRec, PendingRec, NoNode, NoEntry, NoIP, Addrs

(* The name GenerateGivenName returns is a given name. *)
LEMMA GenerateGivenNameType ==
    ASSUME NEW m \in MachineKeys, NEW h \in Hostnames
    PROVE  GenerateGivenName(m, h) \subseteq GivenNames
BY DEF GenerateGivenName, generateGivenName, GivenNames

(* Saving a pending node whose owner is a user and which has an address *)
(* keeps the table well typed.                                          *)
LEMMA SaveType ==
    ASSUME TypeOK, NEW p \in PendingRec, p.user \in Users, p.ip \in Addrs,
           Save(p)
    PROVE  /\ nodes' \in [NodeId -> NodeRec \cup {NoNode}]
           /\ nextId' \in 1 .. MaxNodes + 1
<1>1. Row(p) \in NodeRec
  BY DEF Row, NodeRec, PendingRec
<1>2. CASE p.id = 0
  BY <1>1, <1>2, MaxNodesAssumption DEF Save, TypeOK, NodeId
<1>3. CASE p.id # 0
  BY <1>1, <1>3 DEF Save, TypeOK, PendingRec, NodeId
<1>. QED  BY <1>2, <1>3

LEMMA RegisterNodeType ==
    ASSUME TypeOK, NEW p \in PendingRec, p.user \in Users, RegisterNode(p)
    PROVE  /\ nodes' \in [NodeId -> NodeRec \cup {NoNode}]
           /\ nextId' \in 1 .. MaxNodes + 1
<1>1. CASE p.ip # NoIP
  <2>1. p.ip \in Addrs  BY <1>1 DEF PendingRec
  <2>. QED  BY <1>1, <2>1, SaveType DEF RegisterNode
<1>2. CASE p.ip = NoIP
  <2>1. PICK a \in FreeAddrs : Save([p EXCEPT !.ip = a])
    BY <1>2 DEF RegisterNode
  <2>2. a \in Addrs  BY DEF FreeAddrs
  <2>3. /\ [p EXCEPT !.ip = a] \in PendingRec
        /\ [p EXCEPT !.ip = a].user \in Users
        /\ [p EXCEPT !.ip = a].ip \in Addrs
    BY <2>2 DEF PendingRec
  <2>. QED  BY <2>1, <2>3, SaveType
<1>. QED  BY <1>1, <1>2

LEMMA TypeInit == Init => TypeOK
BY MaxNodesAssumption DEF Init, TypeOK, Outcomes

LEMMA TypeNext == TypeOK /\ [Next]_vars => TypeOK'
<1> SUFFICES ASSUME TypeOK, [Next]_vars PROVE TypeOK'
  OBVIOUS
<1>1. ASSUME NEW m \in MachineKeys, NEW k \in NodeKeys, NEW h \in Hostnames,
             CachePendingNew(m, k, h)
      PROVE  TypeOK'
  <2>1. PICK name \in GenerateGivenName(m, h) :
          cache' = [cache EXCEPT ![m] =
              [id |-> 0, mkey |-> m, nkey |-> k, user |-> NULL, ip |-> NoIP,
               name |-> name, tags |-> {}, expiry |-> NULL,
               lastSeen |-> NULL, ephemeral |-> FALSE]]
    BY <1>1 DEF CachePendingNew
  <2>2. name \in GivenNames  BY GenerateGivenNameType
  <2>. QED  BY <1>1, <2>1, <2>2 DEF CachePendingNew, TypeOK, PendingRec,
                                    NoIP, Outcomes
<1>2. ASSUME NEW i \in NodeId, NEW k \in NodeKeys, CachePendingExisting(i, k)
      PROVE  TypeOK'
  <2>1. nodes[i] \in NodeRec  BY <1>2, SentinelsDiffer DEF CachePendingExisting, Exists, TypeOK
  <2>. QED  BY <1>2, <2>1 DEF CachePendingExisting, TypeOK, PendingRec, NodeRec,
                             NodeId, Outcomes
<1>3. ASSUME NEW m \in MachineKeys, CacheExpire(m)
      PROVE  TypeOK'
  BY <1>3 DEF CacheExpire, TypeOK, Outcomes
<1>4. ASSUME NEW m \in MachineKeys, NEW u \in Users \cup {UnknownUser},
             NEW exp \in Time \cup {NULL}, NEW commits \in BOOLEAN,
             RegisterNodeFromAuthCallback(m, u, exp, commits)
      PROVE  TypeOK'
  <2> DEFINE p   == cache[m]
             reg == [p EXCEPT !.user = u,
                              !.expiry = IF exp # NULL THEN exp ELSE p.expiry]
  <2>1. CASE p = NoEntry \/ u \notin Users \/ (p.id # 0 /\ p.user # u)
             \/ PoolExhausted(reg)
    BY <1>4, <2>1 DEF RegisterNodeFromAuthCallback, DifferentRegisteredUser, TypeOK, Outcomes
  <2>2. CASE p # NoEntry /\ u \in Users /\ ~(p.id # 0 /\ p.user # u)
             /\ ~PoolExhausted(reg)
    <3>1. p \in PendingRec  BY <2>2 DEF TypeOK
    <3>2. reg \in PendingRec /\ reg.user \in Users  BY <2>2, <3>1 DEF PendingRec
    <3>3. cache' = [cache EXCEPT ![m] = NoEntry]
      BY <1>4, <2>2 DEF RegisterNodeFromAuthCallback, DifferentRegisteredUser
    <3>4. CASE commits
      <4>1. RegisterNode(reg) /\ outcome' = "ok"
        BY <1>4, <2>2, <3>4 DEF RegisterNodeFromAuthCallback, DifferentRegisteredUser
      <4>. QED  BY <3>2, <3>3, <4>1, RegisterNodeType DEF TypeOK, Outcomes
    <3>5. CASE ~commits
      BY <1>4, <2>2, <3>3, <3>5 DEF RegisterNodeFromAuthCallback, DifferentRegisteredUser, TypeOK, Outcomes
    <3>. QED  BY <3>4, <3>5
  <2>. QED  BY <2>1, <2>2
<1>5. ASSUME NEW m \in MachineKeys, NEW k \in NodeKeys, NEW h \in Hostnames,
             NEW u \in Users, NEW eph \in BOOLEAN,
             RegisterNodeDirect(m, k, h, u, eph)
      PROVE  TypeOK'
  <2>1. PICK name \in GenerateGivenName(m, h) :
          LET p == [id |-> 0, mkey |-> m, nkey |-> k, user |-> u, ip |-> NoIP,
                    name |-> name, tags |-> {}, expiry |-> NULL,
                    lastSeen |-> NULL, ephemeral |-> eph]
          IN  \/ ~PoolExhausted(p) /\ RegisterNode(p)
              \/ PoolExhausted(p) /\ UNCHANGED <<nodes, nextId>>
    BY <1>5 DEF RegisterNodeDirect
  <2> DEFINE p == [id |-> 0, mkey |-> m, nkey |-> k, user |-> u, ip |-> NoIP,
                   name |-> name, tags |-> {}, expiry |-> NULL,
                   lastSeen |-> NULL, ephemeral |-> eph]
  <2>2. p \in PendingRec /\ p.user \in Users
    BY GenerateGivenNameType DEF PendingRec, NoIP
  <2>3. UNCHANGED <<cache, outcome>>  BY <1>5 DEF RegisterNodeDirect
  <2>. QED  BY <2>1, <2>2, <2>3, RegisterNodeType DEF TypeOK
<1>6. ASSUME NEW i \in NodeId, NEW tags \in SUBSET Tags, SetTags(i, tags)
      PROVE  TypeOK'
  BY <1>6, SentinelsDiffer DEF SetTags, UpdateRow, Exists, TypeOK, NodeRec, vars
<1>7. ASSUME NEW i \in NodeId, NEW name \in GivenNames \cup {InvalidName},
             RenameNode(i, name)
      PROVE  TypeOK'
  BY <1>7, SentinelsDiffer DEF RenameNode, UpdateRow, Exists, TypeOK, NodeRec
<1>8. ASSUME NEW i \in NodeId, NEW k \in NodeKeys, NodeSetNodeKey(i, k)
      PROVE  TypeOK'
  BY <1>8, SentinelsDiffer DEF NodeSetNodeKey, UpdateRow, Exists, TypeOK, NodeRec
<1>9. ASSUME NEW i \in NodeId, NEW m \in MachineKeys, NodeSetMachineKey(i, m)
      PROVE  TypeOK'
  BY <1>9, SentinelsDiffer DEF NodeSetMachineKey, UpdateRow, Exists, TypeOK, NodeRec
<1>10. ASSUME NEW i \in NodeId, DeleteNode(i)
       PROVE  TypeOK'
  BY <1>10 DEF DeleteNode, TypeOK
<1>11. CASE UNCHANGED vars
  BY <1>11 DEF vars, TypeOK
<1>. QED  BY <1>1, <1>2, <1>3, <1>4, <1>5, <1>6, <1>7, <1>8, <1>9, <1>10,
             <1>11 DEF Next

(* Every reachable state of the registry is well typed. *)
THEOREM TypeCorrect == Spec => []TypeOK
BY TypeInit, TypeNext, PTL DEF Spec

-----------------------------------------------------------------------------
(* The inductive invariant behind IPStable and OwnerStable: a cached copy *)
(* of a row carries that row's owner and address, and fresh rows are    *)
(* inserted under IDs that no row and no cached copy uses yet.           *)
IInv == TypeOK /\ IdsIssued /\ CacheCoherent

(* The step relation the two action properties assert. *)
IdentityKept ==
    \A i \in NodeId : Exists(i) /\ Exists(i)' =>
        /\ nodes'[i].ip = nodes[i].ip
        /\ nodes'[i].user = nodes[i].user

(* Saving a node with ID zero inserts a row under the next ID, which no *)
(* row and no cached copy holds.                                         *)
LEMMA SaveFresh ==
    ASSUME IInv, NEW p, p.id = 0, Save(p), UNCHANGED cache
    PROVE  IdsIssued' /\ CacheCoherent' /\ IdentityKept
<1>1. /\ nextId <= MaxNodes
      /\ nodes' = [nodes EXCEPT ![nextId] = Row(p)]
      /\ nextId' = nextId + 1
  BY DEF Save
<1>4. nextId \in NodeId  BY <1>1 DEF IInv, TypeOK, NodeId
<1>2. ~Exists(nextId)  BY <1>4 DEF IInv, IdsIssued, Exists, TypeOK
<1>3. \A i \in NodeId \ {nextId} : nodes'[i] = nodes[i]
  BY <1>1 DEF IInv, TypeOK
<1>5. Row(p) # NoNode  BY DEF Row, NoNode
<1>6. IdsIssued'
  BY <1>1, <1>3, <1>4 DEF IInv, IdsIssued, Exists, TypeOK, NodeId
<1>7. CacheCoherent'
  BY <1>1, <1>3 DEF IInv, CacheCoherent, Exists, TypeOK, PendingRec, NodeId
<1>8. IdentityKept
  BY <1>2, <1>3 DEF IdentityKept, Exists
<1>. QED  BY <1>6, <1>7, <1>8

(* Saving a cached copy of a row writes back the owner and address it  *)
(* already has.                                                          *)
LEMMA SaveCopy ==
    ASSUME IInv, NEW m \in MachineKeys, cache[m] # NoEntry, cache[m].id # 0,
           NEW reg, reg.id = cache[m].id, reg.user = cache[m].user,
           reg.ip = cache[m].ip, Save(reg),
           cache' = [cache EXCEPT ![m] = NoEntry]
    PROVE  IdsIssued' /\ CacheCoherent' /\ IdentityKept
<1> DEFINE j == cache[m].id
<1>1. j \in NodeId /\ j < nextId /\ cache[m].user \in Users
  BY DEF IInv, CacheCoherent, TypeOK, PendingRec
<1>2. nodes' = [nodes EXCEPT ![j] = Row(reg)] /\ nextId' = nextId
  BY DEF Save
<1>3. nodes'[j] # NoNode /\ nodes'[j].ip = cache[m].ip
      /\ nodes'[j].user = cache[m].user
  BY <1>1, <1>2 DEF Row, NoNode, IInv, TypeOK
<1>4. \A i \in NodeId \ {j} : nodes'[i] = nodes[i]
  BY <1>2 DEF IInv, TypeOK
<1>5. IdsIssued'
  BY <1>1, <1>2, <1>4 DEF IInv, IdsIssued, Exists
<1>6. CacheCoherent'
  BY <1>1, <1>2, <1>3, <1>4 DEF IInv, CacheCoherent, Exists, TypeOK
<1>7. IdentityKept
  BY <1>1, <1>3, <1>4 DEF IdentityKept, IInv, CacheCoherent, Exists
<1>. QED  BY <1>5, <1>6, <1>7

(* A step that changes no owner, address or ID and removes no row, nor  *)
(* touches the cache, keeps the invariant.                               *)
LEMMA RowUpdate ==
    ASSUME IInv, UNCHANGED <<cache, nextId>>,
           nodes' \in [NodeId -> NodeRec \cup {NoNode}],
           \A i \in NodeId : Exists(i)' <=> Exists(i),
           \A i \in NodeId : Exists(i) =>
               nodes'[i].ip = nodes[i].ip /\ nodes'[i].user = nodes[i].user
    PROVE  IdsIssued' /\ CacheCoherent' /\ IdentityKept
<1>1. IdsIssued'  BY DEF IInv, IdsIssued
<1>2. CacheCoherent'
  <2> SUFFICES ASSUME NEW m \in MachineKeys, cache[m] # NoEntry, cache[m].id # 0
               PROVE  CacheCoherent!(m)'
    BY DEF CacheCoherent
  <2>1. cache[m].id \in NodeId  BY DEF IInv, TypeOK, PendingRec
  <2>. QED  BY <2>1 DEF IInv, CacheCoherent
<1>3. IdentityKept  BY DEF IdentityKept
<1>. QED  BY <1>1, <1>2, <1>3

LEMMA IInvInit == Init => IInv
BY TypeInit DEF Init, IInv, IdsIssued, CacheCoherent, Exists, NoEntry, NoNode

LEMMA IInvNext == IInv /\ [Next]_vars => IInv' /\ IdentityKept
<1> SUFFICES ASSUME IInv, [Next]_vars PROVE IInv' /\ IdentityKept
  OBVIOUS
<1>0. TypeOK'  BY TypeNext DEF IInv
<1>1. ASSUME NEW m \in MachineKeys, NEW k \in NodeKeys, NEW h \in Hostnames,
             CachePendingNew(m, k, h)
      PROVE  IInv' /\ IdentityKept
  <2>1. cache'[m].id = 0 /\ \A m2 \in MachineKeys \ {m} : cache'[m2] = cache[m2]
    BY <1>1 DEF CachePendingNew, IInv, TypeOK
  <2>. QED  BY <1>0, <1>1, <2>1 DEF CachePendingNew, IInv, IdsIssued, CacheCoherent,
                                    IdentityKept, Exists
<1>2. ASSUME NEW i \in NodeId, NEW k \in NodeKeys, CachePendingExisting(i, k)
      PROVE  IInv' /\ IdentityKept
  <2> DEFINE n == nodes[i]
  <2>1. n \in NodeRec /\ i < nextId
    BY <1>2, SentinelsDiffer DEF CachePendingExisting, Exists, IInv, TypeOK, IdsIssued
  <2>2. /\ cache'[n.mkey].id = i
        /\ cache'[n.mkey].ip = n.ip
        /\ cache'[n.mkey].user = n.user
        /\ cache'[n.mkey] # NoEntry
        /\ \A m2 \in MachineKeys \ {n.mkey} : cache'[m2] = cache[m2]
    BY <1>2, <2>1 DEF CachePendingExisting, IInv, TypeOK, NodeRec, NoEntry
  <2>3. n.ip # NoIP /\ n.user \in Users  BY <2>1, SentinelsDiffer DEF NodeRec
  <2>4. UNCHANGED <<nodes, nextId>>  BY <1>2 DEF CachePendingExisting
  <2>5. CacheCoherent'
    <3> SUFFICES ASSUME NEW m \in MachineKeys, cache'[m] # NoEntry,
                        cache'[m].id # 0
                 PROVE  CacheCoherent!(m)'
      BY DEF CacheCoherent
    <3>0. Exists(i)  BY <1>2 DEF CachePendingExisting
    <3>1. \A m2 \in MachineKeys : cache'[m2] # NoEntry /\ cache'[m2].id = i =>
             cache'[m2].user = n.user /\ cache'[m2].ip = n.ip
      <4> SUFFICES ASSUME NEW m2 \in MachineKeys, cache'[m2] # NoEntry,
                          cache'[m2].id = i
                   PROVE  cache'[m2].user = n.user /\ cache'[m2].ip = n.ip
        OBVIOUS
      <4>1. CASE m2 = n.mkey  BY <2>2, <4>1
      <4>2. CASE m2 # n.mkey
        <5>1. cache[m2] = cache'[m2] /\ i # 0  BY <2>2, <4>2 DEF NodeId
        <5>. QED  BY <3>0, <5>1 DEF IInv, CacheCoherent
      <4>. QED  BY <4>1, <4>2
    <3>2. CASE cache'[m].id = i
      BY <2>1, <2>3, <2>4, <3>0, <3>1, <3>2 DEF Exists
    <3>3. CASE cache'[m].id # i
      <4>1. m # n.mkey /\ cache'[m] = cache[m]  BY <2>2, <3>3
      <4>2. \A m2 \in MachineKeys : cache'[m2] # NoEntry /\ cache'[m2].id = cache'[m].id
               => cache'[m2] = cache[m2]
        BY <2>2, <3>3
      <4>3. cache'[m].id \in NodeId /\ cache'[m].id # i
        BY <3>3, <4>1 DEF IInv, TypeOK, PendingRec
      <4>. QED  BY <2>4, <4>1, <4>2, <4>3 DEF IInv, CacheCoherent, Exists
    <3>. QED  BY <3>2, <3>3
  <2>. QED  BY <1>0, <2>4, <2>5 DEF IInv, IdsIssued, IdentityKept, Exists
<1>3. ASSUME NEW m \in MachineKeys, CacheExpire(m)
      PROVE  IInv' /\ IdentityKept
  BY <1>0, <1>3 DEF CacheExpire, IInv, IdsIssued, CacheCoherent, IdentityKept,
                    Exists, TypeOK
<1>4. ASSUME NEW m \in MachineKeys, NEW u \in Users \cup {UnknownUser},
             NEW exp \in Time \cup {NULL}, NEW commits \in BOOLEAN,
             RegisterNodeFromAuthCallback(m, u, exp, commits)
      PROVE  IInv' /\ IdentityKept
  <2> DEFINE p   == cache[m]
             reg == [p EXCEPT !.user = u,
                              !.expiry = IF exp # NULL THEN exp ELSE p.expiry]
  <2>1. CASE p = NoEntry \/ u \notin Users \/ (p.id # 0 /\ p.user # u)
             \/ PoolExhausted(reg)
    <3>1. UNCHANGED <<nodes, cache, nextId>>
      BY <1>4, <2>1 DEF RegisterNodeFromAuthCallback, DifferentRegisteredUser
    <3>. QED  BY <1>0, <3>1 DEF IInv, IdsIssued, CacheCoherent, IdentityKept, Exists
  <2>2. CASE p # NoEntry /\ u \in Users /\ ~(p.id # 0 /\ p.user # u)
             /\ ~PoolExhausted(reg)
    <3>1. p \in PendingRec  BY <2>2 DEF IInv, TypeOK
    <3>2. cache' = [cache EXCEPT ![m] = NoEntry]
      BY <1>4, <2>2 DEF RegisterNodeFromAuthCallback, DifferentRegisteredUser
    <3>3. CASE ~commits
      <4>1. UNCHANGED <<nodes, nextId>>
        BY <1>4, <2>2, <3>3 DEF RegisterNodeFromAuthCallback, DifferentRegisteredUser
      <4>. QED  BY <1>0, <3>2, <4>1 DEF IInv, IdsIssued, CacheCoherent,
                                        IdentityKept, Exists, TypeOK
    <3>4. CASE commits
      <4>1. RegisterNode(reg)
        BY <1>4, <2>2, <3>4 DEF RegisterNodeFromAuthCallback, DifferentRegisteredUser
      <4>2. CASE p.id = 0
        <5>1. PICK q : q.id = 0 /\ Save(q)
          BY <4>1, <4>2, <3>1 DEF RegisterNode, PendingRec
        <5>2. IdsIssued' /\ CacheCoherent' /\ IdentityKept
          <6>1. \A m2 \in MachineKeys : cache[m2] # NoEntry /\ cache[m2].id # 0
                   => cache[m2].id < nextId
            BY DEF IInv, CacheCoherent
          <6>2. ~Exists(nextId) /\ nextId \in NodeId
            BY <5>1 DEF Save, IInv, IdsIssued, Exists, TypeOK, NodeId
          <6>3. nodes' = [nodes EXCEPT ![nextId] = Row(q)] /\ nextId' = nextId + 1
            BY <5>1 DEF Save
          <6>4. \A i \in NodeId \ {nextId} : nodes'[i] = nodes[i]
            BY <6>3 DEF IInv, TypeOK
          <6>5. IdsIssued'
            BY <6>2, <6>3, <6>4 DEF IInv, IdsIssued, Exists, TypeOK, NodeId
          <6>6. CacheCoherent'
            BY <3>2, <6>1, <6>3, <6>4, <4>2 DEF IInv, CacheCoherent, Exists,
                                                TypeOK, PendingRec, NodeId
          <6>7. IdentityKept
            BY <6>2, <6>4 DEF IdentityKept, Exists
          <6>. QED  BY <6>5, <6>6, <6>7
        <5>. QED  BY <1>0, <5>2 DEF IInv
      <4>3. CASE p.id # 0
        <5>1. p.ip # NoIP  BY <2>2, <4>3 DEF IInv, CacheCoherent
        <5>2. Save(reg)  BY <4>1, <5>1 DEF RegisterNode
        <5>3. reg.id = p.id /\ reg.user = p.user /\ reg.ip = p.ip
          BY <2>2, <3>1, <4>3 DEF PendingRec
        <5>. QED  BY <1>0, <2>2, <3>2, <4>3, <5>2, <5>3, SaveCopy DEF IInv
      <4>. QED  BY <4>2, <4>3
    <3>. QED  BY <3>3, <3>4
  <2>. QED  BY <2>1, <2>2
<1>5. ASSUME NEW m \in MachineKeys, NEW k \in NodeKeys, NEW h \in Hostnames,
             NEW u \in Users, NEW eph \in BOOLEAN,
             RegisterNodeDirect(m, k, h, u, eph)
      PROVE  IInv' /\ IdentityKept
  <2>1. PICK name \in GenerateGivenName(m, h) :
          LET p == [id |-> 0, mkey |-> m, nkey |-> k, user |-> u, ip |-> NoIP,
                    name |-> name, tags |-> {}, expiry |-> NULL,
                    lastSeen |-> NULL, ephemeral |-> eph]
          IN  \/ ~PoolExhausted(p) /\ RegisterNode(p)
              \/ PoolExhausted(p) /\ UNCHANGED <<nodes, nextId>>
    BY <1>5 DEF RegisterNodeDirect
  <2> DEFINE p == [id |-> 0, mkey |-> m, nkey |-> k, user |-> u, ip |-> NoIP,
                   name |-> name, tags |-> {}, expiry |-> NULL,
                   lastSeen |-> NULL, ephemeral |-> eph]
  <2>2. UNCHANGED <<cache, outcome>>  BY <1>5 DEF RegisterNodeDirect
  <2>3. CASE RegisterNode(p)
    <3>1. PICK q : q.id = 0 /\ Save(q)
      BY <2>3 DEF RegisterNode, NoIP
    <3>. QED  BY <1>0, <2>2, <3>1, SaveFresh DEF IInv
  <2>4. CASE UNCHANGED <<nodes, nextId>>
    BY <1>0, <2>2, <2>4 DEF IInv, IdsIssued, CacheCoherent, IdentityKept, Exists
  <2>. QED  BY <2>1, <2>3, <2>4
<1>6. ASSUME NEW i \in NodeId, NEW tags \in SUBSET Tags, SetTags(i, tags)
      PROVE  IInv' /\ IdentityKept
  <2>1. CASE tags = {}
    BY <1>6, <2>1, <1>0 DEF SetTags, vars, IInv, IdsIssued, CacheCoherent,
                            IdentityKept, Exists
  <2>2. CASE tags # {}
    <3>a. UpdateRow(i, LAMBDA n : [n EXCEPT !.tags = tags])
      BY <1>6, <2>2 DEF SetTags
    <3>b. \A j \in NodeId : (Exists(j)' <=> Exists(j)) /\
              (Exists(j) => nodes'[j].ip = nodes[j].ip /\ nodes'[j].user = nodes[j].user)
      BY <3>a, SentinelsDiffer DEF UpdateRow, Exists, IInv, TypeOK, NodeRec, NoNode
    <3>. QED  BY <3>a, <3>b, <1>0, RowUpdate DEF UpdateRow, IInv, TypeOK
  <2>. QED  BY <2>1, <2>2
<1>7. ASSUME NEW i \in NodeId, NEW name \in GivenNames \cup {InvalidName},
             RenameNode(i, name)
      PROVE  IInv' /\ IdentityKept
  <2>a. UpdateRow(i, LAMBDA n : [n EXCEPT !.name = name])
    BY <1>7 DEF RenameNode
  <2>b. \A j \in NodeId : (Exists(j)' <=> Exists(j)) /\
            (Exists(j) => nodes'[j].ip = nodes[j].ip /\ nodes'[j].user = nodes[j].user)
    BY <2>a, SentinelsDiffer DEF UpdateRow, Exists, IInv, TypeOK, NodeRec, NoNode
  <2>. QED  BY <2>a, <2>b, <1>0, RowUpdate DEF UpdateRow, IInv, TypeOK
<1>8. ASSUME NEW i \in NodeId, NEW k \in NodeKeys, NodeSetNodeKey(i, k)
      PROVE  IInv' /\ IdentityKept
  <2>a. UpdateRow(i, LAMBDA n : [n EXCEPT !.nkey = k])
    BY <1>8 DEF NodeSetNodeKey
  <2>b. \A j \in NodeId : (Exists(j)' <=> Exists(j)) /\
            (Exists(j) => nodes'[j].ip = nodes[j].ip /\ nodes'[j].user = nodes[j].user)
    BY <2>a, SentinelsDiffer DEF UpdateRow, Exists, IInv, TypeOK, NodeRec, NoNode
  <2>. QED  BY <2>a, <2>b, <1>0, RowUpdate DEF UpdateRow, IInv, TypeOK
<1>9. ASSUME NEW i \in NodeId, NEW m \in MachineKeys, NodeSetMachineKey(i, m)
      PROVE  IInv' /\ IdentityKept
  <2>a. UpdateRow(i, LAMBDA n : [n EXCEPT !.mkey = m])
    BY <1>9 DEF NodeSetMachineKey
  <2>b. \A j \in NodeId : (Exists(j)' <=> Exists(j)) /\
            (Exists(j) => nodes'[j].ip = nodes[j].ip /\ nodes'[j].user = nodes[j].user)
    BY <2>a, SentinelsDiffer DEF UpdateRow, Exists, IInv, TypeOK, NodeRec, NoNode
  <2>. QED  BY <2>a, <2>b, <1>0, RowUpdate DEF UpdateRow, IInv, TypeOK
<1>10. ASSUME NEW i \in NodeId, DeleteNode(i)
       PROVE  IInv' /\ IdentityKept
  BY <1>0, <1>10 DEF DeleteNode, IInv, IdsIssued, CacheCoherent, IdentityKept,
                     Exists, TypeOK
<1>11. CASE UNCHANGED vars
  BY <1>0, <1>11 DEF vars, IInv, IdsIssued, CacheCoherent, IdentityKept, Exists
<1>. QED  BY <1>1, <1>2, <1>3, <1>4, <1>5, <1>6, <1>7, <1>8, <1>9, <1>10,
             <1>11 DEF Next

(* A registered node keeps its address for as long as it exists, for   *)
(* every size of table, address pool and set of users.                   *)
THEOREM AddressesStable == Spec => IPStable
<1>1. IInv /\ [Next]_vars => [IdentityKept]_vars  BY IInvNext
<1>2. [IdentityKept]_vars => [\A i \in NodeId :
          Exists(i) /\ Exists(i)' => nodes'[i].ip = nodes[i].ip]_vars
  BY DEF IdentityKept
<1>. QED  BY <1>1, <1>2, IInvInit, IInvNext, PTL DEF Spec, IPStable

(* A registered node never changes owner, for every value of the         *)
(* constants.                                                            *)
THEOREM OwnersStable == Spec => OwnerStable
<1>1. IInv /\ [Next]_vars => [IdentityKept]_vars  BY IInvNext
<1>2. [IdentityKept]_vars => [\A i \in NodeId :
          Exists(i) /\ Exists(i)' => nodes'[i].user = nodes[i].user]_vars
  BY DEF IdentityKept
<1>. QED  BY <1>1, <1>2, IInvInit, IInvNext, PTL DEF Spec, OwnerStable

(* Every pending copy of a registered node that RegisterNodeFromAuthCallback *)
(* could save back carries an issued ID, an address and an owner, and agrees *)
(* with its row and with every other copy of that node.                     *)
THEOREM CacheCoherence == Spec => []CacheCoherent
<1>1. IInv => CacheCoherent  BY DEF IInv
<1>. QED  BY <1>1, IInvInit, IInvNext, PTL DEF Spec
=============================================================================
