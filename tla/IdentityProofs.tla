--------------------------- MODULE IdentityProofs ---------------------------
(***************************************************************************)
(* The node registry implements NodeIdentity: for every value of the     *)
(* constants, every step of Registry maps to an Issue, an Update or a     *)
(* stutter of the abstract specification under boundMap.                 *)
(***************************************************************************)
EXTENDS RegistryProofs

-----------------------------------------------------------------------------
(* The identity an ID is bound to is that of its row when it has one and *)
(* that of any cached copy otherwise; it is NoIdentity only when nothing *)
(* holds the ID.  Stated for any table and cache, so that it applies to  *)
(* both states of a step.                                                 *)
LEMMA HolderIdentity ==
    ASSUME NEW nd \in [NodeId -> NodeRec \cup {NoNode}],
           NEW ca \in [MachineKeys -> PendingRec \cup {NoEntry}],
           NEW i \in NodeId,
           \A m \in CopiesIn(ca, i) : ca[m].user \in Users /\ ca[m].ip # NoIP,
           \A m, m2 \in CopiesIn(ca, i) : Ident(ca[m]) = Ident(ca[m2])
    PROVE  /\ BoundTo(nd, ca, i) \in NodeIdentities \cup {NoIdentity}
           /\ nd[i] # NoNode => BoundTo(nd, ca, i) = Ident(nd[i])
           /\ nd[i] = NoNode =>
                 \A m \in CopiesIn(ca, i) : BoundTo(nd, ca, i) = Ident(ca[m])
           /\ BoundTo(nd, ca, i) # NoIdentity <=>
                 nd[i] # NoNode \/ CopiesIn(ca, i) # {}
<1>1. \A r \in NodeRec : Ident(r) \in NodeIdentities
  BY DEF NodeRec, Ident, NodeIdentities
<1>2. \A m \in CopiesIn(ca, i) : Ident(ca[m]) \in NodeIdentities
  BY DEF CopiesIn, PendingRec, Ident, NodeIdentities, NoIP
<1>3. NoIdentity \notin NodeIdentities  BY DEF NoIdentity, NodeIdentities
<1>4. CASE nd[i] # NoNode
  BY <1>1, <1>3, <1>4 DEF BoundTo
<1>5. CASE nd[i] = NoNode /\ CopiesIn(ca, i) # {}
  <2>. DEFINE c == CHOOSE m \in CopiesIn(ca, i) : TRUE
  <2>1. c \in CopiesIn(ca, i)  BY <1>5
  <2>2. BoundTo(nd, ca, i) = Ident(ca[c])  BY <1>5 DEF BoundTo
  <2>. QED  BY <1>2, <1>3, <1>5, <2>1, <2>2
<1>6. CASE nd[i] = NoNode /\ CopiesIn(ca, i) = {}
  BY <1>6 DEF BoundTo
<1>. QED  BY <1>4, <1>5, <1>6

(* In a state of the inductive invariant, BoundTo describes boundMap.   *)
LEMMA BoundNow ==
    ASSUME IInv, NEW i \in NodeId
    PROVE  /\ boundMap[i] \in NodeIdentities \cup {NoIdentity}
           /\ Exists(i) => boundMap[i] = Ident(nodes[i])
           /\ \A m \in CopiesIn(cache, i) : boundMap[i] = Ident(cache[m])
           /\ boundMap[i] # NoIdentity <=> Exists(i) \/ CopiesIn(cache, i) # {}
<1>1. /\ nodes \in [NodeId -> NodeRec \cup {NoNode}]
      /\ cache \in [MachineKeys -> PendingRec \cup {NoEntry}]
  BY DEF IInv, TypeOK
<1>2. \A m \in CopiesIn(cache, i) :
         /\ cache[m].user \in Users /\ cache[m].ip # NoIP
         /\ Exists(i) => Ident(cache[m]) = Ident(nodes[i])
         /\ \A m2 \in CopiesIn(cache, i) : Ident(cache[m]) = Ident(cache[m2])
  BY DEF IInv, CacheCoherent, CopiesIn, Ident, NodeId
<1>. QED  BY <1>1, <1>2, HolderIdentity DEF boundMap, Exists

(* The same in the state after a step that keeps the invariant. *)
LEMMA BoundNext ==
    ASSUME IInv', NEW i \in NodeId
    PROVE  /\ boundMap'[i] \in NodeIdentities \cup {NoIdentity}
           /\ Exists(i)' => boundMap'[i] = Ident(nodes'[i])
           /\ \A m \in CopiesIn(cache', i) : boundMap'[i] = Ident(cache'[m])
           /\ boundMap'[i] # NoIdentity <=> Exists(i)' \/ CopiesIn(cache', i) # {}
<1>1. /\ nodes' \in [NodeId -> NodeRec \cup {NoNode}]
      /\ cache' \in [MachineKeys -> PendingRec \cup {NoEntry}]
  BY DEF IInv, TypeOK
<1>2. \A m \in CopiesIn(cache', i) :
         /\ cache'[m].user \in Users /\ cache'[m].ip # NoIP
         /\ Exists(i)' => Ident(cache'[m]) = Ident(nodes'[i])
         /\ \A m2 \in CopiesIn(cache', i) : Ident(cache'[m]) = Ident(cache'[m2])
  <2> SUFFICES ASSUME NEW m \in CopiesIn(cache', i)
               PROVE  /\ cache'[m].user \in Users /\ cache'[m].ip # NoIP
                      /\ Exists(i)' => Ident(cache'[m]) = Ident(nodes'[i])
                      /\ \A m2 \in CopiesIn(cache', i) :
                            Ident(cache'[m]) = Ident(cache'[m2])
    OBVIOUS
  <2>1. m \in MachineKeys /\ cache'[m] # NoEntry /\ cache'[m].id = i /\ i # 0
    BY DEF CopiesIn, NodeId
  <2>2. cache'[m].user \in Users /\ cache'[m].ip # NoIP
    BY <2>1 DEF IInv, CacheCoherent
  <2>3. Exists(i)' => Ident(cache'[m]) = Ident(nodes'[i])
    BY <2>1 DEF IInv, CacheCoherent, Exists, Ident
  <2>4. \A m2 \in CopiesIn(cache', i) : Ident(cache'[m]) = Ident(cache'[m2])
    BY <2>1 DEF IInv, CacheCoherent, CopiesIn, Ident
  <2>. QED  BY <2>2, <2>3, <2>4
<1>. QED  BY <1>1, <1>2, HolderIdentity DEF boundMap, Exists

-----------------------------------------------------------------------------
(* A step that hands out no ID, and in which every row and every cached *)
(* copy of a node is an unchanged holder or takes its owner and address *)
(* from a holder of the same ID, is an Update of NodeIdentity.           *)
LEMMA RetainStep ==
    ASSUME IInv, IInv', nextId' = nextId,
           \A i \in NodeId : Exists(i)' =>
              \/ Exists(i) /\ Ident(nodes'[i]) = Ident(nodes[i])
              \/ \E m \in CopiesIn(cache, i) : Ident(nodes'[i]) = Ident(cache[m]),
           \A m \in MachineKeys :
              \/ cache'[m] = NoEntry
              \/ cache'[m].id = 0
              \/ cache'[m] = cache[m]
              \/ Exists(cache'[m].id) /\ Ident(cache'[m]) = Ident(nodes[cache'[m].id])
    PROVE  Identity!Update
<1>1. boundMap' \in [NodeId -> NodeIdentities \cup {NoIdentity}]
  BY BoundNext DEF boundMap
<1>2. ASSUME NEW i \in NodeId, boundMap'[i] # NoIdentity
      PROVE  boundMap'[i] = boundMap[i]
  <2>1. CASE Exists(i)'
    <3>1. boundMap'[i] = Ident(nodes'[i])  BY <2>1, BoundNext
    <3>. QED  BY <2>1, <3>1, BoundNow
  <2>2. CASE ~Exists(i)'
    <3>1. PICK m \in CopiesIn(cache', i) : TRUE  BY <1>2, <2>2, BoundNext
    <3>2. boundMap'[i] = Ident(cache'[m])  BY <3>1, BoundNext
    <3>3. cache'[m] # NoEntry /\ cache'[m].id = i /\ i # 0
      BY <3>1 DEF CopiesIn, NodeId
    <3>6. cache'[m] = cache[m] \/ (Exists(i) /\ Ident(cache'[m]) = Ident(nodes[i]))
      BY <3>1, <3>3 DEF CopiesIn
    <3>4. CASE cache'[m] = cache[m]
      BY <3>2, <3>3, <3>4, BoundNow DEF CopiesIn
    <3>5. CASE Exists(i) /\ Ident(cache'[m]) = Ident(nodes[i])
      BY <3>2, <3>5, BoundNow
    <3>. QED  BY <3>4, <3>5, <3>6
  <2>. QED  BY <2>1, <2>2
<1>3. Existing' \subseteq {i \in NodeId : boundMap'[i] # NoIdentity}
  BY BoundNext DEF Existing
<1>. QED  BY <1>1, <1>2, <1>3 DEF Identity!Update, Identity!Ids, NodeId

(* Inserting a row under the next ID, while the cache only loses entries *)
(* of never-registered devices, is an Issue of NodeIdentity.              *)
LEMMA IssueStep ==
    ASSUME IInv, NEW r \in NodeRec, nextId <= MaxNodes, nextId' = nextId + 1,
           nodes' = [nodes EXCEPT ![nextId] = r],
           \A m \in MachineKeys :
              \/ cache'[m] = cache[m]
              \/ cache'[m] = NoEntry /\ cache[m] # NoEntry /\ cache[m].id = 0
    PROVE  Identity!Issue(Ident(r)) /\ Ident(r) \in NodeIdentities
<1>1. nextId \in NodeId  BY DEF IInv, TypeOK, NodeId
<1>2. r # NoNode /\ Ident(r) \in NodeIdentities
  BY SentinelsDiffer DEF NodeRec, Ident, NodeIdentities
<1>3. ASSUME NEW i \in NodeId
      PROVE  /\ CopiesIn(cache', i) = CopiesIn(cache, i)
             /\ \A m \in CopiesIn(cache, i) : cache'[m] = cache[m]
  BY DEF CopiesIn, NodeId
<1>4. boundMap'[nextId] = Ident(r)
  BY <1>1, <1>2 DEF boundMap, BoundTo, IInv, TypeOK
<1>5. ASSUME NEW i \in NodeId \ {nextId}  PROVE boundMap'[i] = boundMap[i]
  <2>1. nodes'[i] = nodes[i]  BY DEF IInv, TypeOK
  <2>2. CopiesIn(cache', i) = CopiesIn(cache, i)  BY <1>3
  <2>3. CopiesIn(cache, i) # {} =>
          cache'[CHOOSE m \in CopiesIn(cache, i) : TRUE]
            = cache[CHOOSE m \in CopiesIn(cache, i) : TRUE]
    BY <1>3
  <2>. QED  BY <2>1, <2>2, <2>3 DEF boundMap, BoundTo
<1>6. boundMap' = [boundMap EXCEPT ![nextId] = Ident(r)]
  BY <1>1, <1>4, <1>5 DEF boundMap
<1>7. Existing' = Existing \cup {nextId}
  BY <1>1, <1>2 DEF Existing, Exists, IInv, TypeOK
<1>. QED  BY <1>1, <1>2, <1>6, <1>7 DEF Identity!Issue, Identity!Ids, NodeId
(* RegisterNode saves the node with an address: its own when it has one, *)
(* otherwise the one getAvailableIPs found.                               *)
LEMMA RegisterNodeSaves ==
    ASSUME NEW p \in PendingRec, p.user \in Users, RegisterNode(p)
    PROVE  \E q \in PendingRec :
              /\ q.id = p.id /\ q.user = p.user /\ q.ip \in Addrs
              /\ p.ip # NoIP => q.ip = p.ip
              /\ Save(q)
<1>1. CASE p.ip # NoIP
  <2>1. p.ip \in Addrs  BY <1>1 DEF PendingRec
  <2>. QED  BY <1>1, <2>1 DEF RegisterNode
<1>2. CASE p.ip = NoIP
  <2>1. PICK a \in FreeAddrs : Save([p EXCEPT !.ip = a])
    BY <1>2 DEF RegisterNode
  <2>2. a \in Addrs  BY DEF FreeAddrs
  <2> DEFINE q == [p EXCEPT !.ip = a]
  <2>3. q \in PendingRec /\ q.id = p.id /\ q.user = p.user /\ q.ip = a
    BY <2>2 DEF PendingRec
  <2>. QED  BY <1>2, <2>1, <2>2, <2>3, Zenon
<1>. QED  BY <1>1, <1>2

(* A row saved from a pending node with an owner and an address. *)
LEMMA RowType ==
    ASSUME NEW q \in PendingRec, q.user \in Users, q.ip \in Addrs
    PROVE  Row(q) \in NodeRec /\ Ident(Row(q)) = Ident(q)
BY DEF Row, NodeRec, PendingRec, Ident

(* A step that touches neither the table nor the counter, and replaces  *)
(* cache entries only by nothing, by a never-registered device, or by a *)
(* copy of an existing row, is an Update.                                 *)
LEMMA CacheStep ==
    ASSUME IInv, IInv', UNCHANGED <<nodes, nextId>>,
           \A m \in MachineKeys :
              \/ cache'[m] = NoEntry
              \/ cache'[m].id = 0
              \/ cache'[m] = cache[m]
              \/ Exists(cache'[m].id) /\ Ident(cache'[m]) = Ident(nodes[cache'[m].id])
    PROVE  Identity!Update
BY RetainStep DEF Exists

(* Every step of the registry maps to a step or a stutter of           *)
(* NodeIdentity.                                                         *)
LEMMA IdentityNext ==
    IInv /\ IInv' /\ [Next]_vars
        => [Identity!Next]_<<nextId, boundMap, Existing>>
<1> SUFFICES ASSUME IInv, IInv', [Next]_vars
             PROVE  [Identity!Next]_<<nextId, boundMap, Existing>>
  OBVIOUS
<1>a. Identity!Update => Identity!Next  BY DEF Identity!Next
<1>b. ASSUME NEW r \in NodeRec, Identity!Issue(Ident(r)), Ident(r) \in NodeIdentities
      PROVE  Identity!Next
  BY <1>b DEF Identity!Next
<1>c. UNCHANGED <<nodes, cache, nextId>>
        => UNCHANGED <<nextId, boundMap, Existing>>
  BY DEF boundMap, BoundTo, CopiesIn, Existing, Exists
<1>1. ASSUME NEW m \in MachineKeys, NEW k \in NodeKeys, NEW h \in Hostnames,
             CachePendingNew(m, k, h)
      PROVE  Identity!Update
  <2>1. cache'[m].id = 0 /\ \A m2 \in MachineKeys \ {m} : cache'[m2] = cache[m2]
    BY <1>1 DEF CachePendingNew, IInv, TypeOK
  <2>. QED  BY <1>1, <2>1, CacheStep DEF CachePendingNew
<1>2. ASSUME NEW i \in NodeId, NEW k \in NodeKeys, CachePendingExisting(i, k)
      PROVE  Identity!Update
  <2> DEFINE n == nodes[i]
  <2>1. n \in NodeRec  BY <1>2, SentinelsDiffer DEF CachePendingExisting, Exists,
                                                   IInv, TypeOK
  <2>2. /\ cache'[n.mkey].id = i
        /\ Ident(cache'[n.mkey]) = Ident(n)
        /\ \A m2 \in MachineKeys \ {n.mkey} : cache'[m2] = cache[m2]
    BY <1>2, <2>1 DEF CachePendingExisting, IInv, TypeOK, NodeRec, Ident
  <2>3. Exists(i)  BY <1>2 DEF CachePendingExisting
  <2>. QED  BY <1>2, <2>1, <2>2, <2>3, CacheStep DEF CachePendingExisting, NodeRec
<1>3. ASSUME NEW m \in MachineKeys, CacheExpire(m)  PROVE Identity!Update
  <2>1. cache'[m] = NoEntry /\ \A m2 \in MachineKeys \ {m} : cache'[m2] = cache[m2]
    BY <1>3 DEF CacheExpire, IInv, TypeOK
  <2>. QED  BY <1>3, <2>1, CacheStep DEF CacheExpire
<1>4. ASSUME NEW m \in MachineKeys, NEW u \in Users \cup {UnknownUser},
             NEW exp \in Time \cup {NULL}, NEW commits \in BOOLEAN,
             RegisterNodeFromAuthCallback(m, u, exp, commits)
      PROVE  [Identity!Next]_<<nextId, boundMap, Existing>>
  <2> DEFINE p   == cache[m]
             reg == [p EXCEPT !.user = u,
                              !.expiry = IF exp # NULL THEN exp ELSE p.expiry]
  <2>1. CASE p = NoEntry \/ u \notin Users \/ (p.id # 0 /\ p.user # u)
             \/ PoolExhausted(reg)
    <3>1. UNCHANGED <<nodes, cache, nextId>>
      BY <1>4, <2>1 DEF RegisterNodeFromAuthCallback, DifferentRegisteredUser
    <3>. QED  BY <3>1, <1>c
  <2>2. CASE p # NoEntry /\ u \in Users /\ ~(p.id # 0 /\ p.user # u)
             /\ ~PoolExhausted(reg)
    <3>1. p \in PendingRec  BY <2>2 DEF IInv, TypeOK
    <3>2. cache' = [cache EXCEPT ![m] = NoEntry]
      BY <1>4, <2>2 DEF RegisterNodeFromAuthCallback, DifferentRegisteredUser
    <3>3. \A m2 \in MachineKeys : cache'[m2] = IF m2 = m THEN NoEntry ELSE cache[m2]
      BY <3>2 DEF IInv, TypeOK
    <3>4. CASE ~commits
      <4>1. UNCHANGED <<nodes, nextId>>
        BY <1>4, <2>2, <3>4 DEF RegisterNodeFromAuthCallback, DifferentRegisteredUser
      <4>. QED  BY <3>3, <4>1, <1>a, CacheStep
    <3>5. CASE commits
      <4>1. RegisterNode(reg)
        BY <1>4, <2>2, <3>5 DEF RegisterNodeFromAuthCallback, DifferentRegisteredUser
      <4>2. reg \in PendingRec /\ reg.user = u /\ reg.id = p.id /\ reg.ip = p.ip
        BY <2>2, <3>1 DEF PendingRec
      <4>a. PICK q \in PendingRec :
              /\ q.id = reg.id /\ q.user = reg.user /\ q.ip \in Addrs
              /\ reg.ip # NoIP => q.ip = reg.ip
              /\ Save(q)
        BY <2>2, <4>1, <4>2, RegisterNodeSaves
      <4>3. /\ q.id = p.id /\ q.user = u /\ q.ip \in Addrs
            /\ p.ip # NoIP => q.ip = p.ip
            /\ Save(q)
        BY <4>a, <4>2
      <4>4. Row(q) \in NodeRec /\ Ident(Row(q)) = Ident(q)  BY <2>2, <4>3, RowType
      <4>5. CASE p.id = 0
        <5>1. /\ nextId <= MaxNodes
              /\ nodes' = [nodes EXCEPT ![nextId] = Row(q)]
              /\ nextId' = nextId + 1
          BY <4>3, <4>5 DEF Save
        <5>2. Identity!Issue(Ident(Row(q))) /\ Ident(Row(q)) \in NodeIdentities
          BY <2>2, <3>3, <4>4, <4>5, <5>1, IssueStep
        <5>. QED  BY <4>4, <5>2, <1>b
      <4>6. CASE p.id # 0
        <5> DEFINE j == p.id
        <5>1. p.ip # NoIP /\ j \in NodeId  BY <2>2, <3>1, <4>6 DEF IInv, CacheCoherent, PendingRec
        <5>2. nodes' = [nodes EXCEPT ![j] = Row(q)] /\ nextId' = nextId
          BY <4>3, <4>6 DEF Save
        <5>a. q.user = p.user /\ q.ip = p.ip  BY <2>2, <4>3, <4>6, <5>1
        <5>b. nodes'[j] = Row(q)  BY <5>1, <5>2 DEF IInv, TypeOK
        <5>3. Ident(nodes'[j]) = Ident(p) /\ m \in CopiesIn(cache, j)
          BY <2>2, <4>4, <5>a, <5>b DEF Ident, CopiesIn
        <5>4. \A i \in NodeId \ {j} : nodes'[i] = nodes[i]
          BY <5>2 DEF IInv, TypeOK
        <5>5. Identity!Update
          BY <3>3, <5>2, <5>3, <5>4, RetainStep DEF Exists
        <5>. QED  BY <5>5, <1>a
      <4>. QED  BY <4>5, <4>6
    <3>. QED  BY <3>4, <3>5
  <2>. QED  BY <2>1, <2>2
<1>5. ASSUME NEW m \in MachineKeys, NEW k \in NodeKeys, NEW h \in Hostnames,
             NEW u \in Users, NEW eph \in BOOLEAN,
             RegisterNodeDirect(m, k, h, u, eph)
      PROVE  [Identity!Next]_<<nextId, boundMap, Existing>>
  <2>1. PICK name \in GenerateGivenName(m, h) :
          LET p == [id |-> 0, mkey |-> m, nkey |-> k, user |-> u, ip |-> NoIP,
                    name |-> name, tags |-> {}, expiry |-> NULL,
                    lastSeen |-> NULL, ephemeral |-> eph]
          IN  \/ ~PoolExhausted(p) /\ RegisterNode(p)
              \/ PoolExhausted(p) /\ UNCHANGED <<nodes, nextId>>
    BY <1>5 DEF RegisterNodeDirect
  <2> DEFINE p == [id |-> 0, mkey |-> m, nkey |-> k, user |-> u, ip |-> NoIP,
                   name |-> name, tags |-> {}, expiry |-> NULL,
                   lastSeen |-> NULL, ephemeral |-> eph]
  <2>2. UNCHANGED cache  BY <1>5 DEF RegisterNodeDirect
  <2>3. CASE RegisterNode(p)
    <3>1. p \in PendingRec
      BY GenerateGivenNameType, MaxTimeAssumption DEF PendingRec, NoIP, Time
    <3>2. PICK q \in PendingRec : q.id = 0 /\ q.user = u /\ q.ip \in Addrs /\ Save(q)
      BY <2>3, <3>1, RegisterNodeSaves
    <3>3. Row(q) \in NodeRec /\ Ident(Row(q)) = Ident(q)  BY <3>2, RowType
    <3>4. /\ nextId <= MaxNodes
          /\ nodes' = [nodes EXCEPT ![nextId] = Row(q)]
          /\ nextId' = nextId + 1
      BY <3>2 DEF Save
    <3>5. Identity!Issue(Ident(Row(q))) /\ Ident(Row(q)) \in NodeIdentities
      BY <2>2, <3>3, <3>4, IssueStep
    <3>. QED  BY <3>3, <3>5, <1>b
  <2>4. CASE UNCHANGED <<nodes, nextId>>
    BY <2>2, <2>4, <1>c
  <2>. QED  BY <2>1, <2>3, <2>4
<1>6. ASSUME NEW i \in NodeId, NEW tags \in SUBSET Tags, SetTags(i, tags)
      PROVE  [Identity!Next]_<<nextId, boundMap, Existing>>
  <2>1. CASE tags = {}  BY <1>6, <2>1, <1>c DEF SetTags, vars
  <2>2. CASE tags # {}
    <3>a. UpdateRow(i, LAMBDA n : [n EXCEPT !.tags = tags])
      BY <1>6, <2>2 DEF SetTags
    <3>b. \A j \in NodeId : Exists(j)' => Exists(j) /\ Ident(nodes'[j]) = Ident(nodes[j])
      BY <3>a, SentinelsDiffer DEF UpdateRow, Exists, IInv, TypeOK, NodeRec, NoNode, Ident
    <3>. QED  BY <3>a, <3>b, RetainStep, <1>a DEF UpdateRow
  <2>. QED  BY <2>1, <2>2
<1>7. ASSUME NEW i \in NodeId, NEW name \in GivenNames \cup {InvalidName},
             RenameNode(i, name)
      PROVE  Identity!Update
  <2>a. UpdateRow(i, LAMBDA n : [n EXCEPT !.name = name])
    BY <1>7 DEF RenameNode
  <2>b. \A j \in NodeId : Exists(j)' => Exists(j) /\ Ident(nodes'[j]) = Ident(nodes[j])
    BY <2>a, SentinelsDiffer DEF UpdateRow, Exists, IInv, TypeOK, NodeRec, NoNode, Ident
  <2>. QED  BY <2>a, <2>b, RetainStep DEF UpdateRow
<1>8. ASSUME NEW i \in NodeId, NEW k \in NodeKeys, NodeSetNodeKey(i, k)
      PROVE  Identity!Update
  <2>a. UpdateRow(i, LAMBDA n : [n EXCEPT !.nkey = k])
    BY <1>8 DEF NodeSetNodeKey
  <2>b. \A j \in NodeId : Exists(j)' => Exists(j) /\ Ident(nodes'[j]) = Ident(nodes[j])
    BY <2>a, SentinelsDiffer DEF UpdateRow, Exists, IInv, TypeOK, NodeRec, NoNode, Ident
  <2>. QED  BY <2>a, <2>b, RetainStep DEF UpdateRow
<1>9. ASSUME NEW i \in NodeId, NEW m \in MachineKeys, NodeSetMachineKey(i, m)
      PROVE  Identity!Update
  <2>a. UpdateRow(i, LAMBDA n : [n EXCEPT !.mkey = m])
    BY <1>9 DEF NodeSetMachineKey
  <2>b. \A j \in NodeId : Exists(j)' => Exists(j) /\ Ident(nodes'[j]) = Ident(nodes[j])
    BY <2>a, SentinelsDiffer DEF UpdateRow, Exists, IInv, TypeOK, NodeRec, NoNode, Ident
  <2>. QED  BY <2>a, <2>b, RetainStep DEF UpdateRow
<1>10. ASSUME NEW i \in NodeId, DeleteNode(i)  PROVE Identity!Update
  <2>1. \A j \in NodeId : Exists(j)' => j # i /\ nodes'[j] = nodes[j]
    BY <1>10 DEF DeleteNode, Exists, IInv, TypeOK
  <2>. QED  BY <1>10, <2>1, RetainStep DEF DeleteNode, Exists
<1>11. CASE UNCHANGED vars  BY <1>11, <1>c DEF vars
<1>. QED  BY <1>1, <1>2, <1>3, <1>4, <1>5, <1>6, <1>7, <1>8, <1>9, <1>10,
             <1>11, <1>a DEF Next

(* The empty table and cache map to the initial state of NodeIdentity. *)
LEMMA IdentityInit == Init => Identity!Init
<1> SUFFICES ASSUME Init PROVE Identity!Init  OBVIOUS
<1>1. \A i \in NodeId : ~Exists(i) /\ CopiesIn(cache, i) = {}
  BY DEF Init, Exists, CopiesIn, NodeId
<1>. QED  BY <1>1 DEF Init, Identity!Init, Identity!Ids, NodeId, boundMap,
                     BoundTo, Existing, Exists

-----------------------------------------------------------------------------
(* Spec sections 2 and 3, for every size of table, address pool and set  *)
(* of users: the node registry implements NodeIdentity.  Node IDs come   *)
(* from the auto-increment counter in order; re-authorising a cached     *)
(* copy of a node in RegisterNodeFromAuthCallback, whether or not its    *)
(* row still exists, never rebinds its ID to another owner or address;   *)
(* and an ID that neither the table nor the cache remembers is never     *)
(* used again.                                                            *)
THEOREM IdentityRefined == Spec => IdentitySpec
<1>1. Init => Identity!Init  BY IdentityInit
<1>2. IInv /\ [Next]_vars => IInv'  BY IInvNext
<1>3. IInv /\ [Next]_vars => [Identity!Next]_<<nextId, boundMap, Existing>>
  BY <1>2, IdentityNext
<1>. QED  BY <1>1, <1>2, <1>3, IInvInit, PTL
          DEF Spec, IdentitySpec, Identity!Spec
=============================================================================
