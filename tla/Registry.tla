------------------------------ MODULE Registry ------------------------------
(***************************************************************************)
(* The node registry of hscontrol/db/node.go: the node table, the         *)
(* registration cache that holds nodes awaiting authorisation, address    *)
(* allocation and given-name generation.                                   *)
(*                                                                         *)
(* Every exported function runs inside one write transaction of the store *)
(* (hsdb.Write / Write), so each operation below is one atomic step.  The *)
(* only operation split across transactions is given-name generation: it *)
(* runs in a Read transaction when the pending node is built and the name *)
(* is persisted later, when the node is registered.                       *)
(***************************************************************************)
EXTENDS Naturals, FiniteSets

CONSTANTS
    MaxNodes,     \* bound on the auto-increment node ID
    MachineKeys,  \* machine keys of the devices
    NodeKeys,     \* session (node) keys
    Users,        \* users known to the user directory
    NumAddrs,     \* size of the configured address pool 1..NumAddrs
    Hostnames,    \* hostnames devices report (already DNS-label safe)
    Suffixes,     \* outcomes of the 8-character random DNS-safe suffix
    Tags,         \* forced tags an administrator may set
    MaxTime,      \* bound on the wall clock (times are 0..MaxTime)
    NULL,         \* a nil pointer / unset time
    NoSuffix,     \* given name without a random suffix
    InvalidName,  \* a name that fails util.CheckForFQDNRules
    UnknownUser   \* a user name the directory does not know

ASSUME MaxNodesAssumption == MaxNodes \in Nat \ {0}
ASSUME NumAddrsAssumption == NumAddrs \in Nat \ {0}
ASSUME MaxTimeAssumption  == MaxTime \in Nat
ASSUME NullAssumption ==
    /\ NULL \notin Nat
    /\ UnknownUser \notin Users
    /\ NoSuffix \notin Suffixes

NodeId   == 1 .. MaxNodes
Addrs    == 1 .. NumAddrs
Time     == 0 .. MaxTime
NoIP     == 0                   \* node.IPAddresses is empty
GivenNames == Hostnames \X ({NoSuffix} \cup Suffixes)

(* A row of the nodes table; the ID is the index into `nodes`. *)
NodeRec == [mkey : MachineKeys, nkey : NodeKeys, user : Users,
            ip : Addrs, name : GivenNames, tags : SUBSET Tags,
            expiry : Time \cup {NULL}, lastSeen : Time \cup {NULL},
            ephemeral : BOOLEAN]

(* A types.Node held in the registration cache: ID 0 and no address for a *)
(* device never registered, the copy of a persisted row otherwise.        *)
PendingRec == [id : {0} \cup NodeId, mkey : MachineKeys, nkey : NodeKeys,
               user : Users \cup {NULL}, ip : Addrs \cup {NoIP},
               name : GivenNames, tags : SUBSET Tags,
               expiry : Time \cup {NULL}, lastSeen : Time \cup {NULL},
               ephemeral : BOOLEAN]

NoNode  == [absent |-> TRUE]
NoEntry == [empty |-> TRUE]

(* What the last registration-cache step returned to its caller. *)
Outcomes == {"none", "ok", "NotFoundInCache", "UserNotFound",
             "DifferentRegisteredUser", "AddressPoolExhausted", "CommitFailed"}
Errors == Outcomes \ {"none", "ok"}

VARIABLES
    nodes,    \* [NodeId -> NodeRec \cup {NoNode}]: the nodes table
    cache,    \* [MachineKeys -> PendingRec \cup {NoEntry}]: registrationCache
    nextId,   \* the next auto-increment primary key
    outcome   \* the result of the last registration-cache step

vars == <<nodes, cache, nextId, outcome>>

-----------------------------------------------------------------------------
(* Helpers over the table. *)

Exists(i)   == nodes[i] # NoNode
Existing    == {i \in NodeId : Exists(i)}
UsedAddrs   == {nodes[i].ip : i \in Existing}
FreeAddrs   == Addrs \ UsedAddrs

(* The row a pending node becomes when it is saved. *)
Row(p) == [mkey |-> p.mkey, nkey |-> p.nkey, user |-> p.user, ip |-> p.ip,
           name |-> p.name, tags |-> p.tags, expiry |-> p.expiry,
           lastSeen |-> p.lastSeen, ephemeral |-> p.ephemeral]

(* Mutant: the database hands out the lowest ID that has no row, as a    *)
(* rowid table without AUTOINCREMENT does after the highest row is gone. *)
MutSaveReuseId(p) ==
    IF p.id = 0
    THEN \E i \in NodeId :
            /\ ~Exists(i)
            /\ \A j \in NodeId : j < i => Exists(j)
            /\ nodes' = [nodes EXCEPT ![i] = Row(p)]
            /\ nextId' = IF i = nextId THEN nextId + 1 ELSE nextId
    ELSE /\ nodes' = [nodes EXCEPT ![p.id] = Row(p)]
         /\ UNCHANGED nextId

(* tx.Save(&node): an INSERT under a fresh ID when the ID is zero, else  *)
(* an UPDATE of the row with the node's ID (gorm Save falls back to an  *)
(* INSERT under that same ID when the update touches no row).            *)
Save(p) ==
    IF p.id = 0
    THEN /\ nextId <= MaxNodes
         /\ nodes' = [nodes EXCEPT ![nextId] = Row(p)]
         /\ nextId' = nextId + 1
    ELSE /\ nodes' = [nodes EXCEPT ![p.id] = Row(p)]
         /\ UNCHANGED nextId

(* generateGivenName: the normalised hostname, with a random suffix when *)
(* asked for one (the trim to 63 characters is abstracted away).          *)
generateGivenName(h, randomSuffix) ==
    IF randomSuffix THEN {<<h, s>> : s \in Suffixes} ELSE {<<h, NoSuffix>>}

(* GenerateGivenName: the plain name unless a node with another machine  *)
(* key holds it.  listNodesByGivenName has no ORDER BY, and the loop     *)
(* keeps the last match, so any holder of the name may be the one found. *)
GenerateGivenName(m, h) ==
    LET holders == {i \in Existing : nodes[i].name = <<h, NoSuffix>>}
    IN  IF holders = {} THEN generateGivenName(h, FALSE)
        ELSE UNION {IF nodes[i].mkey # m THEN generateGivenName(h, TRUE)
                                         ELSE generateGivenName(h, FALSE)
                    : i \in holders}

-----------------------------------------------------------------------------
(* The registration cache is filled by the authentication layer, outside *)
(* this file.  A device with no node gets a fresh node (ID 0, no address, *)
(* not ephemeral: only a pre-auth key makes a node ephemeral) named by    *)
(* GenerateGivenName; a device that already has a node and logs *)
(* in again (after expiry or logout) gets a copy of its row, which it    *)
(* may present with a new session key.                                   *)
CachePendingNew(m, k, h) ==
    /\ \A i \in Existing : nodes[i].mkey # m
    /\ \E name \in GenerateGivenName(m, h) :
          cache' = [cache EXCEPT ![m] =
              [id |-> 0, mkey |-> m, nkey |-> k, user |-> NULL, ip |-> NoIP,
               name |-> name, tags |-> {}, expiry |-> NULL,
               lastSeen |-> NULL, ephemeral |-> FALSE]]
    /\ outcome' = "none"
    /\ UNCHANGED <<nodes, nextId>>

(* Mutant: the copy keeps the ID but not the addresses of the row. *)
MutCachePendingExisting(i, k) ==
    /\ Exists(i)
    /\ LET n == nodes[i] IN
       cache' = [cache EXCEPT ![n.mkey] =
          [id |-> i, mkey |-> n.mkey, nkey |-> k, user |-> n.user, ip |-> NoIP,
           name |-> n.name, tags |-> n.tags, expiry |-> n.expiry,
           lastSeen |-> n.lastSeen, ephemeral |-> n.ephemeral]]
    /\ outcome' = "none"
    /\ UNCHANGED <<nodes, nextId>>

CachePendingExisting(i, k) ==
    /\ Exists(i)
    /\ LET n == nodes[i] IN
       cache' = [cache EXCEPT ![n.mkey] =
          [id |-> i, mkey |-> n.mkey, nkey |-> k, user |-> n.user, ip |-> n.ip,
           name |-> n.name, tags |-> n.tags, expiry |-> n.expiry,
           lastSeen |-> n.lastSeen, ephemeral |-> n.ephemeral]]
    /\ outcome' = "none"
    /\ UNCHANGED <<nodes, nextId>>

(* go-cache evicts an entry when its TTL runs out. *)
CacheExpire(m) ==
    /\ cache[m] # NoEntry
    /\ cache' = [cache EXCEPT ![m] = NoEntry]
    /\ outcome' = "none"
    /\ UNCHANGED <<nodes, nextId>>

-----------------------------------------------------------------------------
(* Mutant: addresses are allocated even for a node that already has some. *)
MutRegisterNodeRealloc(p) ==
    \E a \in FreeAddrs :
        /\ \A b \in FreeAddrs : a <= b
        /\ Save([p EXCEPT !.ip = a])

(* Mutant: the node is saved without asking getAvailableIPs. *)
MutRegisterNodeNoAlloc(p) == Save(p)

(* RegisterNode: a node that already has addresses is saved as it is;     *)
(* otherwise getAvailableIPs gives it the lowest free address, or fails.  *)
RegisterNode(p) ==
    IF p.ip # NoIP
    THEN Save(p)
    ELSE \E a \in FreeAddrs :
            /\ \A b \in FreeAddrs : a <= b
            /\ Save([p EXCEPT !.ip = a])

PoolExhausted(p) == p.ip = NoIP /\ FreeAddrs = {}

(* Mutant: the owner of a previously registered node is not compared. *)
MutDifferentRegisteredUser(p, u) == FALSE

(* "Registration of expired node with different user": the cached node *)
(* was registered before (non-zero ID) under another user.              *)
DifferentRegisteredUser(p, u) == p.id # 0 /\ p.user # u

(* RegisterNodeFromAuthCallback(mkey, userName, nodeExpiry, ...).  The   *)
(* cache entry is deleted inside the transaction, after RegisterNode and *)
(* before the commit; `commits` says whether the commit then succeeds.   *)
RegisterNodeFromAuthCallback(m, u, exp, commits) ==
    LET p    == cache[m]
        reg  == [p EXCEPT !.user = u,
                          !.expiry = IF exp # NULL THEN exp ELSE p.expiry]
    IN
    \/ /\ p = NoEntry
       /\ outcome' = "NotFoundInCache"
       /\ UNCHANGED <<nodes, cache, nextId>>
    \/ /\ p # NoEntry
       /\ u \notin Users
       /\ outcome' = "UserNotFound"
       /\ UNCHANGED <<nodes, cache, nextId>>
    \/ /\ p # NoEntry
       /\ u \in Users
       /\ DifferentRegisteredUser(p, u)
       /\ outcome' = "DifferentRegisteredUser"
       /\ UNCHANGED <<nodes, cache, nextId>>
    \/ /\ p # NoEntry
       /\ u \in Users
       /\ ~(DifferentRegisteredUser(p, u))
       /\ PoolExhausted(reg)
       /\ outcome' = "AddressPoolExhausted"
       /\ UNCHANGED <<nodes, cache, nextId>>
    \/ /\ p # NoEntry
       /\ u \in Users
       /\ ~(DifferentRegisteredUser(p, u))
       /\ ~PoolExhausted(reg)
       /\ cache' = [cache EXCEPT ![m] = NoEntry]
       /\ IF commits
          THEN /\ RegisterNode(reg)
               /\ outcome' = "ok"
          ELSE /\ outcome' = "CommitFailed"
               /\ UNCHANGED <<nodes, nextId>>

(* hsdb.RegisterNode, called by the pre-auth-key handler with a node it  *)
(* builds for a device that has none: owner from the key, name from      *)
(* GenerateGivenName, no address yet.                                    *)
RegisterNodeDirect(m, k, h, u, eph) ==
    /\ \A i \in Existing : nodes[i].mkey # m
    /\ \E name \in GenerateGivenName(m, h) :
          LET p == [id |-> 0, mkey |-> m, nkey |-> k, user |-> u, ip |-> NoIP,
                    name |-> name, tags |-> {}, expiry |-> NULL,
                    lastSeen |-> NULL, ephemeral |-> eph]
          IN  \/ /\ ~PoolExhausted(p)
                 /\ RegisterNode(p)
              \/ /\ PoolExhausted(p)
                 /\ UNCHANGED <<nodes, nextId>>
    /\ UNCHANGED <<cache, outcome>>

-----------------------------------------------------------------------------
(* Administrative and device-driven updates of one row.  Each is an      *)
(* UPDATE ... WHERE id = ?, which touches nothing when the row is gone.  *)
UpdateRow(i, f(_)) ==
    /\ nodes' = IF Exists(i) THEN [nodes EXCEPT ![i] = f(nodes[i])] ELSE nodes
    /\ UNCHANGED <<cache, nextId, outcome>>

(* SetTags: an empty list is a no-op; the list is de-duplicated. *)
SetTags(i, tags) ==
    IF tags = {} THEN UNCHANGED vars
    ELSE UpdateRow(i, LAMBDA n : [n EXCEPT !.tags = tags])

(* RenameNode: rejected unless the name passes CheckForFQDNRules; no     *)
(* other node's name is consulted.                                       *)
RenameNode(i, newName) ==
    /\ newName # InvalidName
    /\ UpdateRow(i, LAMBDA n : [n EXCEPT !.name = newName])

NodeSetNodeKey(i, k) == UpdateRow(i, LAMBDA n : [n EXCEPT !.nkey = k])

NodeSetMachineKey(i, m) == UpdateRow(i, LAMBDA n : [n EXCEPT !.mkey = m])

(* DeleteNode: the node's routes, then the row itself (Unscoped). *)
DeleteNode(i) ==
    /\ Exists(i)
    /\ nodes' = [nodes EXCEPT ![i] = NoNode]
    /\ UNCHANGED <<cache, nextId, outcome>>

-----------------------------------------------------------------------------
Init ==
    /\ nodes = [i \in NodeId |-> NoNode]
    /\ cache = [m \in MachineKeys |-> NoEntry]
    /\ nextId = 1
    /\ outcome = "none"

Next ==
    \/ \E m \in MachineKeys, k \in NodeKeys, h \in Hostnames :
          CachePendingNew(m, k, h)
    \/ \E i \in NodeId, k \in NodeKeys : CachePendingExisting(i, k)
    \/ \E m \in MachineKeys : CacheExpire(m)
    \/ \E m \in MachineKeys, u \in Users \cup {UnknownUser},
          exp \in Time \cup {NULL}, commits \in BOOLEAN :
          RegisterNodeFromAuthCallback(m, u, exp, commits)
    \/ \E m \in MachineKeys, k \in NodeKeys, h \in Hostnames, u \in Users,
          eph \in BOOLEAN : RegisterNodeDirect(m, k, h, u, eph)
    \/ \E i \in NodeId :
          \/ \E tags \in SUBSET Tags : SetTags(i, tags)
          \/ \E name \in GivenNames \cup {InvalidName} : RenameNode(i, name)
          \/ \E k \in NodeKeys : NodeSetNodeKey(i, k)
          \/ \E m \in MachineKeys : NodeSetMachineKey(i, m)
          \/ DeleteNode(i)

Spec == Init /\ [][Next]_vars

-----------------------------------------------------------------------------
(* Every row and every cache entry has the shape of a types.Node. *)
TypeOK ==
    /\ nodes \in [NodeId -> NodeRec \cup {NoNode}]
    /\ cache \in [MachineKeys -> PendingRec \cup {NoEntry}]
    /\ nextId \in 1 .. MaxNodes + 1
    /\ outcome \in Outcomes

(* A registered node keeps the addresses it was given: no step, however *)
(* stale the cached copy that RegisterNodeFromAuthCallback saves back,   *)
(* changes the address of a node that exists before and after it.       *)
IPStable ==
    [][\A i \in NodeId :
          Exists(i) /\ Exists(i)' => nodes'[i].ip = nodes[i].ip]_vars

(* A node never changes owner: re-authorising a cached copy of a node   *)
(* under another user is refused (ErrDifferentRegisteredUser).          *)
OwnerStable ==
    [][\A i \in NodeId :
          Exists(i) /\ Exists(i)' => nodes'[i].user = nodes[i].user]_vars

(* The cache entries and the table agree on identity: every entry that  *)
(* copies a row names an ID already handed out, carries an address, and *)
(* has the owner and address of that row while it exists; two copies of *)
(* one row agree with each other.                                       *)
CacheCoherent ==
    \A m \in MachineKeys : cache[m] # NoEntry /\ cache[m].id # 0 =>
        /\ cache[m].id < nextId
        /\ cache[m].ip # NoIP
        /\ cache[m].user \in Users
        /\ Exists(cache[m].id) =>
              /\ nodes[cache[m].id].user = cache[m].user
              /\ nodes[cache[m].id].ip = cache[m].ip
        /\ \A m2 \in MachineKeys :
              cache[m2] # NoEntry /\ cache[m2].id = cache[m].id =>
                 cache[m2].user = cache[m].user /\ cache[m2].ip = cache[m].ip

(* Spec section 3: the addresses of an authorised node are disjoint from *)
(* every other node's.  RegisterNode saves a cached copy that already   *)
(* has an address without looking at the table, so a copy of a node     *)
(* deleted meanwhile brings back an address given to another node.      *)
IPUnique ==
    \A i, j \in Existing : i # j => nodes[i].ip # nodes[j].ip

(* Spec section 3: GivenName is unique across all nodes at any instant.  *)
(* RenameNode only checks the DNS rules, and GenerateGivenName reads the *)
(* table in a transaction of its own, long before the name is saved.    *)
GivenNameUnique ==
    \A i, j \in Existing : i # j => nodes[i].name # nodes[j].name

(* Spec section 4.1: a failed RegisterNodeFromAuthCallback leaves the    *)
(* cache entry intact so that the device may retry.  The code deletes   *)
(* the entry inside the transaction, so a failing commit loses it.      *)
CacheKeptOnFailure == [][outcome' \in Errors => cache' = cache]_vars

(* Part of the inductive invariant of RegistryProofs, not a property of  *)
(* node.go (the store assigns IDs): rows exist only below the counter.   *)
IdsIssued == \A i \in NodeId : Exists(i) => i < nextId

-----------------------------------------------------------------------------
(* The refinement: an ID is bound to the owner and address of its row,   *)
(* or, when the row is gone, to those of a cached copy of it.            *)
NoIdentity == [unbound |-> TRUE]

NodeIdentities == [user : Users, ip : Addrs]

Ident(r) == [user |-> r.user, ip |-> r.ip]

(* The machine keys under which table `ca` caches a copy of node i. *)
CopiesIn(ca, i) == {m \in MachineKeys : ca[m] # NoEntry /\ ca[m].id = i}

BoundTo(nd, ca, i) ==
    IF nd[i] # NoNode THEN Ident(nd[i])
    ELSE IF CopiesIn(ca, i) # {}
         THEN Ident(ca[CHOOSE m \in CopiesIn(ca, i) : TRUE])
         ELSE NoIdentity

boundMap == [i \in NodeId |-> BoundTo(nodes, cache, i)]

Identity == INSTANCE NodeIdentity
    WITH MaxId <- MaxNodes, Identities <- NodeIdentities,
         None <- NoIdentity, next <- nextId, bound <- boundMap, live <- Existing

(* Spec sections 2 and 3: the node table implements NodeIdentity.  IDs  *)
(* come from the auto-increment counter; re-authorising a cached copy,  *)
(* whether or not its row still exists, never rebinds an ID to another  *)
(* owner or address, and an ID nothing remembers is never used again.   *)
IdentitySpec == Identity!Spec
=============================================================================
