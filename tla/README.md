# TLA+ models of the headscale node registry (`hscontrol/db/node.go`)

The registry is the store-side core of the control plane. It registers devices
("nodes") after authentication, gives each one an address and a DNS-safe given
name, updates keys, tags, names and expiry, and ages nodes out through two
periodic sweeps. Every exported function runs inside one database write
transaction (`hsdb.Write`). The exception is `hsdb.GenerateGivenName`, which
runs in a read transaction of its own. The pending-registration cache is a TTL
key-value store, separate from the transactions.

## Inventory

| Part (spec section) | Code in `src/hscontrol/db/node.go` | Module | Status |
|---|---|---|---|
| Identity & registration (4.1) | `RegisterNodeFromAuthCallback` 303-360, `RegisterNode` 362-420, `SetTags` 199-231, `RenameNode` 234-257, `NodeSetNodeKey` 422-427, `NodeSetMachineKey` 429-447, `DeleteNode` 272-295 | `Registry` | modelled |
| Registration cache (5) | reads and eviction in 317-350; filling and TTL are outside `src/` | `Registry` | partly (filling from spec) |
| IP allocation (4.2) | the call at 396-404; `getAvailableIPs` is outside `src/` | `Registry` | partly (lowest free address, from spec) |
| Given-name resolution (4.3) | `generateGivenName` 625-649, `GenerateGivenName` 651-693, `listNodesByGivenName` 86-97 | `Registry` | modelled |
| Lifecycle sweeps (4.5) | `NodeSetExpiry` 259-269, `UpdateLastSeen` 297-301, `ExpireEphemeralNodes` 695-748, `ExpireExpiredNodes` 750-807 | `Lifecycle` | modelled |
| Routes & primary election (4.4) | `GetAdvertisedRoutes` 462-485, `enableRoutes` 540-623, the route deletion of `DeleteNode` 280-295 | `Routes`, `PrimaryElection` | modelled (advertisement and `isUniquePrefix` from spec) |
| Read-only queries | `ListPeers`, `ListNodes`, `getNode`, `GetNodeBy*` | — | not modelled (no state change) |
| `NodeSave` | 452-454 | — | not modelled (callers outside `src/`) |
| Transactions, notification | outside `src/` | — | not modelled |

## Modules

- **`Registry.tla`** holds the node table, the cache and the ID counter.
  - `nodes[i]` is the row with ID `i`, or `NoNode`.
  - `cache[m]` is the pending `types.Node` copy for machine key `m`.
  - `nextId` is gorm's auto-increment counter.
  - `outcome` is the error of the last callback.
  - Each exported write function is one action, with its early returns as disjuncts.
  - `Save` is gorm's `Save`: an ID of 0 inserts at `nextId`; any other ID writes that row, re-inserting it if it was deleted.
  - `RegisterNode` keeps the addresses of a copy that has them and otherwise takes the lowest free address.
  - `RegisterNodeFromAuthCallback(m, u, exp, commits)` covers:
    - the five outcomes of the code;
    - a write transaction whose commit fails after `cache.Delete` has run (line 350, inside the closure).
  - `GenerateGivenName` is evaluated on the state in which the pending entry is created. This is the separate read transaction: the name is saved by a later step.
  - The data is abstracted:
    - a hostname is a model value;
    - a suffixed name is a pair with a suffix from `Suffixes`;
    - one pool of `NumAddrs` addresses stands for each node's address set.
- **`NodeIdentity.tla`** is the abstract promise about node IDs that `Registry` refines.
  - `next` is the next ID, `bound[i]` the identity (owner and address) ID `i` is bound to or `None`, and `live` the IDs with a row.
  - `Issue(v)` binds the next ID to `v` and makes it live.
  - `Update` covers every other step. Any ID may lose its row or be forgotten (bound to `None`), but no ID is rebound or revived, and an ID can only be live while it is bound.
  - `Registry` maps to it through `Identity == INSTANCE NodeIdentity WITH ...`:
    - `next` is `nextId` and `live` is `Existing`;
    - `bound` is `boundMap`: the owner and address of the row, or of any cached copy when the row is gone.
  - The property `IdentitySpec` is `Identity!Spec`.
- **`Lifecycle.tla`** extends Registry.
  - It adds the clock `now` (bounded by `MaxTime`), the scheduler's cursor `lastCheck`, and `update`, the `StateUpdate` the last step returned.
  - It adds two history variables used only by properties:
    - `written`, the expiry the expiry sweep last wrote;
    - `awaiting`, the nodes whose future expiry no pass has reported yet.
  - Every Registry step runs with the clock unchanged.
  - `ExpireEphemeralNodes(done, aborted)` processes the users in `done` and stops early when `aborted`. Any subset of its `DeleteNode` calls may fail.
  - `ExpireExpiredNodes(listFails)` has two outcomes:
    - it returns the epoch cursor when `ListNodes` fails;
    - otherwise it scans at `now + 1`, writes that time as the new expiry, and returns `started = now`. Any subset of the updates may fail.
- **`Routes.tla`** holds the route table.
  - `routes[n][p]` is the row of node `n` for prefix `p`: its `Advertised`, `Enabled` and `IsPrimary` flags, or `NoRoute`.
  - `deleted` is the set of deleted nodes.
  - `pending[n]` is an `enableRoutes` transaction that has read and not yet committed.
  - `EnableRoutes(n, batch)` is the whole of `enableRoutes` as one serializable transaction:
    - a batch with a prefix that is not in `GetAdvertisedRoutes` is rejected before any write;
    - each row is saved as `First` read it, with `Enabled` set and, unless it is an exit route, `IsPrimary = isUniquePrefix`;
    - a failing `Save` or read-back rolls back, which is a stutter.
  - Under read committed, the PostgreSQL default, the transaction is split in two:
    - `BeginEnableRoutes` does all the reads and decisions;
    - `CommitEnableRoutes` saves the rows as read. If the node was deleted in between, the insert that gorm's `Save` falls back to is refused by the foreign key, and the transaction rolls back.
  - `Advertise(n, p, adv)` and `isUniquePrefix` are outside `src/` and are modelled from spec sections 3 and 4.4:
    - a device's advertisement creates a row or sets `Advertised`;
    - a withdrawal only clears `Advertised`, and keeps `Enabled` and `IsPrimary`. Spec section 3 says only administrators and the election toggle those two flags;
    - a prefix is unique when no other node's row is advertised or enabled.

    The `routes.go` of upstream headscale differs on both points:
    - it counts only rows that are both advertised and enabled;
    - its `SaveNodeRoutes` also clears `Enabled` on a withdrawal.

    The `routes_pass` result for `AtMostOnePrimary` depends on the spec's readings. A withdrawn primary stays enabled, so it still counts as an offer, and no other node can elect itself while it keeps its row.
  - `DeleteNode` removes the node's rows; deleting it again is a no-op.
  - Prefixes are model values, so parsing never fails.
- **`PrimaryElection.tla`** is the abstract election.
  - `primary[p]` is a node or `NoPrimary`.
  - A step may elect a primary for a prefix that has none, or clear one. It may do so for several prefixes at once, because one batch enables several routes.
  - A primary is never handed straight from one node to another.
  - `Routes` instantiates it as `Election`, with `primary <- primaryMap`. `primaryMap` maps each non-exit prefix to its primary.
  - `ElectionSpec` is `Election!Spec`. `RoutesProofs` proves `SerialSpec => ElectionSpec` for every instance.
- **`RegistryProofs.tla`, `LifecycleProofs.tla`, `RoutesProofs.tla`**: TLAPS proofs.
- **`MC_Registry.tla`, `MC_Lifecycle.tla`, `MC_Routes.tla`**: the instances for TLC.

## Runs

| Run | Checks | Result |
|---|---|---|
| `registry_pass` (`Registry.cfg`) | `TypeOK`, `CacheCoherent`, `IPStable`, `OwnerStable`, and the refinement `IdentitySpec` | passes, about 237k states |
| `registry_ip_unique` | `IPUnique` | violated. Trace: a node is registered and its copy cached; the node is deleted; a new node gets address 1; the callback re-saves the old node with address 1 |
| `registry_name_unique` | `GivenNameUnique` | violated: a name picked while free is saved after a direct registration took it |
| `registry_cache_on_failure` | `CacheKeptOnFailure` | violated: the commit fails after the eviction |
| `lifecycle_pass` (`Lifecycle.cfg`) | `LifecycleTypeOK`, `NoMissedExpiry` | passes, about 434k states, under 2 minutes |
| `lifecycle_reported_once` | `ExpiredReportedOnce` | violated: expiry 1 is reported at 2 and again at 3 |
| `lifecycle_removed_absent` | `RemovedAreAbsent` | violated: a failed delete is announced |
| `lifecycle_deleted_announced` | `DeletedAreAnnounced` | violated: an aborted pass deletes but announces nothing |
| `routes_pass` (`Routes.cfg`) | `RoutesTypeOK`, `AtMostOnePrimary` (serializable) | passes, about 6.6k states |
| `routes_read_committed` | `AtMostOnePrimary` under read committed | violated. Trace: A advertises and begins an enable that finds the prefix unique; A withdraws; B advertises and begins, and finds it unique too; both commit with `IsPrimary` |
| `routes_lost_withdrawal` | `EnableKeepsWithdrawal` under read committed | violated: the commit saves the row as read before the withdrawal, so the route is advertised again |
| `routes_primary_demotion` | `NoPrimaryDemotion` | violated. Trace: A is the sole offerer and becomes primary; B advertises; re-enabling A's route recomputes `IsPrimary` as false |

The violations are recorded as findings in `PROJECT.json`. Each one is a place
where the code does not do what spec sections 3, 4.1, 4.4, 4.5, 5 or 8 say.

**Registry bounds.**
- Two node IDs, two addresses, two machine keys, two users, one hostname and one suffix. This gives:
  - a second node that needs a suffix;
  - a full pool;
  - a deleted ID whose cached copy outlives it;
  - a re-authentication by the other user.
- Time is collapsed to one instant (`MaxTime = 0`).
- `Tags` is empty, because tags are opaque to every property.

**Lifecycle bounds.**
- The same sets, with `Tags = {t1}`, `MaxTime = 2` (3 for `lifecycle_reported_once`, which needs two passes after the first expiry) and an inactivity threshold of 0.
- A state constraint stops exploring two kinds of state, which are still generated and checked:
  - states with a pending cache entry or a tag set; the Registry runs explore those;
  - states where a non-ephemeral node has a lastSeen, which no sweep reads.

**Routes bounds.**
- Three nodes, one subnet prefix `p1` and one exit prefix `x`.
- Three nodes give an elected primary, a second offerer, and a third node that can race or be deleted.
- With two prefixes, one batch touches both a subnet and an exit route.
- A second subnet prefix adds nothing, because every definition treats prefixes independently. It multiplies the serial state space by more than a hundred.

**Symmetry.** Users and machine keys are symmetric in the Registry and Lifecycle
instances, and nodes in the Routes instance: no definition distinguishes one
from another. `boundMap` picks a cached copy with `CHOOSE`, but all copies of
an ID carry the same owner and address (`CacheCoherent`), so its value does
not depend on which machine key is picked.

**Mutants.** Each property of a passing run has a mutant that TLC catches. Each
one is a plausible bug in the code:
- re-allocating on re-auth;
- dropping the different-user check;
- saving without an address;
- handing out the lowest ID without a row, as a rowid table without AUTOINCREMENT does. This breaks `IdentitySpec`: a forgotten ID comes back bound to a new node;
- caching a copy of a node without its addresses;
- returning the cursor read after the scan;
- marking an exit route primary;
- counting only advertised rows in `isUniquePrefix`. A primary that withdrew is still primary when another node is elected.

## Fairness

No liveness property is checked. The sweeps are driven by an external ticker,
and the code gives no guarantee that one runs, nor that its `ListNodes` ever
succeeds. Route enables happen only on an administrator's request, so nothing
in the route table must eventually happen. A liveness property ("an
expired node is eventually reported") would need weak fairness on
`ExpireExpiredNodes`. That assumption is about the scheduler, not this code.

## Proofs (TLAPS)

`RegistryProofs.tla`:

- **`TypeCorrect`:** `Spec => []TypeOK`. Its consequence is that every stored node has an address.
- **`AddressesStable`:** `Spec => IPStable`.
- **`OwnersStable`:** `Spec => OwnerStable`.
- **`CacheCoherence`:** `Spec => []CacheCoherent`.

These hold for every value of the constants, under the assumptions
`MaxNodesAssumption`, `NumAddrsAssumption`, `MaxTimeAssumption` and
`NullAssumption`.

The inductive invariant is `IInv == TypeOK /\ IdsIssued /\ CacheCoherent`.
`IdsIssued` (every row's ID is below `nextId`) is a fact about the store's
counter, which `node.go` never sets; it is a conjunct of the proof, not a
property of any run. Two
facts make the stability properties need it:
- `Save` of a cached copy writes the copy's address and owner over the row;
- a fresh insert takes `nextId`.

So the proof needs to know three things:
- every cached copy with an ID agrees with its row, and with the other copies of that ID;
- it carries an address and an owner;
- every existing ID is below `nextId`, so a fresh insert never overwrites a row.

`IInvNext` shows that each action preserves `IInv`, one step per action. Each
step splits on the rows and entries the action can touch. The same step yields
`IdentityKept`: rows that exist before and after keep their address and owner.
The temporal theorems follow by PTL.

`LifecycleProofs.tla` (extends Lifecycle and RegistryProofs, reusing `TypeNext` for the registry steps):
- **`LifecycleTypeCorrect`:** `LSpec => []LifecycleTypeOK`.
- **`ExpiryNeverMissed`:** `LSpec => []NoMissedExpiry`. These rest on `ThresholdAssumption` as well.

The inductive invariant `LInv` strengthens `LifecycleTypeOK /\ NoMissedExpiry` with two facts:
- `lastCheck <= now`. This is needed because the cursor a pass returns is the clock before the pass, and a new expiry is compared with the clock, not the cursor.
- Every awaiting node's expiry is a time, never unset. This is needed because the comparison with the cursor is meaningless for `NULL`.

The core steps of the argument:
- A pass that leaves an awaiting node unreported has found it not expired at `now + 1`, so its expiry is above `now`, the new cursor.
- The epoch reset lowers the cursor to 0.

`RoutesProofs.tla` (under `SerialSpec`, for any sets of nodes and prefixes, from `RoutesAssumption`):
- **`RoutesTypeCorrect`:** `SerialSpec => []RoutesTypeOK`. No exit route is ever primary.
- **`SinglePrimary`:** `SerialSpec => []AtMostOnePrimary`.

The inductive invariant `RInv` strengthens these with two facts:
- `PrimaryEnabled`: a primary row is enabled. This is needed because an enabled row is an offer that `isUniquePrefix` sees, so no later election can happen while the primary keeps its row.
- `NoneOpen`: no read-committed transaction is open.

Two more things carry the proof:
- `UniquePrimary`, the pairwise form of the cardinality bound. `AtMostOneElement` turns it into `Cardinality(...) <= 1`, with no finiteness assumption.
- `NoNewPrimary`: a step that creates no primary and keeps every primary enabled preserves `RInv`. It covers advertisements, deletions and stutters.

- **`ElectionRefined`:** `SerialSpec => ElectionSpec`. The route table implements the abstract election. The inductive step also yields `NoSteal`: the primaries of a prefix only shrink, or the prefix had none. With `UniquePrimary` before and after the step, each step maps to an election, a resignation, or no change of each prefix's abstract primary. `MapOfPrimaries` shows what `CHOOSE` returns for a set of at most one node.

`IdentityProofs.tla` (extends RegistryProofs) proves **`IdentityRefined`:** `Spec => IdentitySpec`.
- It holds for every value of the constants.
- It reuses the invariant `IInv` and `IInvNext`. The refinement needs nothing beyond `IInv`:
  - `CacheCoherent` makes every holder of an ID (its row and all its copies) carry one identity;
  - `IdsIssued` with `CacheCoherent` makes the ID a fresh insert takes unheld.

The lemmas:
- `HolderIdentity` says what `BoundTo` returns, for any table and cache. It is applied to both states of a step as `BoundNow` and `BoundNext`.
- `RetainStep` shows that a step is an `Update` when every new holder either was a holder or copies one. It covers:
  - the cache steps;
  - re-saving a copy;
  - failed and uncommitted callbacks;
  - row updates;
  - deletions.
- `IssueStep` shows that an insert under `nextId` is an `Issue`.
- `IdentityNext` maps each Registry action to one of these, or to a stutter.

`LifecycleProofs.tla` now extends IdentityProofs and proves **`LifecycleIdentityRefined`:** `LSpec => IdentitySpec`.
- The sweeps and the clock-driven updates keep the registry an implementation of `NodeIdentity`.
- The invariant is `LIInv == LInv /\ IInv`. Registry steps reuse `IInvNext` and `IdentityNext`.
- `RowsOnlyShrink` covers `NodeSetExpiry`, `UpdateLastSeen` and both sweeps. A step that only deletes rows or rewrites columns other than the owner and the address preserves `IInv` and is an `Update`.
- TLC confirmed the property once on the `lifecycle_pass` instance: 434k states in 4 min 20 s. That is too close to the 5-minute limit to keep as a standing run. That instance also keeps the cache empty.

So re-authorisation through a stale copy can bring a deleted node back, but only under its own ID, owner and address. The `IPUnique` finding lies outside `NodeIdentity`: it concerns the addresses of two different IDs.

**Only model-checked.**
- The violated properties, which are counterexamples.
- The read-committed model, whose properties fail.
- Liveness and `ENABLED`, which TLAPS cannot handle.

## Not modelled

- `GetEnabledRoutes` and `IsRoutesEnabled` only read.
- Whether the real `isUniquePrefix` counts advertised-or-enabled rows (spec) or rows that are both (upstream), and whether a withdrawal clears `Enabled` (upstream) or not (spec). Under upstream's readings, serializable transactions can also elect two primaries. The `MutIsUniquePrefix` mutant shows this for an advertised-only count.

## Plan for the remaining work

1. Compose `Routes` with `Registry` through `DeleteNode` and the ephemeral sweep, so that the sweep's deletions also remove routes.
