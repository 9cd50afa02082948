# TLA+ verification of the replication-group controller

This directory models the controller in
`src/controllers/replication-controller/dellcsireplicationgroup_controller.go`
(603 lines). It holds TLA+ modules, TLC configurations that model-check
them, and TLAPS proofs.

## 1. The system

One instance of `Reconcile` runs on every cluster. Its job is to mirror each
DellCSIReplicationGroup (RG) of its cluster onto the cluster named in
`Spec.RemoteClusterID`, or onto its own cluster when that id is `self`.
The two controllers share no memory. They interact only through the RG
objects they read and write:

- the mirror a controller creates on the other cluster is reconciled, in
  turn, by that cluster's controller, which mirrors it back (it adopts the
  original);
- the deletion handshake is a `DeletionRequested` annotation that one
  controller writes on the other cluster's RG.

| Part (spec §2) | Code | Operations that change state |
|---|---|---|
| Mirror Synchronizer | `Reconcile`, lines 69-309 | remove finalizer (203), annotate remote RG for deletion (186), add finalizer (213), delete on request (219), create remote RG (288), record sync (305-307) |
| Retention Policy Evaluator | lines 152-158, 180 | none (pure) |
| Action Processor | `processLastActionResult`, 321-355 | stamp `ActionProcessedTime` (351-352) |
| Snapshot Materializer | `processSnapshotEvent`, 357-477; `getPVCInformation` 479-503 | create namespace, snapshot class, snapshot content, snapshot, PVC on the remote cluster |
| Object helpers | 505-593 | none besides `CreateNamespace` |
| Wiring | `SetupWithManager`, 595-603 | none; sets the scheduling |
| Remote client, local store, event recorder | not in the repository | external |

State that persists across passes: the RG objects of each cluster and
their annotations:

- `RemoteReplicationGroup`;
- `RGSyncComplete`;
- `RemoteRGRetentionPolicy`;
- `DeletionRequested`;
- `ActionProcessedTime`.

The persisted lifecycle markers are the finalizer and `DeletionTimestamp`.

The behaviours that make this hard to test:

- passes of two controllers interleaved;
- a crash, or a failed `Update`, between the remote create (288) and the
  local record (307);
- name collisions with RGs of other origins, with renames to
  `SourceClusterId-<id>-<name>`;
- user deletions at any point;
- liveness of sync and of deletion under requeue.

## 2. Modules

### `RGReconciler.tla`: the Mirror Synchronizer and the Retention Policy Evaluator

**State.** `store[c][n]` is the RG named `n` on cluster `c`. The store is
a function whose domain is the set of names present.

A name is the sequence of its `-`-separated tokens: `replicated-a` is
`<<"replicated", "a">>`. With this encoding, `HasPrefix`, `Contains`,
`TrimPrefix` and `Sprintf` are modelled by what they do.

An RG record keeps these fields:

- `annNil` — the annotations map is nil;
- `rrg` and `synced` — the sync annotations;
- `policy` — the retention annotation, or `Absent`;
- `delReq`, `finalizer` and `deleting`;
- `driver`, `remoteCluster`, `pg` and `rpg`;
- `creator` — a history field: the RG whose pass created this one, or
  `User`. No code reads it; only the properties use it.

**One pass of `Reconcile(c, n)` is one action.** Optimistic concurrency
makes a write on a stale read fail, so passes are atomic with respect to
each other (spec §5). A failed call whose pass has not yet written
anything is a stutter. The actions are:

| Action | Code |
|---|---|
| `Release` | deletion branch, 160-205: a handshake that is already resolved, or a remote that is absent or retained, lets the finalizer go; the API server then removes the RG |
| `RequestRemoteDeletion` | 168-192 |
| `AddFinalizer` | 207-214 |
| `DeleteRequested` | 215-220 |
| `Sync` | the decision `SyncPlan` (222-285), the create (`AfterCreate`, 287-298), and the record (`RecordedName`, 301-307), in one step |
| `SyncCreateOnly` | the same, but the record at line 307 fails, or the process stops, after the create has succeeded |

The environment has two actions:

- `OwnerInitialize` fills in the annotations, with each retention value;
- `UserDelete` deletes an RG. The API server sets `DeletionTimestamp` when
  a finalizer is present and removes the RG at once otherwise. It refuses
  a new finalizer on a deleting object.

**Details taken from the code.**

- `Get("")` of an RG with no annotation is an error that is not
  NotFound, because client-go refuses an empty name.
- The `replicated-replicated` guard of line 246 is kept.
- The retention comparison is `strings.ToLower(p) == "delete"`; it is
  modelled by the set of spellings that lower to `delete`.

### `MC_RGReconciler.tla`: instances for TLC

- **Clusters.** Two clusters, `C1` and `C2`.
- **Names.** Base names `a` and `b`.
- **Policy values.** `""` and `Delete`, plus `Absent`.
- **Drivers and PG ids.** One or two of each.
- **`NameSpace`.** The names derived from the initial names in at most two
  steps: prefixing, trimming, or qualifying with a cluster id. It stands
  for the API server's limit on name length, and it bounds the state
  space. Every name the controller builds in these scenarios lies inside
  it.

### `RGReconciler_proofs.tla`: TLAPS proofs (section 5)

### `RGReconciler_mirrors.tla`: TLAPS proofs of the mirror invariants (section 5)

### `ActionProcessor.tla`: the Action Processor and the Snapshot Materializer

This module covers `processLastActionResult` (321-355),
`processSnapshotEvent` (357-477), `getPVCInformation` (479-503) and the
object helpers (505-593). It models one RG that is already synced: the
code reaches line 311 only then.

**State.**

| Variable | Stands for |
|---|---|
| `lastAction` | `Status.LastAction`: an id, its time in seconds, whether it is `CREATE_SNAPSHOT`, its error, the `Action` annotation's payload (a namespace, missing, or malformed) and the volumes of `ActionAttributes` |
| `stamp` | the `ActionProcessedTime` annotation, or `Absent` |
| `world` | the remote cluster's namespaces, snapshot classes, snapshot contents, snapshots and PVCs, as sets of records |
| `pass` | the locals of the pass in flight: its phase, the action it read, `namespace`, the pairs still to do, the current volume and PVC, and the contents it made |
| `now` | the clock, in seconds |
| `history`, `done` | history variables: the reported actions, and the ids of actions whose pass has ended |
| `interrupts` | restarts and failed stamp Updates so far, bounded by `MaxInterrupts` |

**Actions.** A pass is split into one step per remote call, so that the
other actors can interleave with it:

| Action | Code |
|---|---|
| `ProcessLastActionResult` | the returns of 324-342 (no action, an action error, no stamp, already processed), the dispatch at 344, and the `Action` annotation and its unmarshal (360-371, `FirstPhase`) |
| `EnsureNamespace` | `GetNamespace`, then `CreateNamespace` (373-381) |
| `EnsureSnapshotClass` | the user's class must exist; a missing default class is created (386-417) |
| `BeginPair` | one pair of `ActionAttributes`, in any order (Go map order); the PVC lookup; and the redirect to `cloned-<namespace>` with its unconditional `CreateNamespace` (419-438) |
| `CreateSnapshotContent` | 440-447; the content is named `volume-<v>-<Unix seconds>` (`VolSnapContent`) |
| `CreateSnapshotObject` | 449-454 |
| `CreatePVC` | the storage-class check and the claim create (456-473) |
| `LoopDone` | the loop's end (476) |
| `MarkProcessed` | the stamp and the `Update` whose error is ignored (350-354). It conflicts when the status was rewritten since the read, and it may fail through another writer. |

The environment has three actions:

- `Report` is the driver side writing a new `LastAction`;
- `Tick` advances the clock;
- `Crash` restarts the controller mid-pass.

**Remote calls.** Every call may fail transiently when `RemoteFaults`
holds (`Call`). An error of `processSnapshotEvent` goes to the stamp
(`AfterError`), as `returnErr` does.

### `ActionLedger.tla`: what the Action Processor promises

This is an abstract specification (spec §4.3 and §8):

- actions are reported one after another;
- each action without an error is handled at most once;
- handling it materializes at most one snapshot content for each of its
  volume/snapshot-handle pairs.

`ActionProcessor` refines it:

```
Ledger == INSTANCE ActionLedger WITH handled <- done, materialized <- Materialized
```

`Materialized` counts the contents of each pair, leaving out those made by
the pass in flight. A pass is therefore seen by the ledger as one step, at
its stamp or its restart. The property is `LedgerRefinement ==
Ledger!LedgerSpec`.

### `MC_ActionProcessor.tla`: instances for TLC

- **Volumes.** Two volumes, `v1` and `v2`. Their source PVCs lie in
  namespaces `n1` and `n2`, so the snapshot namespace of an action either
  holds a volume's PVC or not.
- **Actions and time.** At most two reported actions, and a clock of at
  most 3 seconds. Two actions can therefore share a second or not.

### `ActionProcessor_proofs.tla`: TLAPS proofs (section 5)

### `ActionProcessor_refinement.tla`: TLAPS proof that `ActionProcessor` implements `ActionLedger` (section 5)

## 3. Runs

All runs use two clusters. Deadlock is not checked: when every RG is
synced or gone, the controllers rightly have nothing to do.

| Run | Expect | Checks | Instance |
|---|---|---|---|
| `rg_safety` | pass | `TypeOK`, `MirrorAnnotationTracksMirror`, `MirrorUnique`, `SyncedMirrorMatches`, `SyncedNamed`, `ReleaseWaitsForPartner` | one user RG on each cluster, mirroring onto the other; two PG ids; 1,002,001 states, about 30 s |
| `rg_liveness` | pass | `SyncCompletes`, `SyncedDeletionCompletes` | one user RG, under `FairSpec` |
| `deletion_unsynced` | violation | `DeletionCompletes` | one user RG |
| `rename_crash` | violation | `SyncCompletes` | an `a` on C1 and possibly a foreign `a` on C2 |
| `orphan_mirror` | violation | `MirrorUnique` | the same, with two drivers and two PG ids |
| `annotation_rename` | violation | `SyncedMirrorMatches` | the same |
| `resurrection` | violation | `MirrorNeverCreates` | the `rg_safety` instance |

What the safety properties say:

- **`MirrorAnnotationTracksMirror`.** A synced RG's annotation names every
  RG it created. The handshake and re-verification depend on this.
- **`SyncedNamed`.** A synced RG's annotation is never empty.
- **`SyncedMirrorMatches`.** The RG named by a synced annotation, when it
  exists, is a true mirror: right origin, right driver, swapped PG ids.
- **`MirrorUnique`.** No RG has two live mirrors.
- **`MirrorNeverCreates`** (checked only by the violation run
  `resurrection`). Every RG the controller created, while its creator is
  still there, was created by the pass of a user's RG.
- **`ReleaseWaitsForPartner`.** This is an action property. A
  delete-policy RG loses its finalizer only when each partner is
  deleting, or has been asked to delete itself.

**Fairness.** `SetupWithManager` requeues every failed pass with back-off,
and the informers resync periodically. A pass that would succeed is
therefore not postponed forever: weak fairness of `ReconcileOk(c, n)`.

`SyncCreateOnly` and the user actions get no fairness:

- a crash is never required to happen;
- users are never required to act.

**Bounds.** Enough to exercise the hard cases:

- Both controllers run, including the self path, the collisions, and the
  handshake between the two clusters.
- Every pass can be cut short after its create.
- Users initialise and delete each RG at any point.

The two-step `NameSpace` contains every rename of these scenarios.

**Mutants.** Each property of the passing runs is broken by a mutant of the
code it is about (see `PROJECT.json`):

- a mirror copying the effective policy;
- the recorded name taken as the local name, or as the stale annotation;
- never adopting an existing remote RG;
- protection-group ids not swapped;
- the finalizer released regardless of policy;
- the finalizer set on the original object instead of the copy;
- a dropped delete.

### Action Processor runs

The instances are those of `MC_ActionProcessor`. Deadlock is not
checked: once the actions are handled and the clock is at its bound,
nothing is left to do.

| Run | Expect | Checks | Instance |
|---|---|---|---|
| `ap_safety` | pass | `TypeOK`, `NoRestoreOverLiveClaim`, `LedgerRefinement` | two volumes, a default class that may be missing, PVC creation on, every remote call may fail, no restarts; 2,229,428 states, about 45 s |
| `ap_liveness` | pass | `ActionEventuallyStamped`, `NoRedispatch` | one volume, a user class, a replicating storage class, one restart or failed Update, under `FairSpec` |
| `lost_stamp` | violation | `ContentOncePerPair` | one volume, one restart or failed Update |
| `clone_namespace` | violation | `SnapshotActionMaterialized` | two volumes, no transient faults |
| `same_second` | violation | `StampedActionDispatched` | one volume |

What the properties say:

- **`NoRestoreOverLiveClaim`.** A PVC restored from a snapshot never
  lands in the namespace of the live source PVC. This holds across the
  map order of the pairs, and after an earlier pair has already rewritten
  `namespace` to `cloned-…`. It is the purpose of the redirect at 430-433.
- **`LedgerRefinement`.** Each action is dispatched at most once, and each
  pair gets at most one content per dispatch. This is the purpose of the
  guard at 339 and the stamp at 351-352. It holds when nothing interrupts
  the stamp; `lost_stamp` shows what happens when something does.
- **`ContentOncePerPair`** (checked by `lost_stamp` only). No pair of an
  action ever has two snapshot contents on the remote cluster. This is
  the harm a second dispatch does; `LedgerRefinement` implies it.
- **`ActionEventuallyStamped`.** An action that stays the last one is
  eventually stamped, whatever its remote calls return: errors never
  block the stamp.
- **`NoRedispatch`** (an action property). No action is dispatched a
  second time while no stamp `Update` has failed and the controller has
  not restarted. This holds even when a new action is reported while a
  pass is in flight and the stamp then conflicts. With `LedgerRefinement`
  and `lost_stamp`, it shows that interruptions are the only way to
  dispatch an action twice.
- **`SnapshotActionMaterialized`.** When no call fails transiently, every
  pair of a dispatched snapshot action gets its snapshot.
- **`StampedActionDispatched`.** A stamp equal to the last action's time
  means that action was dispatched.

**Fairness.** `FairSpec` adds weak fairness of `ControllerStep`. Every
write to the RG, the stamp's included, queues a pass, and a pass runs to
its end unless the process restarts. `Crash`, `Report` and `Tick` get no
fairness.

**Mutants.**

- the comparison at 339 dropped;
- the redirect at 430 dropped, or applied to every found PVC;
- an error of `processSnapshotEvent` ending the pass without the stamp.

## 4. Findings

Each violation run shows the code contradicting a statement of the
spec, or a case the spec leaves open (a spec gap). Details are in `PROJECT.json`.

1. **Deletion before sync never completes.** Line 170 calls
   `GetReplicationGroup("")`; that error is not NotFound, so every pass
   returns at line 176. This contradicts spec §4.1 step 4.
2. **A crash after a renamed create never syncs.** The annotation is still
   empty, so every later pass renames again, and the blind `Create` fails
   with AlreadyExists. This contradicts spec §5: "every remote creation
   step is paired with a not-found check".
3. **Two live mirrors.** The sequence is: a crash after a renamed create,
   then the foreign RG is deleted, then a plain mirror is created. This
   contradicts spec §3: exactly one mirror.
4. **The recorded annotation points at the wrong RG after a rename.** The
   code (lines 302-303) recomputes the name from the local name whenever
   that name contains `replicated`.
5. **A mirror re-creates its removed origin** (`resurrection`, spec
   gap). The user deletes an RG under the retain policy before its mirror
   has run its first pass. The mirror is unsynced, so the not-found branch
   (232) creates the origin again. Spec §4.1 prescribes this create. It
   refuses recreation only after sync.
6. **An action is dispatched twice** (`lost_stamp`). The stamp's `Update`
   (352) conflicts when the driver side rewrote the status since the
   read, and its error is ignored. A restart before 352 loses the stamp
   as well. In the trace the first pass creates the content of the one
   pair (443) and the controller restarts before 352. The next pass
   dispatches the action again and, one second later, creates a second
   content `volume-<vol>-<seconds>` for the same pair (551): the new name
   does not collide. Spec §8 says at most once. (The model counts a pass
   as a dispatch as soon as `processSnapshotEvent` is called, even when
   it is cut off before any remote call; `ContentOncePerPair` is about
   the remote objects, so such a pass alone does not violate it.)
7. **The cloned namespace is created blindly** (`clone_namespace`). A
   second action into a namespace that holds a source PVC fails with
   AlreadyExists at 433, before any content is made, and is stamped.
   Spec §4.4 says "if absent". (A content name has second precision
   (551) and could collide within one second too, but this trace stops
   at the namespace create and no run reaches that collision.)
8. **Actions in the same second** (`same_second`, spec gap). The stamp
   has the second precision of `metav1.Time`, so a new action reported
   in the same second as the processed one is never dispatched (339).

Reading the code also shows three behaviours that a unit test reaches in
one call, so they have no run:

- a malformed `Action` annotation is stamped as processed (370, 351),
  although spec §7 says it is not;
- with no `ActionProcessedTime` annotation no action is ever dispatched
  (333-336), although the spec's scenario C expects one;
- a failed `GetStorageClass` skips the replication check and creates the
  PVC (458).

## 5. Proofs

`RGReconciler_proofs.tla` proves the following, for all values of the
constants, from `ConstantsAssumption`:

- **`TypeCorrect`**: `Spec => []TypeOK`.
- **`SyncedNamedInvariant`**: `Spec => []SyncedNamed`.

`SyncedNamed` is not inductive on its own: a create under the name `<<>>`
followed by a sync of that object would break it. The inductive invariant
is:

`IInv == TypeOK /\ NamesNonEmpty /\ SyncedNamed`

`NamesNonEmpty` says no store holds the name `""`. `IInv` was also
checked with TLC on the `rg_safety` instance.

The argument:

- **Init.** The initial names are non-empty, as assumed in
  `ConstantsAssumption`, and the initial RGs are unsynced.
- **Every step.** A step either keeps an object's sync fields, or creates
  an unsynced RG under a non-empty name, or records a non-empty name
  (`ObjStepOK`).
- **Lemmas.** The steps rest on lemmas about names (`QualifiedNameOK`,
  `TrimOK`, `RemoteRGNameOK`, `RecordedNameOK`), about the store
  (`PutObjOK`, `DropObjOK`, `UpdateObjOK`, `StoresExcept`), and about the
  decision of a pass (`SyncPlanOK`, `AfterCreateOK`). `AfterCreateOK`
  needs `CanCreate`: a create never overwrites the RG being reconciled.

`ActionProcessor_proofs.tla` proves two theorems from `APAssumption`.

**`DispatchOnce`**: `Spec => NoRedispatch`. The inductive invariant is
`OnceInv`:

- reported actions have distinct ids, none larger than the number
  reported, so a newly reported action was never handled;
- the last action and the action in flight are reported ones;
- while nothing has interrupted a stamp, the action in flight is not yet
  handled, and a handled last action carries the stamp of its time.

The argument for each kind of step:

- **`Report`** rests on `FS_AddElement`: the count goes up by one.
- **The pass's own steps** keep the action they work on (`PassStepOnce`).
- **`MarkProcessed`.** When it conflicts, the ids of the two actions
  differ, so the new last action is still not handled.
- **`Crash`**, or a failed `Update`, makes the invariant's last part
  vacuous.

`LedgerCardinality` equates the ledger's `Cardinality`, seen through the
`INSTANCE`, with the one of `FiniteSets`. `OnceInv` was also checked as
an invariant on the `ap_safety` and `ap_liveness` instances.

**`RestoreOutsideLiveClaim`**:
`Spec => []NoRestoreOverLiveClaim`. It holds for every number of
volumes, namespaces, actions and faults.

The property is not inductive. A pass in the `pvc` phase is about to
create a claim in `pass.ns`, and nothing in the property says that
`pass.ns` is not the source PVC's namespace. The inductive invariant
`ClaimInv` carries the decision of `BeginPair` forward to `CreatePVC`:

- from the `content` phase to the `pvc` phase, the current volume has a
  PVC;
- that PVC is the one `getPVCInformation` returns;
- `pass.ns` differs from its namespace (`PairOK`).

`ClonedDiffers` supplies the key fact: `cloned-<ns>` differs from every
plain namespace. One step per action shows that `ClaimInv` is preserved.
`ClaimInv` was also checked as an invariant on the `ap_safety` instance.

**`TypeCorrect`** (in `ActionProcessor_proofs`): `Spec => []TypeOK`.
`TypeOK` is not inductive on its own. A pass in progress must hold a
namespace from `AllNs` (a plain or a `cloned-` one), a snapshot content
from `Vols \X 0..MaxTime`, and a last action that was reported. The
inductive invariant is `TypeInv == TypeOK /\ ClaimInv /\ PassShape`.
One lemma per action shows it is preserved (`NextTypeInv`).

`ActionProcessor_refinement.tla` proves **`ImplementsLedger`**:
`MaxInterrupts = 0 => (Spec => LedgerRefinement)`. Under that hypothesis
`ActionProcessor` implements the abstract `ActionLedger`, and
`ap_safety` runs with `MaxInterrupts = 0`. The inductive invariant is
`RInv == TypeInv /\ OnceInv /\ MadeInv`. `MadeInv` says:

- the contents a pass has made are distinct;
- their handles are `<<action id, volume>>` for volumes among the
  action's attributes;
- their volumes are disjoint from those still to do, and from the one
  being made.

The argument:

- **Init.** The ledger's initial state is met.
- **Pass steps.** Every step of a pass other than the stamp leaves the
  ledger's variables alone (`LocalStepLedger`).
- **The stamp.** `MarkProcessed` is the ledger's `LedgerHandle`
  (`StampStep`). The set it hands over is the handles of the contents the
  pass made, and `CountAtStamp` shows the ledger's count of them matches.

With interrupts the refinement is false: the `lost_stamp` run violates
`ContentOncePerPair`, which the ledger implies. So the hypothesis is
needed.

`RGReconciler_mirrors.tla` proves three theorems, each of the form
`CleanInstance => (Spec => []P)`:

- **`MirrorUniqueInvariant`** (`P` = `MirrorUnique`);
- **`MirrorAnnotationTracksMirrorInvariant`** (`P` =
  `MirrorAnnotationTracksMirror`);
- **`SyncedMirrorMatchesInvariant`** (`P` = `SyncedMirrorMatches`).

`CleanInstance` says the initial RGs have distinct names, and no
initial name contains the token `replicated`. The `rg_safety` instance
meets it. Without it the three properties are false: the
`orphan_mirror` and `annotation_rename` runs show how. The proofs also
use `User \notin Clusters \X Names` from `ConstantsAssumption`: the
creator `User` is not an RG's place.

The key notion is a *partner*. An RG's partner is the RG with the same
name on its remote cluster. For a self-replicating RG, it is the RG on
its own cluster with the `replicated-` prefix added or removed. The
inductive invariant is `FamInv == IInv /\ ShapeOK(store)`. `ShapeOK`
says:

- every name is an initial name, possibly prefixed; only a
  self-replicating RG has a prefixed name; no RG names its own cluster as
  remote;
- the `RemoteReplicationGroup` annotation is empty or the partner's
  name, and a synced RG's annotation is the partner's name;
- a mirror's creator is the place of its partner;
- two RGs with the same base name are partners of each other, with the
  same driver and swapped protection-group ids.

The argument for each step:

- **Lookup and create.** Lines 80-105 look up only the partner, or, for
  a prefixed self-replicating RG, the RG itself (`RemoteNameIsPartner`).
  An RG they find is the RG's own mirror (`FoundIsOurs`). So a pass
  never takes the renamed `SourceClusterId-...` branch. It creates only
  at the partner's place when that place is free, and records the
  partner's name (`PlanFacts`).
- **The created mirror.** It is the partner of its creator and of no
  other RG (`CreateShape`).
- **Other steps.** The flag steps and removals keep every key field
  (`SubStoreShape`, `UpdateShape`, `DropShape`).
- **The three properties** then follow from `ShapeOK` alone
  (`UniqueFromShape`, `TracksFromShape`, `MatchesFromShape`).

`FamInv` was also checked as an invariant by TLC, on the `rg_safety`
instance and on an instance with three clusters and two drivers.

What only TLC checks:

- **Liveness.** It depends on fairness and `ENABLED`, which are beyond
  TLAPS.
- **`ReleaseWaitsForPartner`.** An action property about the deletion
  handshake, not proved yet.
- **`MirrorNeverCreates`.** It is false: the `resurrection` run shows a
  violation, so it has no proof.

## 6. Not modelled, and what remains

- **The gate between the components.** `ActionProcessor` lets a pass
  start whenever an action is pending. The code starts one only on a
  synced RG (line 311). Composing the two modules would add the
  synchronizer's state to every Action Processor state, for no property
  that depends on it: the processor reads nothing the synchronizer
  writes.
- **An abstract mirror specification.** An RG has at most one mirror,
  and the handshake deletes it. It holds only in the scenarios without
  findings 2-5, so `RGReconciler` cannot refine it as it stands.
- **More proofs.** `ReleaseWaitsForPartner` could be proved from
  `FamInv` together with an invariant on the deletion flags. The mirror
  invariants are proved only under `CleanInstance`, because they are
  false without it. `LedgerRefinement` is proved only without stamp
  interrupts, because it is false with them.
- **Left out on purpose.**
  - events, logging, and labels built from `ContextPrefix`: data with no
    effect on control;
  - the rate limiter's timing, which appears only as fairness;
  - the driver label's spelling of the default class name;
  - `makeSnapshotClassRef` and `makeNamespaceReference`, which only
    carry a name;
  - a PVC's spec fields, which are copied and never inspected.
