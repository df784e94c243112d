# Formal models of the Redpanda reconciler

TLA+ models of `src/go/k8s/internal/controller/redpanda/redpanda_controller.go`
(the `RedpandaReconciler` of the redpanda operator, v2 mode). The models are
model-checked with TLC and partly proved with TLAPS.

## The system

The reconciler drives one `Redpanda` custom resource (the *parent*). It has
three parts:

- **Deployment.** Through a flux `HelmRepository` and a flux `HelmRelease`
  it deploys the Redpanda Helm chart.
- **Readiness.** It records whether each of the two dependents is ready in
  the parent's status (`helmRepositoryReady`, `helmReleaseReady`, the
  `Ready` condition, `observedGeneration`). It emits an event when either
  readiness changes.
- **Deletion.** A finalizer keeps the parent until its HelmRelease has been
  deleted.

When `spec.migration.enabled` is set, every reconcile first runs
`tryMigration`. It hands a cluster deployed by the legacy (vectorized)
operator over to the Helm release. It disables the legacy `Cluster` and
`Console` controllers, relabels the pods and objects of the chart so that
Helm may adopt them, and deletes the legacy StatefulSet (orphaning its pods)
and the console Deployment.

The reconciler never runs alone:
- the user edits, deletes and (un)manages the parent;
- the flux source and helm controllers act on the HelmRepository and the
  HelmRelease;
- the garbage collector removes what a deleted parent owned;
- during a migration, the legacy controllers keep reconciling until they
  are disabled.

`cmd/main.go` only wires the manager. It sets `RequeueHelmDeps` to 10s and
registers the watches on the owned objects.

## Modules

| module | models | state |
|---|---|---|
| `RedpandaReconciler` | `Reconcile`, `reconcile`, `reconcileHelmRepository`, `reconcileHelmRelease`, `createHelmRelease`, `checkIfResourceIsReady`, `reconcileDelete`, `deleteHelmRelease`, `patchRedpandaStatus`, `helmReleaseRequiresUpdate`, `isRedpandaManaged` | the store (`parent`, `repo`, `hr`), the reconciler (`pc`, the in-memory copy `rp`, the conflict flag `stale`), bounds, event history |
| `MigrationEngine` | `tryMigration`, `hasLabelsAndAnnotations`, `setHelmLabelsAndAnnotations` | the markings of each chart object (`absent` / `legacy` / `adopted`), the managed flags of the Cluster and the Console, the Console finalizers, pods (component label, operator finalizer), the pass position and the pods still to update |
| `RedpandaLifecycle` | the abstract specification: what the reconciler promises about the store (spec.md 3 and 8) | eight Booleans: the parent's existence, deletion request, managed annotation, finalizer, whether its status records a HelmRelease, and whether the HelmRepository, the HelmRelease and its foreground deletion exist |
| `RedpandaRefinement` | the refinement mapping from `RedpandaReconciler` to `RedpandaLifecycle` (`Lifecycle == INSTANCE RedpandaLifecycle WITH ...`) and the property `ImplementsLifecycle` | |
| `RedpandaReconcilerProofs` | TLAPS proofs about `RedpandaReconciler` | |
| `RedpandaRefinementProofs` | TLAPS proof that `RedpandaReconciler` refines the safety part of `RedpandaLifecycle` | |
| `RedpandaStatusProofs` | TLAPS proof that a Ready status of `RedpandaReconciler` is truthful | |
| `MigrationEngineProofs` | TLAPS proof that `MigrationEngine` stays well typed | |
| `MCRedpandaReconciler`, `MCMigrationEngine` | the bounded instances for TLC | |

### RedpandaReconciler

controller-runtime never runs two reconciles of one key at once. The
reconciler is therefore one process, and its `pc` sits between two store
calls. There is one action per store call of the code:
- `Fetch` is the Get at line 130, and `Dispatch` is the if/else chain of
  `Reconcile`.
- `DeleteHelmReleaseGone` and `DeleteHelmReleaseIssue` are
  `deleteHelmRelease`.
- `RemoveFinalizer` and `Unmanage` are the two finalizer Updates.
- `AddFinalizer` is the merge patch.
- `MarkProgressing` is the observedGeneration patch.
- `ReconcileRepository` and `ReconcileRelease` each include the readiness
  latch that follows them in `reconcile`.
- `PatchStatus` is the final status patch.
- `Restart` is an operator restart.

Every action takes all of its store writes and its early returns from the
code. In particular:
- A failed call ends the reconcile where the code returns, and still goes
  through the status patch where the code does so.
- An Update, and a status patch computed against a newer object, conflict
  when the user wrote the parent after it was read (`stale`). The
  finalizer merge patch carries no resourceVersion, so it does not
  conflict.
- `CheckIfResourceIsReady` keeps the semantics of `ptr.Equal`: nil equals
  neither `true` nor `false`. It also keeps the inverted
  `isGenerationCurrent`.
- `Observed` is the object `reconcileHelmRelease` hands to the latch. When
  Create says AlreadyExists, that object is the template, which is never
  ready.
- The HelmRelease values are abstracted to the parent generation that last
  changed them. `RequiresUpdate` compares only these, as
  `helmReleaseRequiresUpdate` compares only values, chart and interval.

The environment actions are modelled from the spec, since that code is not
in this repository:
- the user: `EditSpec`, `RequestDelete`, `SetManaged`;
- flux: `FluxReconcileRepository`, `FluxReconcileRelease`, `FluxFails`,
  `FinishReleaseDeletion`;
- the garbage collector: `GarbageCollect`.

### RedpandaLifecycle and the refinement

`RedpandaLifecycle` makes each change the reconciler may make to the store
one atomic step, with its precondition:
- `CreateRepository` and `CreateRelease` apply only to a live parent with
  the finalizer, and the HelmRelease needs the HelmRepository;
- `DeleteRelease` applies only after deletion was requested;
- `RemoveFinalizer` applies only to a parent under deletion whose status
  records no HelmRelease, or whose HelmRelease is gone;
- `ReleaseFinalizer` applies only to a live parent that is unmanaged;
- the user's `RequestDeletion` and `ToggleManaged`, flux's `ReleaseGone`
  and the garbage collector's `Collect` are the other steps.

Weak fairness on `Deletion` says that deletion is not left half done.

`RedpandaRefinement` maps the store of `RedpandaReconciler` onto these
Booleans. For example, `recorded` is `parent.status.release # NoName` and
`releaseDeleting` is `hr.deleting`. It hides `pc`, `rp`, `stale`,
readiness, generations and values. Under the mapping:
- `Fetch`, `DeleteHelmReleaseGone`, `Restart`, `EditSpec` and the flux
  status updates are stutters;
- `MarkProgressing` and `PatchStatus` are `RecordStatus`;
- `Unmanage` is `ReleaseFinalizer`;
- `ReconcileRepository` and `ReconcileRelease` are the `Create...` steps
  when they create, and stutters otherwise.

### MigrationEngine

A pass walks the fixed sequence `Order` of `tryMigration`. Every call may
fail independently (`Fault`). The code joins the error and goes on, so a
failed call does not stop the pass. The operator may restart mid-pass.

The steps are `MigrateCluster`, `MigrateConsole`, `ListPods`, `UpdatePod`
(one loop iteration), `EndPodLoop`, `Relabel` (the two Services, the
ServiceAccount and the PDB), `RelabelConsole` (the console's ServiceAccount,
Service and Ingress), `MigrateSts` and `MigrateDeploy`. `Relabel` and
`RelabelConsole` share `RelabelCall`: a Get, then
`setHelmLabelsAndAnnotations` and an Update when the markings are not Helm's. A pod Update conflicts
when the legacy controller wrote the pod after the List (`touched`).

`MigrateDeploy` keeps the code's test at line 460: it reads the local `sts`
(`stsAdopted`), not the Deployment. A failed StatefulSet Get leaves `sts`
zero-valued.

The other actors are modelled from the spec:
- `LegacyClusterReconcile` recreates its StatefulSet and puts the operator
  finalizer back on pods while the Cluster is managed.
- `LegacyConsoleReconcile` puts the Console finalizers back and recreates
  the Deployment.
- `HelmInstall` installs once no object has legacy markings.

The legacy controllers are not part of this repository. The model lets them
recreate only objects that are missing. They are never allowed to rewrite an
object Helm owns. No property is stated that holds only because of this
assumption. In particular, "Helm's StatefulSet stays Helm's" would restate
that assumption together with the guard of the orphan Delete, so it is not
claimed.

## Runs

| run | cfg | expect | checks |
|---|---|---|---|
| reconciler | `MCRedpandaReconciler.cfg` | pass | `TypeOK`, `ReleaseRequiresRepository`, `StatusTruthful`, `FinalizerRemovalSafe` (action), `DeletionCompletes`, `ReleaseConverges` (liveness) |
| not_ready_announced | `MC_NotReadyIsAnnounced.cfg` | violation | spec 4.3: the first not-ready observation after Unknown is announced |
| duplicate_readiness_event | `MC_NoDuplicateReadinessEvent.cfg` | violation | spec 3: an event fires only on a transition |
| finalizer_outlives_release | `MC_FinalizerOutlivesRelease.cfg` | violation | spec 3/8: the finalizer goes only after the HelmRelease is gone |
| single_delete_call | `MC_SingleDeleteCall.cfg` | violation | spec 8: one Delete per deletion |
| ready_records_dependents | `MC_ReadyRecordsDependents.cfg` | violation | kuttl asserts: a Ready parent has both readiness fields true |
| lifecycle_refinement | `MC_ImplementsLifecycle.cfg` | pass | `ImplementsLifecycle`: the reconciler implements `Lifecycle!Spec`, fairness included |
| migration | `MCMigrationEngine.cfg` | pass | `MigrationConverges` (liveness) |
| adopted_deployment_kept | `MC_AdoptedDeploymentKept.cfg` | violation | spec 4.4 step 8: only a legacy console Deployment is deleted |
| legacy_deployment_removed | `MC_LegacyDeploymentRemoved.cfg` | violation | a legacy console Deployment is eventually removed |

`StatusTruthful` relates the in-memory state of a reconcile to the store.
When the persisted status of a live parent says Ready for its current
generation, its HelmRelease exists and carries that generation's values.
Readiness is computed on the in-memory copy and written by a patch that may
conflict, so the claim spans conflicts, restarts and user edits.

The migration model's type invariant is proved (`MigrationTypeCorrect`) but
is not a run property. `tryMigration` is straight-line code, and no
plausible slip in it could produce an ill-typed state.

What the violations show, in the code's terms:
- **not_ready_announced.** The latch from nil records `false` silently
  (lines 554, 592).
- **duplicate_readiness_event.** Events are emitted in
  `checkIfResourceIsReady` before the status is patched (line 170). A
  conflict or a restart re-emits the same event.
- **finalizer_outlives_release.** `createHelmRelease` records the name only
  in memory. If the status patch then conflicts and the parent is deleted,
  `deleteHelmRelease` sees no name (line 727) and the finalizer is removed
  while the release exists. Garbage collection removes it later, through
  its owner reference.
- **single_delete_call.** Delete is re-issued on every reconcile until the
  foreground deletion ends (line 745).
- **ready_records_dependents.** A HelmRepository seen Ready when the parent
  records nil for it (line 555) keeps nil, while the parent becomes Ready.
  This is what the kuttl asserts `src/unnamed/part_000` and
  `tests/e2e-v2/connectors/00-assert-create-redpanda.yaml` rule out.
- **adopted_deployment_kept.** After the install, a pass whose StatefulSet
  Get fails deletes the Deployment Helm owns (line 460).
- **legacy_deployment_removed.** The legacy Console controller can recreate
  its Deployment before it is disabled. Once the StatefulSet is Helm's, that
  Deployment is never deleted, because the test reads the StatefulSet.

Each property of a passing run has a mutant: a plausible bug in the mapped
code that TLC then catches.

| mutant | property it breaks |
|---|---|
| `MarkProgressingOffByOne` | `TypeOK` |
| `ReconcileRepositoryIgnoresError` | `ReleaseRequiresRepository` |
| `ObservedTrustsExisting` (on AlreadyExists the latch reads the HelmRelease in the store, which flux may still report Ready for old values) | `StatusTruthful` |
| `DispatchSkipsRelease` | `FinalizerRemovalSafe` |
| `DeleteHelmReleaseGoneWaits` | `DeletionCompletes` |
| `RequiresUpdateNever` | `ReleaseConverges` |
| `UnmanageIgnoresConflict` (the finalizer dropped by a patch that cannot conflict) | `ImplementsLifecycle`: a deletion requested after `Fetch` leaves a parent under deletion without its finalizer, with its HelmRelease in place |
| `ListPodsIgnoresFinalizer` | `MigrationConverges` |

## Bounds

- **reconciler:** `MaxGen = 3`, `MaxUserOps = 3`, `MaxFaults = 2`.
  - Three user writes allow an edit, a delete request and a
    managed-annotation change in one behaviour, or two edits and a
    deletion.
  - Two faults allow a conflict and a restart in one reconcile sequence.
    This is what every counterexample above needs.
  - The run takes about a minute and reaches 295,389 distinct states.
  - The refinement run uses the same instance and the same 295,389 states.
- **migration:** two pods (one may conflict while the other is updated), the
  console enabled (the default, with all its steps), and `MaxFaults = 3`.
  - Init starts from a legacy deployment in which every relabelled object
    exists. The StatefulSet and the console Deployment may be missing.
  - The run reaches 83,238 distinct states.
- Both pass runs fire every action and every disjunct.
- Deadlock checking stays on. The faults are bounded, but the reconciler
  and the pass can always take a step, so no state is a real deadlock.

## Fairness

- **Reconciler.** The reconciler is weakly fair. controller-runtime runs it
  again after an error, after `RequeueAfter` (`RequeueHelmDeps`) and on
  every watch event of the parent or its owned HelmRelease, and the
  periodic resync runs it in any case.
- **Migration passes.** They are weakly fair for the same reason, since
  every reconcile with migration enabled makes one pass.
- **Flux and the garbage collector.** Both are weakly fair, because their
  controllers requeue in the same way.
- **No fairness.** The user, the fault and restart actions, and the legacy
  controllers get none.

## Proofs (TLAPS)

`RedpandaReconcilerProofs`:
- **`TypeCorrect`:** `Spec => []TypeOK`. It is proved from `TypeInit` and
  `TypeStep`, with one case per action and one step per changed variable.
- **`ReleaseRequiresRepositoryHolds`:** `Spec => []ReleaseRequiresRepository`.
  The property is not inductive on its own. The strengthening `IInv`
  requires two more facts:
  - while reconcile runs (`MarkProgressing`, `ReconcileRepository`,
    `ReconcileRelease`), the parent exists and carries the finalizer, so
    neither the user nor the garbage collector can remove it;
  - the reconciler reaches `ReconcileRelease` only after the HelmRepository
    exists.
  `DispatchGuard` shows that `Dispatch` sends a parent into reconcile only
  when it has the finalizer.
- **`FinalizerRemovalSafeHolds`:** `Spec => FinalizerRemovalSafe`, an
  action property. It rests on the invariant `FInv`:
  - at `RemoveFinalizer` with no conflict pending, the status records no
    release or the release is gone;
  - at `Unmanage` with no conflict pending, the parent is not being
    deleted.
  `FinalizerStep` shows that every step of a state satisfying `FInv` is a
  step of the action formula.

`RedpandaRefinementProofs`:
- **`RefinesLifecycle`:** `Spec => Lifecycle!SafetySpec`. It is proved in
  two parts:
  - `InitRefines`: the initial state maps to `Lifecycle!Init`;
  - `StepRefines`: every step maps to a step of `Lifecycle!Next` or to a
    stutter.
  The step lemma holds only in reachable states. It rests on
  `RInv == IInv /\ FInv /\ NInv`, where `NInv` adds three facts:
  - the deletion branch (`DeleteHelmRelease`, `RemoveFinalizer`) is taken
    only for a parent under deletion, and deletion is never undone
    (`DeletingStays`);
  - an unconflicted `Unmanage` holds a parent that is still unmanaged;
  - an unconflicted reconcile past `Fetch` holds a parent that still
    exists, so the status patches are `RecordStatus` steps of a live
    parent.
  TLC checked `RInv` as an invariant of the reconciler run before it was
  proved. The fairness conjunct of `Lifecycle!Spec` is checked only by TLC
  (run lifecycle_refinement).

`RedpandaStatusProofs`:
- **`StatusTruthfulHolds`:** `Spec => []StatusTruthful`. A Ready status is
  written by `ReconcileRelease` on the copy `rp` and persisted later by
  `PatchStatus`, so the proof needs facts about the copy as well as the
  store. Its invariant is `TInv == RInv /\ TConj`, where `TConj` adds:
  - `HrDeleting`: the HelmRelease is under deletion only when the parent is;
  - `ObsBehind`: the observed generation never exceeds the generation, in
    the store and (`CopyObsBehind`) in the copy during the write steps;
  - `CopySync`: an unconflicted copy has the store's generation and values;
  - `CopyTruthful`: the copy of a live parent satisfies the claim itself;
  - `CopyBehind`: a copy whose values differ from the store's belongs to a
    parent whose observed generation lags, because `EditSpec` bumps the
    generation.

  The key step is `ReconcileRelease`: the latch reports Ready only when
  `Observed` takes its last arm. That arm excludes creating and updating
  the HelmRelease, so the HelmRelease is the existing one with the copy's
  values. A stale patch is refused by `PatchStatus`; `CopyBehind` covers a
  copy that was overtaken by an edit. TLC checked `TInv` on every state of
  the reconciler run before it was proved.

`MigrationEngineProofs`:
- **`MigrationTypeCorrect`:** `Spec => []TypeOK`, proved from `TypeInit`
  and `TypeStep`. The pass position is bounded by `OrderLen`, which gives the
  length of `Order` for either console setting. `ObjWrite` shows that
  writing one marking keeps `obj` typed. A console name written without the
  console leaves `obj` as it is.

All the proofs hold for every value of the constants allowed by
`Assumptions` and `MigrationAssumptions`. TLC evaluates both assumptions in
the passing runs.

## Only model-checked

- **Liveness under fairness** (`DeletionCompletes`, `ReleaseConverges`,
  `MigrationConverges`, the fairness part of `ImplementsLifecycle`) and anything that needs ENABLED is outside the
  prover's reach. These properties are checked by TLC on the bounded
  instances.
- The violation runs are TLC counterexamples.

## Not modelled

- **The chart version test.** `RequiresUpdate` folds the chart version
  into the values. It leaves out two things:
  - the `Version != ""` guard of `helmChartRequiresUpdate`;
  - the no-op Update issued on every reconcile when no chart version is set
    and flux has defaulted it. That Update changes no generation, so its
    only effect is one more call that may fail.
- **Template rendering.** `createHelmReleaseFromTemplate` is abstracted to
  the generation whose values the HelmRelease carries.
- **Left out entirely:**
  - events' text and the metrics and logging;
  - the manager bootstrap in `cmd/main.go`;
  - webhooks;
  - the internals of the flux controllers (only their observable effect on
    `fresh` and `ready` is modelled).
- **The informer cache.** It is modelled as the store itself, so a stale
  cache read (a hazard of the real system) is covered only through the
  conflict flag.
- **Several parents.** Different parents share nothing in this controller.
