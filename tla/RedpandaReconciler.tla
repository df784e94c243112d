------------------------- MODULE RedpandaReconciler -------------------------
(***************************************************************************)
(* The Redpanda reconciler of                                              *)
(* src/go/k8s/internal/controller/redpanda/redpanda_controller.go, for one *)
(* Redpanda object (one work-queue key: controller-runtime never runs two  *)
(* reconciles of one key at once, so the reconciler is a single process).  *)
(*                                                                         *)
(* The store (the Kubernetes API) holds three objects: the Redpanda parent *)
(* `parent`, its HelmRepository `repo` and its HelmRelease `hr`.  A        *)
(* reconcile is a sequence of store calls; `pc` names the call the         *)
(* reconciler makes next and `rp` is its in-memory copy of the parent, so  *)
(* the user, the flux controllers and the garbage collector can act        *)
(* between any two calls.  Every store call may fail transiently, and the  *)
(* operator may restart between calls; both are bounded by MaxFaults.      *)
(* Writes that carry the resourceVersion of `rp` (Update, and the status   *)
(* merge patch computed against the latest object) are rejected when the  *)
(* parent was written by someone else since `rp` was read: `stale`.        *)
(***************************************************************************)
EXTENDS Naturals

CONSTANTS
    MaxGen,      \* bound on the parent's metadata.generation
    MaxUserOps,  \* bound on the user's writes to the parent
    MaxFaults    \* bound on transient store failures, flux failures, restarts

ASSUME Assumptions ==
    /\ MaxGen \in Nat \ {0}
    /\ MaxUserOps \in Nat
    /\ MaxFaults \in Nat

-----------------------------------------------------------------------------
(* Data.  Names are deterministic (GetHelmReleaseName), so a recorded name *)
(* is either the release's name or the empty string.  `values` abstracts   *)
(* the HelmRelease values payload and chart version: the generation of the *)
(* parent spec edit that last changed them.                                 *)

Kinds == {"HelmRepository", "HelmRelease"}
NoName == ""
HRName == "redpanda"
\* status.helmRepositoryReady / helmReleaseReady: nil, ptr.To(true), ptr.To(false)
TriState == {"unknown", "true", "false"}
\* the Ready condition set by RedpandaProgressing, RedpandaNotReady, RedpandaReady
Phases == {"none", "progressing", "notready", "ready"}
Notices == {"ready", "notready"}

Status == [obsGen : 0..MaxGen, release : {NoName, HRName},
           ready : [Kinds -> TriState], phase : Phases]
Parent == [exists : BOOLEAN, gen : 1..MaxGen, values : 1..MaxGen,
           deleting : BOOLEAN, managed : BOOLEAN, finalizer : BOOLEAN,
           status : Status]
Repository == [exists : BOOLEAN, fresh : BOOLEAN, ready : BOOLEAN]
Release == [exists : BOOLEAN, deleting : BOOLEAN, fresh : BOOLEAN,
            ready : BOOLEAN, values : 0..MaxGen]

\* the store calls a reconcile makes, in the order of Reconcile
Pcs == {"Idle", "DeleteHelmRelease", "RemoveFinalizer", "Unmanage",
        "AddFinalizer", "MarkProgressing", "ReconcileRepository",
        "ReconcileRelease", "PatchStatus"}

\* the history variable deleteCalls counts Delete calls up to this cap
DeleteCallCap == 2

NoRelease == [exists |-> FALSE, deleting |-> FALSE, fresh |-> FALSE,
              ready |-> FALSE, values |-> 0]

VARIABLES
    parent, repo, hr,        \* the store
    pc, rp, stale,           \* the reconciler
    userOps, faults,         \* bounds on the environment
    emitted, lastEvent,      \* readiness events: of the last step, last per kind
    deleteCalls              \* Delete calls issued on the HelmRelease

store == <<parent, repo, hr>>
vars == <<parent, repo, hr, pc, rp, stale, userOps, faults,
          emitted, lastEvent, deleteCalls>>

TypeOK ==
    /\ parent \in Parent
    /\ repo \in Repository
    /\ hr \in Release
    /\ pc \in Pcs
    /\ rp \in Parent
    /\ stale \in BOOLEAN
    /\ userOps \in 0..MaxUserOps
    /\ faults \in 0..MaxFaults
    /\ emitted \subseteq Kinds \X Notices
    /\ lastEvent \in [Kinds -> Notices \cup {"none"}]
    /\ deleteCalls \in 0..DeleteCallCap

Init ==
    /\ parent = [exists |-> TRUE, gen |-> 1, values |-> 1, deleting |-> FALSE,
                 managed |-> TRUE, finalizer |-> FALSE,
                 status |-> [obsGen |-> 0, release |-> NoName,
                             ready |-> [k \in Kinds |-> "unknown"],
                             phase |-> "none"]]
    /\ repo = [exists |-> FALSE, fresh |-> FALSE, ready |-> FALSE]
    /\ hr = NoRelease
    /\ pc = "Idle"
    /\ rp = parent
    /\ stale = FALSE
    /\ userOps = 0
    /\ faults = 0
    /\ emitted = {}
    /\ lastEvent = [k \in Kinds |-> "none"]
    /\ deleteCalls = 0

-----------------------------------------------------------------------------
(* Helpers translated from the controller.                                 *)

\* checkIfResourceIsReady.  obj.fresh is ~isGenerationCurrent (the name in
\* the code is inverted: it is TRUE when generation # observedGeneration).
\* isStatusReadyNILorTRUE is ptr.Equal(prev, ptr.To(true)), which is FALSE
\* for nil; likewise isStatusReadyNILorFALSE.
CheckIfResourceIsReady(prev, obj) ==
    IF ~obj.fresh \/ ~obj.ready
    THEN [ok |-> FALSE, next |-> "false",
          event |-> IF prev = "true" THEN "notready" ELSE "none"]
    ELSE IF prev = "false"
         THEN [ok |-> TRUE, next |-> "true", event |-> "ready"]
         ELSE [ok |-> TRUE, next |-> prev, event |-> "none"]

\* mutant: the drift check never reports a difference
RequiresUpdateNever(h, r) == FALSE

\* helmReleaseRequiresUpdate with helmChartRequiresUpdate: the values or the
\* chart version differ (the interval is a constant of the template)
RequiresUpdate(h, r) == h.values # r.values

\* mutant: the deletion path drops the finalizer without looking for the
\* HelmRelease
DispatchSkipsRelease(p) ==
    CASE p.deleting -> IF p.finalizer THEN "RemoveFinalizer" ELSE "Idle"
      [] ~p.deleting /\ ~p.managed -> IF p.finalizer THEN "Unmanage" ELSE "Idle"
      [] ~p.deleting /\ p.managed /\ ~p.finalizer -> "AddFinalizer"
      [] OTHER -> IF p.status.obsGen # p.gen THEN "MarkProgressing"
                  ELSE "ReconcileRepository"

\* the branch Reconcile takes once it holds the parent p (the if / else
\* chain of Reconcile, so the guards exclude the earlier branches)
Dispatch(p) ==
    CASE p.deleting ->
            IF p.status.release # NoName THEN "DeleteHelmRelease"
            ELSE IF p.finalizer THEN "RemoveFinalizer" ELSE "Idle"
      [] ~p.deleting /\ ~p.managed -> IF p.finalizer THEN "Unmanage" ELSE "Idle"
      [] ~p.deleting /\ p.managed /\ ~p.finalizer -> "AddFinalizer"
      [] OTHER -> IF p.status.obsGen # p.gen THEN "MarkProgressing"
                  ELSE "ReconcileRepository"

\* a store call fails: rejected (conflict, not found), or a transient fault
Fails(rejected) ==
    \/ rejected /\ UNCHANGED faults
    \/ faults < MaxFaults /\ faults' = faults + 1
Succeeds(rejected) == ~rejected /\ UNCHANGED faults

\* r.event for a readiness transition of kind k (e = "none": no event)
Notify(k, e) ==
    IF e = "none"
    THEN emitted' = {} /\ UNCHANGED lastEvent
    ELSE emitted' = {<<k, e>>} /\ lastEvent' = [lastEvent EXCEPT ![k] = e]
Silent == emitted' = {} /\ UNCHANGED lastEvent

-----------------------------------------------------------------------------
(* The reconciler: one action per store call of Reconcile.                  *)

\* r.Client.Get of the parent; NotFound ends the reconcile
Fetch ==
    /\ pc = "Idle"
    /\ IF parent.exists
       THEN /\ rp' = parent
            /\ stale' = FALSE
            /\ pc' = Dispatch(parent)
       ELSE UNCHANGED <<rp, stale, pc>>
    /\ Silent
    /\ UNCHANGED <<store, userOps, faults, deleteCalls>>

\* mutant: deleteHelmRelease keeps returning "wait" once the release is gone
DeleteHelmReleaseGoneWaits ==
    /\ pc = "DeleteHelmRelease"
    /\ ~hr.exists
    /\ Succeeds(FALSE)
    /\ pc' = "Idle"
    /\ Silent
    /\ UNCHANGED <<store, rp, stale, userOps, deleteCalls>>

\* deleteHelmRelease: Get finds no HelmRelease; the names are cleared and
\* reconcileDelete goes on to the finalizer
DeleteHelmReleaseGone ==
    /\ pc = "DeleteHelmRelease"
    /\ ~hr.exists
    /\ Succeeds(FALSE)
    /\ rp' = [rp EXCEPT !.status.release = NoName]
    /\ pc' = IF rp.finalizer THEN "RemoveFinalizer" ELSE "Idle"
    /\ Silent
    /\ UNCHANGED <<store, stale, userOps, deleteCalls>>

\* deleteHelmRelease: Get finds it, Delete with foreground propagation, and
\* "wait for helm release deletion" is returned; a failed Get or Delete also
\* ends the reconcile with an error
DeleteHelmReleaseIssue ==
    /\ pc = "DeleteHelmRelease"
    /\ hr.exists
    /\ pc' = "Idle"
    /\ \/ /\ Succeeds(FALSE)
          /\ hr' = [hr EXCEPT !.deleting = TRUE]
          /\ deleteCalls' = IF deleteCalls < DeleteCallCap
                            THEN deleteCalls + 1 ELSE DeleteCallCap
       \/ Fails(FALSE) /\ UNCHANGED <<hr, deleteCalls>>
    /\ Silent
    /\ UNCHANGED <<parent, repo, rp, stale, userOps>>

\* reconcileDelete: RemoveFinalizer and Update; a parent under deletion
\* without finalizers is removed by the store
RemoveFinalizer ==
    /\ pc = "RemoveFinalizer"
    /\ pc' = "Idle"
    /\ \/ /\ Succeeds(stale)
          /\ parent' = [parent EXCEPT !.finalizer = FALSE, !.exists = FALSE]
       \/ Fails(stale) /\ UNCHANGED parent
    /\ Silent
    /\ UNCHANGED <<repo, hr, rp, stale, userOps, deleteCalls>>

\* mutant: the finalizer is dropped with a patch that cannot conflict
UnmanageIgnoresConflict ==
    /\ pc = "Unmanage"
    /\ pc' = "Idle"
    /\ \/ Succeeds(FALSE) /\ parent' = [parent EXCEPT !.finalizer = FALSE]
       \/ Fails(FALSE) /\ UNCHANGED parent
    /\ Silent
    /\ UNCHANGED <<repo, hr, rp, stale, userOps, deleteCalls>>

\* Reconcile, not managed: RemoveFinalizer and Update
Unmanage ==
    /\ pc = "Unmanage"
    /\ pc' = "Idle"
    /\ \/ Succeeds(stale) /\ parent' = [parent EXCEPT !.finalizer = FALSE]
       \/ Fails(stale) /\ UNCHANGED parent
    /\ Silent
    /\ UNCHANGED <<repo, hr, rp, stale, userOps, deleteCalls>>

\* Reconcile: AddFinalizer and a merge patch (no resourceVersion in it, so
\* no conflict); the reply refreshes rp.  Migration, if enabled, runs next
\* and its error is only logged: it is the MigrationEngine module's.
AddFinalizer ==
    /\ pc = "AddFinalizer"
    /\ \/ /\ Succeeds(~parent.exists)
          /\ parent' = [parent EXCEPT !.finalizer = TRUE]
          /\ rp' = parent'
          /\ stale' = FALSE
          /\ pc' = IF parent.status.obsGen # parent.gen THEN "MarkProgressing"
                   ELSE "ReconcileRepository"
       \/ /\ Fails(~parent.exists)
          /\ pc' = "Idle"
          /\ UNCHANGED <<parent, rp, stale>>
    /\ Silent
    /\ UNCHANGED <<repo, hr, userOps, deleteCalls>>

\* mutant: observedGeneration is set one past the generation
MarkProgressingOffByOne ==
    /\ pc = "MarkProgressing"
    /\ LET r == [rp EXCEPT !.status.obsGen = rp.gen + 1,
                           !.status.phase = "progressing"]
       IN /\ rp' = r
          /\ \/ /\ Succeeds(stale)
                /\ parent' = [parent EXCEPT !.status = r.status]
                /\ pc' = "ReconcileRepository"
             \/ Fails(stale) /\ pc' = "PatchStatus" /\ UNCHANGED parent
    /\ Silent
    /\ UNCHANGED <<repo, hr, stale, userOps, deleteCalls>>

\* reconcile: observedGeneration # generation, RedpandaProgressing and
\* patchRedpandaStatus; on failure Reconcile still patches the status
MarkProgressing ==
    /\ pc = "MarkProgressing"
    /\ LET r == [rp EXCEPT !.status.obsGen = rp.gen,
                           !.status.phase = "progressing"]
       IN /\ rp' = r
          /\ \/ /\ Succeeds(stale)
                /\ parent' = [parent EXCEPT !.status = r.status]
                /\ pc' = "ReconcileRepository"
             \/ Fails(stale) /\ pc' = "PatchStatus" /\ UNCHANGED parent
    /\ Silent
    /\ UNCHANGED <<repo, hr, stale, userOps, deleteCalls>>

\* mutant: a failed Get or Create of the HelmRepository is not returned and
\* reconcile goes on to the HelmRelease
ReconcileRepositoryIgnoresError ==
    /\ pc = "ReconcileRepository"
    /\ \/ /\ Succeeds(FALSE)
          /\ LET obj == IF repo.exists THEN repo
                        ELSE [exists |-> TRUE, fresh |-> FALSE, ready |-> FALSE]
                 l == CheckIfResourceIsReady(rp.status.ready["HelmRepository"], obj)
             IN /\ repo' = obj
                /\ rp' = [rp EXCEPT !.status.ready["HelmRepository"] = l.next,
                                    !.status.phase = IF l.ok THEN @ ELSE "notready"]
                /\ pc' = IF l.ok THEN "ReconcileRelease" ELSE "PatchStatus"
                /\ Notify("HelmRepository", l.event)
       \/ /\ Fails(FALSE)
          /\ pc' = "ReconcileRelease"
          /\ UNCHANGED <<repo, rp>>
          /\ Silent
    /\ UNCHANGED <<parent, hr, stale, userOps, deleteCalls>>

\* reconcileHelmRepository (Get, Create on NotFound) and the readiness latch
\* on the HelmRepository; a created object has generation 1 and
\* observedGeneration 0, so it is not yet fresh
ReconcileRepository ==
    /\ pc = "ReconcileRepository"
    /\ \/ /\ Succeeds(FALSE)
          /\ LET obj == IF repo.exists THEN repo
                        ELSE [exists |-> TRUE, fresh |-> FALSE, ready |-> FALSE]
                 l == CheckIfResourceIsReady(rp.status.ready["HelmRepository"], obj)
             IN /\ repo' = obj
                /\ rp' = [rp EXCEPT !.status.ready["HelmRepository"] = l.next,
                                    !.status.phase = IF l.ok THEN @ ELSE "notready"]
                /\ pc' = IF l.ok THEN "ReconcileRelease" ELSE "PatchStatus"
                /\ Notify("HelmRepository", l.event)
       \/ /\ Fails(FALSE)
          /\ pc' = "PatchStatus"
          /\ UNCHANGED <<repo, rp>>
          /\ Silent
    /\ UNCHANGED <<parent, hr, stale, userOps, deleteCalls>>

\* mutant: on AlreadyExists the latch is handed the HelmRelease in the store
ObservedTrustsExisting(h, created, update) ==
    CASE created -> [fresh |-> FALSE, ready |-> FALSE]
      [] update -> [fresh |-> FALSE, ready |-> h.ready]
      [] OTHER -> [fresh |-> h.fresh, ready |-> h.ready]

\* the HelmRelease object reconcileHelmRelease hands to the latch: the one
\* it created (generation 1, observedGeneration 0), the template when Create
\* says AlreadyExists (generation 0, no conditions), the one it updated
\* (generation bumped), or the one Get returned
Observed(h, created, update) ==
    CASE created -> [fresh |-> FALSE, ready |-> FALSE]
      [] ~created /\ h.exists /\ rp.status.release = NoName ->
            [fresh |-> TRUE, ready |-> FALSE]
      [] update -> [fresh |-> FALSE, ready |-> h.ready]
      [] OTHER -> [fresh |-> h.fresh, ready |-> h.ready]

\* reconcileHelmRelease with createHelmRelease, then the readiness latch on
\* the HelmRelease and RedpandaNotReady or RedpandaReady
ReconcileRelease ==
    /\ pc = "ReconcileRelease"
    /\ pc' = "PatchStatus"
    /\ LET create == rp.status.release = NoName \/ ~hr.exists
           created == create /\ ~hr.exists
           update == ~create /\ RequiresUpdate(hr, rp)
       IN \/ /\ Succeeds(FALSE)
             /\ hr' = CASE created -> [NoRelease EXCEPT !.exists = TRUE,
                                                        !.values = rp.values]
                        [] update -> [hr EXCEPT !.values = rp.values,
                                                !.fresh = FALSE]
                        [] OTHER -> hr
             /\ LET l == CheckIfResourceIsReady(rp.status.ready["HelmRelease"],
                                                Observed(hr, created, update))
                IN /\ rp' = [rp EXCEPT
                               !.status.release = IF create \/ update
                                                  THEN HRName ELSE @,
                               !.status.ready["HelmRelease"] = l.next,
                               !.status.phase = IF l.ok THEN "ready"
                                                ELSE "notready"]
                   /\ Notify("HelmRelease", l.event)
          \/ /\ Fails(FALSE)
             /\ UNCHANGED hr
             \* Get fails (rp unchanged), or Get says NotFound, the name is
             \* cleared and Create fails
             /\ rp' \in IF create THEN {rp, [rp EXCEPT !.status.release = NoName]}
                       ELSE {rp}
             /\ Silent
    /\ UNCHANGED <<parent, repo, stale, userOps, deleteCalls>>

\* patchRedpandaStatus after reconcile: Get the latest, merge patch of the
\* status against it; the patch carries rp's resourceVersion when it differs
PatchStatus ==
    /\ pc = "PatchStatus"
    /\ pc' = "Idle"
    /\ \/ Succeeds(stale) /\ parent' = [parent EXCEPT !.status = rp.status]
       \/ Fails(stale) /\ UNCHANGED parent
    /\ Silent
    /\ UNCHANGED <<repo, hr, rp, stale, userOps, deleteCalls>>

\* the operator process restarts mid-reconcile: the in-memory state is lost
Restart ==
    /\ pc # "Idle"
    /\ faults < MaxFaults
    /\ faults' = faults + 1
    /\ pc' = "Idle"
    /\ Silent
    /\ UNCHANGED <<store, rp, stale, userOps, deleteCalls>>

Reconciler ==
    \/ Fetch \/ DeleteHelmReleaseGone \/ DeleteHelmReleaseIssue
    \/ RemoveFinalizer \/ Unmanage \/ AddFinalizer \/ MarkProgressing
    \/ ReconcileRepository \/ ReconcileRelease \/ PatchStatus \/ Restart


-----------------------------------------------------------------------------
(* The environment.  The user edits, deletes and (un)manages the parent;   *)
(* the flux source and helm controllers observe the HelmRepository and the *)
(* HelmRelease and finish a foreground deletion; the garbage collector     *)
(* removes the owned objects of a parent that is gone.                     *)

UserWrite(p) ==
    /\ parent.exists
    /\ userOps < MaxUserOps
    /\ userOps' = userOps + 1
    /\ parent' = p
    /\ stale' = TRUE
    /\ Silent
    /\ UNCHANGED <<repo, hr, pc, rp, faults, deleteCalls>>

\* a spec edit bumps the generation; it may or may not change the values
EditSpec ==
    /\ ~parent.deleting
    /\ parent.gen < MaxGen
    /\ \E v \in {parent.values, parent.gen + 1} :
          UserWrite([parent EXCEPT !.gen = @ + 1, !.values = v])

\* kubectl delete: a parent without finalizers is removed at once
RequestDelete ==
    /\ ~parent.deleting
    /\ UserWrite([parent EXCEPT !.deleting = TRUE, !.exists = parent.finalizer])

\* the cluster.redpanda.com/managed annotation set to "false" or back
SetManaged ==
    /\ ~parent.deleting
    /\ UserWrite([parent EXCEPT !.managed = ~@])

User == EditSpec \/ RequestDelete \/ SetManaged

EnvStep(r, h) ==
    /\ repo' = r
    /\ hr' = h
    /\ Silent
    /\ UNCHANGED <<parent, pc, rp, stale, userOps, deleteCalls>>

\* the source controller fetches the index: observed and Ready
FluxReconcileRepository ==
    /\ repo.exists /\ ~(repo.fresh /\ repo.ready)
    /\ EnvStep([repo EXCEPT !.fresh = TRUE, !.ready = TRUE], hr)
    /\ UNCHANGED faults

\* the helm controller installs or upgrades: observed and Ready
FluxReconcileRelease ==
    /\ hr.exists /\ ~hr.deleting /\ ~(hr.fresh /\ hr.ready)
    /\ EnvStep(repo, [hr EXCEPT !.fresh = TRUE, !.ready = TRUE])
    /\ UNCHANGED faults

\* a fetch or an install fails: observed and not Ready
FluxFails ==
    /\ faults < MaxFaults
    /\ faults' = faults + 1
    /\ \/ repo.exists /\ repo.ready
          /\ EnvStep([repo EXCEPT !.fresh = TRUE, !.ready = FALSE], hr)
       \/ hr.exists /\ ~hr.deleting /\ hr.ready
          /\ EnvStep(repo, [hr EXCEPT !.fresh = TRUE, !.ready = FALSE])

\* the foreground deletion of the HelmRelease completes
FinishReleaseDeletion ==
    /\ hr.deleting
    /\ EnvStep(repo, NoRelease)
    /\ UNCHANGED faults

\* owner references: the garbage collector deletes what a gone parent owned
GarbageCollect ==
    /\ ~parent.exists
    /\ repo.exists \/ hr.exists
    /\ EnvStep([exists |-> FALSE, fresh |-> FALSE, ready |-> FALSE], NoRelease)
    /\ UNCHANGED faults

Environment ==
    \/ FluxReconcileRepository \/ FluxReconcileRelease \/ FluxFails
    \/ FinishReleaseDeletion \/ GarbageCollect

Next == Reconciler \/ User \/ Environment

\* The reconciler is weakly fair: after an error, a RequeueAfter or a watch
\* event on the parent or its HelmRelease the work queue runs it again, and
\* the periodic resync runs it in any case.  The flux controllers and the
\* garbage collector are weakly fair for the same reason.  The user is not.
Fairness ==
    /\ WF_vars(Reconciler)
    /\ WF_vars(FluxReconcileRepository)
    /\ WF_vars(FluxReconcileRelease)
    /\ WF_vars(FinishReleaseDeletion)
    /\ WF_vars(GarbageCollect)

Spec == Init /\ [][Next]_vars /\ Fairness

-----------------------------------------------------------------------------
(* Properties.                                                             *)

\* Creation ordering (reconcile): while the parent exists, a HelmRelease
\* exists only if the HelmRepository it references does; reconcile creates
\* the HelmRepository and sees it Ready before it reaches the HelmRelease.
ReleaseRequiresRepository ==
    parent.exists /\ hr.exists => repo.exists

\* Deletion safety (reconcileDelete): the finalizer of a parent under
\* deletion is removed only when the parent's persisted status records no
\* HelmRelease or the recorded HelmRelease is gone from the store.
FinalizerRemovalSafe ==
    [][parent.deleting /\ parent.finalizer /\ ~parent'.finalizer
         => parent.status.release = NoName \/ ~hr.exists]_vars

\* A Ready status is truthful (reconcile, reconcileHelmRelease,
\* patchRedpandaStatus): whatever conflicts, failed calls, restarts and the
\* user's edits interleave, when the persisted status of a live parent says
\* Ready for its current generation, its HelmRelease exists and carries the
\* values of that generation.
StatusTruthful ==
    parent.exists /\ ~parent.deleting
    /\ parent.status.phase = "ready" /\ parent.status.obsGen = parent.gen
      => hr.exists /\ hr.values = parent.values

\* Deletion completes (reconcileDelete, deleteHelmRelease): a parent under
\* deletion is eventually removed from the store.
DeletionCompletes ==
    parent.exists /\ parent.deleting ~> ~parent.exists

\* The parent is in sync: its HelmRelease carries the current values, the
\* persisted status observed the current generation and says Ready.
InSync ==
    /\ hr.exists /\ hr.values = parent.values
    /\ parent.status.obsGen = parent.gen
    /\ parent.status.phase = "ready"

\* Convergence (reconcile, reconcileHelmRelease): once the user stops, a
\* managed parent that is not being deleted is eventually in sync for good.
ReleaseConverges ==
    <>[](parent.exists /\ ~parent.deleting /\ parent.managed => InSync)

(* Statements of the spec (spec.md) that the code does not keep; each is  *)
(* checked by a run that expects a violation.                              *)

\* Spec 4.3: a dependent whose recorded readiness is "not ready" was
\* announced by a "not ready" event (the first not-ready tick after Unknown
\* emits one), as checkIfResourceIsReady is specified.
NotReadyIsAnnounced ==
    \A k \in Kinds : parent.status.ready[k] = "false" => lastEvent[k] = "notready"

\* Spec 3: a readiness event fires only on a transition, so two successive
\* readiness events of one dependent are never the same event.
NoDuplicateReadinessEvent ==
    [][\A k \in Kinds, e \in Notices : <<k, e>> \in emitted' => lastEvent[k] # e]_vars

\* Spec 3: the finalizer of a parent under deletion is removed only after
\* its HelmRelease is confirmed absent.
FinalizerOutlivesRelease ==
    [][parent.deleting /\ parent.finalizer /\ ~parent'.finalizer => ~hr.exists]_vars

\* Spec 8: exactly one Delete call is issued per deletion sequence.
SingleDeleteCall == deleteCalls <= 1

\* The kuttl assertion of the decommission test (src/unnamed/part_000): a
\* parent whose Ready condition says reconciliation succeeded records both
\* its HelmRepository and its HelmRelease as ready.
ReadyRecordsDependents ==
    parent.status.phase = "ready" =>
        \A k \in Kinds : parent.status.ready[k] = "true"

=============================================================================
