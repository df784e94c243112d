--------------------- MODULE RedpandaReconcilerProofs ---------------------
(***************************************************************************)
(* Proofs about RedpandaReconciler for every value of the constants.       *)
(***************************************************************************)
EXTENDS RedpandaReconciler, TLAPS

\* the steps of reconcile that run while the parent keeps its finalizer
ReconcileSteps == {"MarkProgressing", "ReconcileRepository", "ReconcileRelease"}

\* Inductive strengthening of ReleaseRequiresRepository: reconcile runs only
\* on a parent that exists and carries the finalizer (so neither the user
\* nor the garbage collector can remove it), and reaches the HelmRelease
\* only after the HelmRepository exists.
IInv ==
    /\ TypeOK
    /\ ReleaseRequiresRepository
    /\ pc \in ReconcileSteps => parent.exists /\ parent.finalizer
    /\ pc = "ReconcileRelease" => repo.exists

-----------------------------------------------------------------------------
(* Type correctness.                                                       *)

\* the fields of the typed parent records the actions rebuild
LEMMA ParentFields ==
    ASSUME TypeOK
    PROVE  /\ rp.status \in Status /\ parent.status \in Status
           /\ rp.gen \in 1..MaxGen /\ rp.values \in 1..MaxGen
           /\ parent.gen \in 1..MaxGen /\ parent.values \in 1..MaxGen
           /\ rp.status.ready \in [Kinds -> TriState]
BY DEF TypeOK, Parent, Status

\* the latch returns a tri-state and an event or "none"
LEMMA LatchType ==
    ASSUME NEW prev \in TriState, NEW obj, obj.fresh \in BOOLEAN, obj.ready \in BOOLEAN
    PROVE  /\ CheckIfResourceIsReady(prev, obj).ok \in BOOLEAN
           /\ CheckIfResourceIsReady(prev, obj).next \in TriState
           /\ CheckIfResourceIsReady(prev, obj).event \in Notices \cup {"none"}
BY DEF CheckIfResourceIsReady, TriState, Notices

\* Notify and Silent keep the event variables typed
LEMMA EventsType ==
    ASSUME TypeOK, NEW k \in Kinds, NEW e \in Notices \cup {"none"},
           Notify(k, e) \/ Silent
    PROVE  /\ emitted' \subseteq Kinds \X Notices
           /\ lastEvent' \in [Kinds -> Notices \cup {"none"}]
BY DEF Notify, Silent, TypeOK

\* the bound on faults holds after Fails or Succeeds
LEMMA FaultsType ==
    ASSUME TypeOK, NEW b, Fails(b) \/ Succeeds(b)
    PROVE  faults' \in 0..MaxFaults
BY Assumptions DEF Fails, Succeeds, TypeOK

\* the initial state is typed
LEMMA TypeInit == Init => TypeOK
<1> SUFFICES ASSUME Init PROVE TypeOK
  OBVIOUS
<1>1. parent.status \in Status
  BY Assumptions DEF Init, Status, Phases, Kinds, TriState
<1>2. parent \in Parent /\ rp \in Parent
  BY <1>1, Assumptions DEF Init, Parent
<1>3. hr \in Release /\ repo \in Repository /\ pc \in Pcs
  BY Assumptions DEF Init, Release, NoRelease, Repository, Pcs
<1>4. deleteCalls \in 0..DeleteCallCap /\ userOps \in 0..MaxUserOps
      /\ faults \in 0..MaxFaults
  BY Assumptions DEF Init, DeleteCallCap
<1>5. emitted \subseteq Kinds \X Notices
      /\ lastEvent \in [Kinds -> Notices \cup {"none"}]
  BY DEF Init, Notices
<1>6. stale \in BOOLEAN
  BY DEF Init
<1>7. QED
  BY <1>2, <1>3, <1>4, <1>5, <1>6 DEF TypeOK

\* every step of the reconciler, the user and the environment keeps the type
LEMMA TypeStep == TypeOK /\ [Next]_vars => TypeOK'
<1> SUFFICES ASSUME TypeOK, [Next]_vars PROVE TypeOK'
  OBVIOUS
<1>0. /\ rp.status \in Status /\ parent.status \in Status
      /\ rp.gen \in 0..MaxGen /\ rp.values \in 0..MaxGen
      /\ rp.status.ready["HelmRepository"] \in TriState
      /\ rp.status.ready["HelmRelease"] \in TriState
  BY ParentFields, Assumptions DEF Kinds
<1>1. CASE Fetch
  <2>1. UNCHANGED <<parent, repo, hr, userOps, faults, deleteCalls, lastEvent>>
        /\ emitted' = {}
    BY <1>1 DEF Fetch, Silent, store
  <2>2. rp' \in Parent /\ stale' \in BOOLEAN /\ pc' \in Pcs
    BY <1>1 DEF Fetch, Dispatch, TypeOK, Pcs
  <2>3. QED
    BY <2>1, <2>2 DEF TypeOK
<1>2. CASE DeleteHelmReleaseGone
  <2>1. UNCHANGED <<parent, repo, hr, stale, userOps, faults, deleteCalls, lastEvent>>
        /\ emitted' = {} /\ pc' \in Pcs
    BY <1>2 DEF DeleteHelmReleaseGone, Succeeds, Silent, store, Pcs
  <2>2. rp' \in Parent
    BY <1>2 DEF DeleteHelmReleaseGone, TypeOK, Parent, Status
  <2>3. QED
    BY <2>1, <2>2 DEF TypeOK
<1>3. CASE DeleteHelmReleaseIssue
  <2>1. UNCHANGED <<parent, repo, rp, stale, userOps, lastEvent>>
        /\ emitted' = {} /\ pc' = "Idle"
    BY <1>3 DEF DeleteHelmReleaseIssue, Silent
  <2>2. hr' \in Release
    BY <1>3 DEF DeleteHelmReleaseIssue, TypeOK, Release
  <2>5. deleteCalls' \in 0..DeleteCallCap
    <3>1. (IF deleteCalls < DeleteCallCap THEN deleteCalls + 1 ELSE DeleteCallCap)
            \in 0..DeleteCallCap
      BY DEF TypeOK, DeleteCallCap
    <3>2. deleteCalls' = deleteCalls
          \/ deleteCalls' = IF deleteCalls < DeleteCallCap
                            THEN deleteCalls + 1 ELSE DeleteCallCap
      BY <1>3 DEF DeleteHelmReleaseIssue
    <3>3. QED
      BY <3>1, <3>2 DEF TypeOK
  <2>3. faults' \in 0..MaxFaults
    BY <1>3, FaultsType DEF DeleteHelmReleaseIssue
  <2>4. QED
    BY <2>1, <2>2, <2>3, <2>5 DEF TypeOK, Pcs
<1>4. CASE RemoveFinalizer
  <2>1. UNCHANGED <<repo, hr, rp, stale, userOps, deleteCalls, lastEvent>>
        /\ emitted' = {} /\ pc' = "Idle"
    BY <1>4 DEF RemoveFinalizer, Silent
  <2>2. parent' \in Parent
    BY <1>4 DEF RemoveFinalizer, TypeOK, Parent
  <2>3. faults' \in 0..MaxFaults
    BY <1>4, FaultsType DEF RemoveFinalizer
  <2>4. QED
    BY <2>1, <2>2, <2>3 DEF TypeOK, Pcs
<1>5. CASE Unmanage
  <2>1. UNCHANGED <<repo, hr, rp, stale, userOps, deleteCalls, lastEvent>>
        /\ emitted' = {} /\ pc' = "Idle"
    BY <1>5 DEF Unmanage, Silent
  <2>2. parent' \in Parent
    BY <1>5 DEF Unmanage, TypeOK, Parent
  <2>3. faults' \in 0..MaxFaults
    BY <1>5, FaultsType DEF Unmanage
  <2>4. QED
    BY <2>1, <2>2, <2>3 DEF TypeOK, Pcs
<1>6. CASE AddFinalizer
  <2>1. UNCHANGED <<repo, hr, userOps, deleteCalls, lastEvent>> /\ emitted' = {}
    BY <1>6 DEF AddFinalizer, Silent
  <2>2. parent' \in Parent
    BY <1>6 DEF AddFinalizer, TypeOK, Parent
  <2>5. rp' \in Parent
    BY <1>6, <2>2 DEF AddFinalizer, TypeOK
  <2>6. stale' \in BOOLEAN /\ pc' \in Pcs
    BY <1>6 DEF AddFinalizer, TypeOK, Pcs
  <2>3. faults' \in 0..MaxFaults
    BY <1>6, FaultsType DEF AddFinalizer
  <2>4. QED
    BY <2>1, <2>2, <2>3, <2>5, <2>6 DEF TypeOK
<1>7. CASE MarkProgressing
  <2> DEFINE r == [rp EXCEPT !.status.obsGen = rp.gen,
                             !.status.phase = "progressing"]
  <2>1. UNCHANGED <<repo, hr, stale, userOps, deleteCalls, lastEvent>>
        /\ emitted' = {} /\ pc' \in Pcs
    BY <1>7 DEF MarkProgressing, Silent, Pcs
  <2>2. r.status \in Status /\ r \in Parent
    BY <1>0 DEF TypeOK, Parent, Status, Phases
  <2>3. parent' \in Parent /\ rp' \in Parent
    BY <1>7, <2>2 DEF MarkProgressing, TypeOK, Parent
  <2>4. faults' \in 0..MaxFaults
    BY <1>7, FaultsType DEF MarkProgressing
  <2>5. QED
    BY <2>1, <2>3, <2>4 DEF TypeOK
<1>8. CASE ReconcileRepository
  <2> DEFINE obj == IF repo.exists THEN repo
                    ELSE [exists |-> TRUE, fresh |-> FALSE, ready |-> FALSE]
             l == CheckIfResourceIsReady(rp.status.ready["HelmRepository"], obj)
  <2>1. UNCHANGED <<parent, hr, stale, userOps, deleteCalls>> /\ pc' \in Pcs
    BY <1>8 DEF ReconcileRepository, Pcs
  <2>2. obj \in Repository
    BY DEF TypeOK, Repository
  <2>3. l.ok \in BOOLEAN /\ l.next \in TriState /\ l.event \in Notices \cup {"none"}
    <3>1. obj.fresh \in BOOLEAN /\ obj.ready \in BOOLEAN
      BY <2>2 DEF Repository
    <3>2. QED
      BY <1>0, <3>1 DEF l, CheckIfResourceIsReady, TriState, Notices
  <2>4. [rp EXCEPT !.status.ready["HelmRepository"] = l.next,
                   !.status.phase = IF l.ok THEN @ ELSE "notready"] \in Parent
    BY <1>0, <2>3 DEF TypeOK, Parent, Status, Kinds, Phases
  <2>5. repo' \in Repository /\ rp' \in Parent
    BY <1>8, <2>2, <2>4 DEF ReconcileRepository, TypeOK
  <2>6. faults' \in 0..MaxFaults
    BY <1>8, FaultsType DEF ReconcileRepository
  <2>7. emitted' \subseteq Kinds \X Notices
        /\ lastEvent' \in [Kinds -> Notices \cup {"none"}]
    BY <1>8, <2>3, EventsType DEF ReconcileRepository, Kinds
  <2>8. QED
    BY <2>1, <2>5, <2>6, <2>7 DEF TypeOK
<1>9. CASE ReconcileRelease
  <2> DEFINE create == rp.status.release = NoName \/ ~hr.exists
             created == create /\ ~hr.exists
             update == ~create /\ RequiresUpdate(hr, rp)
             obs == Observed(hr, created, update)
             l == CheckIfResourceIsReady(rp.status.ready["HelmRelease"], obs)
  <2>1. UNCHANGED <<parent, repo, stale, userOps, deleteCalls>> /\ pc' = "PatchStatus"
    BY <1>9 DEF ReconcileRelease
  <2>2. obs.fresh \in BOOLEAN /\ obs.ready \in BOOLEAN
    BY DEF Observed, TypeOK, Release
  <2>3. l.ok \in BOOLEAN /\ l.next \in TriState /\ l.event \in Notices \cup {"none"}
    BY <1>0, <2>2, LatchType
  <2>4. [rp EXCEPT !.status.release = IF create \/ update THEN HRName ELSE @,
                   !.status.ready["HelmRelease"] = l.next,
                   !.status.phase = IF l.ok THEN "ready" ELSE "notready"] \in Parent
    BY <1>0, <2>3 DEF TypeOK, Parent, Status, Kinds, Phases
  <2>5. [rp EXCEPT !.status.release = NoName] \in Parent
    BY <1>0 DEF TypeOK, Parent, Status
  <2>6. /\ [NoRelease EXCEPT !.exists = TRUE, !.values = rp.values] \in Release
        /\ [hr EXCEPT !.values = rp.values, !.fresh = FALSE] \in Release
    BY <1>0 DEF TypeOK, NoRelease, Release
  <2>7. hr' \in Release /\ rp' \in Parent
    BY <1>9, <2>4, <2>5, <2>6 DEF ReconcileRelease, TypeOK
  <2>8. faults' \in 0..MaxFaults
    BY <1>9, FaultsType DEF ReconcileRelease
  <2>9. emitted' \subseteq Kinds \X Notices
        /\ lastEvent' \in [Kinds -> Notices \cup {"none"}]
    BY <1>9, <2>3, EventsType DEF ReconcileRelease, Kinds
  <2>10. QED
    BY <2>1, <2>7, <2>8, <2>9 DEF TypeOK, Pcs
<1>10. CASE PatchStatus
  <2>1. UNCHANGED <<repo, hr, rp, stale, userOps, deleteCalls, lastEvent>>
        /\ emitted' = {} /\ pc' = "Idle"
    BY <1>10 DEF PatchStatus, Silent
  <2>2. parent' \in Parent
    BY <1>10 DEF PatchStatus, TypeOK, Parent
  <2>3. faults' \in 0..MaxFaults
    BY <1>10, FaultsType DEF PatchStatus
  <2>4. QED
    BY <2>1, <2>2, <2>3 DEF TypeOK, Pcs
<1>11. CASE Restart
  <2>1. UNCHANGED <<parent, repo, hr, rp, stale, userOps, deleteCalls, lastEvent>>
        /\ emitted' = {} /\ pc' = "Idle"
    BY <1>11 DEF Restart, Silent, store
  <2>2. faults' \in 0..MaxFaults
    BY <1>11, Assumptions DEF Restart, TypeOK
  <2>3. QED
    BY <2>1, <2>2 DEF TypeOK, Pcs
<1>12. CASE User
  <2>1. SUFFICES ASSUME NEW p \in Parent, UserWrite(p) PROVE TypeOK'
    <3>1. CASE EditSpec
      <4>1. PICK v \in {parent.values, parent.gen + 1} :
               UserWrite([parent EXCEPT !.gen = @ + 1, !.values = v])
        BY <3>1 DEF EditSpec
      <4>2. [parent EXCEPT !.gen = @ + 1, !.values = v] \in Parent
        <5>1. parent.gen < MaxGen /\ parent.gen \in 1..MaxGen
          BY <3>1, ParentFields DEF EditSpec
        <5>2. parent.gen + 1 \in 1..MaxGen /\ v \in 1..MaxGen
          BY <4>1, <5>1, ParentFields, Assumptions
        <5>3. QED
          BY <5>2 DEF TypeOK, Parent
      <4>3. QED
        BY <4>1, <4>2
    <3>2. CASE RequestDelete
      <4>1. [parent EXCEPT !.deleting = TRUE, !.exists = parent.finalizer] \in Parent
        BY DEF TypeOK, Parent
      <4>2. QED
        BY <3>2, <4>1 DEF RequestDelete
    <3>3. CASE SetManaged
      <4>1. [parent EXCEPT !.managed = ~@] \in Parent
        BY DEF TypeOK, Parent
      <4>2. QED
        BY <3>3, <4>1 DEF SetManaged
    <3>4. QED
      BY <1>12, <3>1, <3>2, <3>3 DEF User
  <2>2. UNCHANGED <<repo, hr, pc, rp, faults, deleteCalls, lastEvent>>
        /\ emitted' = {} /\ stale' = TRUE /\ parent' = p
    BY <2>1 DEF UserWrite, Silent
  <2>3. userOps' \in 0..MaxUserOps
    BY <2>1, Assumptions DEF UserWrite, TypeOK
  <2>4. QED
    BY <2>2, <2>3 DEF TypeOK
<1>13. CASE Environment
  <2>1. SUFFICES ASSUME NEW r \in Repository, NEW h \in Release,
                        faults' \in 0..MaxFaults, EnvStep(r, h)
                 PROVE TypeOK'
    <3>1. NoRelease \in Release
      BY Assumptions DEF NoRelease, Release
    <3>2. CASE FluxReconcileRepository
      BY <3>2 DEF FluxReconcileRepository, TypeOK, Repository
    <3>3. CASE FluxReconcileRelease
      BY <3>3 DEF FluxReconcileRelease, TypeOK, Release
    <3>4. CASE FluxFails
      <4>1. faults' \in 0..MaxFaults
        BY <3>4, Assumptions DEF FluxFails, TypeOK
      <4>2. [repo EXCEPT !.fresh = TRUE, !.ready = FALSE] \in Repository
            /\ [hr EXCEPT !.fresh = TRUE, !.ready = FALSE] \in Release
        BY DEF TypeOK, Repository, Release
      <4>3. QED
        BY <3>4, <4>1, <4>2 DEF FluxFails, TypeOK
    <3>5. CASE FinishReleaseDeletion
      BY <3>1, <3>5 DEF FinishReleaseDeletion, TypeOK
    <3>6. CASE GarbageCollect
      BY <3>1, <3>6 DEF GarbageCollect, TypeOK, Repository
    <3>7. QED
      BY <1>13, <3>2, <3>3, <3>4, <3>5, <3>6 DEF Environment
  <2>2. UNCHANGED <<parent, pc, rp, stale, userOps, deleteCalls, lastEvent>>
        /\ emitted' = {} /\ repo' = r /\ hr' = h
    BY <2>1 DEF EnvStep, Silent
  <2>3. QED
    BY <2>1, <2>2 DEF TypeOK
<1>14. CASE UNCHANGED vars
  BY <1>14 DEF vars, TypeOK
<1>15. QED
  BY <1>1, <1>2, <1>3, <1>4, <1>5, <1>6, <1>7, <1>8, <1>9, <1>10, <1>11,
     <1>12, <1>13, <1>14 DEF Next, Reconciler

\* the reconciler, the user and the environment never leave the type
THEOREM TypeCorrect == Spec => []TypeOK
BY TypeInit, TypeStep, PTL DEF Spec

-----------------------------------------------------------------------------
(* A HelmRelease is never left without its HelmRepository.                 *)

LEMMA IInvInit == Init => IInv
BY TypeInit DEF Init, IInv, ReleaseRequiresRepository, NoRelease, ReconcileSteps

\* Fetch enters the reconcile steps only for a parent that carries the
\* finalizer and is not being deleted
LEMMA DispatchGuard ==
    ASSUME NEW p, p.deleting \in BOOLEAN, p.managed \in BOOLEAN,
           p.finalizer \in BOOLEAN, Dispatch(p) \in ReconcileSteps
    PROVE  p.finalizer
BY DEF Dispatch, ReconcileSteps

LEMMA IInvStep == IInv /\ [Next]_vars => IInv'
<1> SUFFICES ASSUME IInv, [Next]_vars
             PROVE  /\ TypeOK'
                    /\ ReleaseRequiresRepository'
                    /\ pc' \in ReconcileSteps => parent'.exists /\ parent'.finalizer
                    /\ pc' = "ReconcileRelease" => repo'.exists
  BY DEF IInv
<1>0. TypeOK'
  BY TypeStep DEF IInv
<1> DEFINE RRR == parent.exists /\ hr.exists => repo.exists
           Guard == pc \in ReconcileSteps => parent.exists /\ parent.finalizer
           First == pc = "ReconcileRelease" => repo.exists
<1>a. RRR /\ Guard /\ First
  BY DEF IInv, ReleaseRequiresRepository
<1> SUFFICES RRR' /\ Guard' /\ First'
  BY <1>0 DEF ReleaseRequiresRepository
<1>t. parent \in Parent /\ rp \in Parent /\ hr \in Release /\ repo \in Repository
  BY DEF IInv, TypeOK
<1>1. CASE Fetch
  <2>1. UNCHANGED <<parent, repo, hr>> /\ pc' \in {pc, Dispatch(parent)}
    BY <1>1 DEF Fetch, store
  <2>2. pc' \in ReconcileSteps => parent.exists /\ parent.finalizer
    BY <1>1, DispatchGuard DEF Fetch, ReconcileSteps, IInv, TypeOK, Parent
  <2>3. pc' # "ReconcileRelease"
    BY <1>1, <2>1 DEF Fetch, Dispatch
  <2>4. QED
    BY <1>a, <2>1, <2>2, <2>3
<1>2. CASE DeleteHelmReleaseGone
  <2>1. UNCHANGED <<parent, repo, hr>> /\ pc' \in {"RemoveFinalizer", "Idle"}
    BY <1>2 DEF DeleteHelmReleaseGone, store
  <2>2. QED
    BY <1>a, <2>1 DEF ReconcileSteps
<1>3. CASE DeleteHelmReleaseIssue
  <2>1. UNCHANGED <<parent, repo>> /\ pc' = "Idle" /\ hr'.exists = hr.exists
    BY <1>3, <1>t DEF DeleteHelmReleaseIssue, Parent, Release, Repository
  <2>2. QED
    BY <1>a, <2>1 DEF ReconcileSteps
<1>4. CASE RemoveFinalizer
  <2>1. UNCHANGED <<repo, hr>> /\ pc' = "Idle" /\ (parent'.exists => parent.exists)
    BY <1>4, <1>t DEF RemoveFinalizer, Parent, Release, Repository
  <2>2. QED
    BY <1>a, <2>1 DEF ReconcileSteps
<1>5. CASE Unmanage
  <2>1. UNCHANGED <<repo, hr>> /\ pc' = "Idle" /\ parent'.exists = parent.exists
    BY <1>5, <1>t DEF Unmanage, Parent, Release, Repository
  <2>2. QED
    BY <1>a, <2>1 DEF ReconcileSteps
<1>6. CASE AddFinalizer
  <2>1. UNCHANGED <<repo, hr>> /\ parent'.exists = parent.exists
    BY <1>6, <1>t DEF AddFinalizer, Parent, Release, Repository
  <2>2. pc' \in ReconcileSteps => parent'.exists /\ parent'.finalizer
    BY <1>6, <1>t DEF AddFinalizer, Succeeds, Fails, ReconcileSteps, Parent, Release, Repository
  <2>3. pc' # "ReconcileRelease"
    BY <1>6, <1>t DEF AddFinalizer, Parent, Release, Repository
  <2>4. QED
    BY <1>a, <2>1, <2>2, <2>3
<1>7. CASE MarkProgressing
  <2>1. /\ UNCHANGED <<repo, hr>>
        /\ parent'.exists = parent.exists /\ parent'.finalizer = parent.finalizer
        /\ pc' \in {"ReconcileRepository", "PatchStatus"}
    BY <1>7, <1>t DEF MarkProgressing, Parent, Release, Repository
  <2>2. QED
    BY <1>a, <1>7, <2>1 DEF MarkProgressing, ReconcileSteps
<1>8. CASE ReconcileRepository
  <2>1. UNCHANGED <<parent, hr>> /\ pc = "ReconcileRepository"
    BY <1>8 DEF ReconcileRepository
  <2> DEFINE obj == IF repo.exists THEN repo
                    ELSE [exists |-> TRUE, fresh |-> FALSE, ready |-> FALSE]
  <2>a. obj.exists
    BY <1>t DEF Repository, obj
  <2>2. \/ repo' = obj /\ pc' \in {"ReconcileRelease", "PatchStatus"}
        \/ UNCHANGED repo /\ pc' = "PatchStatus"
    BY <1>8 DEF ReconcileRepository, obj
  <2>b. \/ repo'.exists /\ pc' \in {"ReconcileRelease", "PatchStatus"}
        \/ UNCHANGED repo /\ pc' = "PatchStatus"
    BY <2>a, <2>2
  <2>3. QED
    BY <1>a, <2>1, <2>b DEF ReconcileSteps
<1>9. CASE ReconcileRelease
  <2>1. UNCHANGED <<parent, repo>> /\ pc' = "PatchStatus"
    BY <1>9 DEF ReconcileRelease
  <2>2. repo.exists
    BY <1>a, <1>9 DEF ReconcileRelease
  <2>3. QED
    BY <2>1, <2>2 DEF ReconcileSteps
<1>10. CASE PatchStatus
  <2>1. UNCHANGED <<repo, hr>> /\ pc' = "Idle" /\ parent'.exists = parent.exists
    BY <1>10, <1>t DEF PatchStatus, Parent, Release, Repository
  <2>2. QED
    BY <1>a, <2>1 DEF ReconcileSteps
<1>11. CASE Restart
  <2>1. UNCHANGED <<parent, repo, hr>> /\ pc' = "Idle"
    BY <1>11 DEF Restart, store
  <2>2. QED
    BY <1>a, <2>1 DEF ReconcileSteps
<1>12. CASE User
  <2>1. /\ UNCHANGED <<repo, hr, pc>>
        /\ parent'.exists => parent.exists
        /\ parent'.finalizer = parent.finalizer
        /\ parent.exists /\ parent.finalizer => parent'.exists
    BY <1>12, <1>t DEF User, EditSpec, RequestDelete, SetManaged, UserWrite, Parent
  <2>2. QED
    BY <1>a, <2>1
<1>13. CASE Environment
  <2>1. UNCHANGED <<parent, pc>>
    BY <1>13 DEF Environment, FluxReconcileRepository, FluxReconcileRelease,
       FluxFails, FinishReleaseDeletion, GarbageCollect, EnvStep
  <2>2. \/ repo'.exists = repo.exists /\ (hr'.exists => hr.exists)
        \/ ~parent.exists
    <3>1. CASE FluxReconcileRepository \/ FluxReconcileRelease \/ FluxFails
      BY <3>1, <1>t DEF FluxReconcileRepository, FluxReconcileRelease,
         FluxFails, EnvStep, Repository, Release
    <3>2. CASE FinishReleaseDeletion
      BY <3>2 DEF FinishReleaseDeletion, EnvStep, NoRelease
    <3>3. CASE GarbageCollect
      BY <3>3 DEF GarbageCollect
    <3>4. QED
      BY <1>13, <3>1, <3>2, <3>3 DEF Environment
  <2>3. QED
    BY <1>a, <2>1, <2>2 DEF ReconcileSteps
<1>14. CASE UNCHANGED vars
  BY <1>a, <1>14 DEF vars
<1>15. QED
  BY <1>1, <1>2, <1>3, <1>4, <1>5, <1>6, <1>7, <1>8, <1>9, <1>10, <1>11,
     <1>12, <1>13, <1>14 DEF Next, Reconciler

\* ReleaseRequiresRepository: whatever the user, a restart, a failed store
\* call or the garbage collector does between the calls of reconcile, a
\* HelmRelease of an existing parent has its HelmRepository beside it
THEOREM ReleaseRequiresRepositoryHolds == Spec => []ReleaseRequiresRepository
<1>1. IInv => ReleaseRequiresRepository
  BY DEF IInv
<1>2. QED
  BY IInvInit, IInvStep, <1>1, PTL DEF Spec

-----------------------------------------------------------------------------
(* The finalizer of a parent under deletion is removed only when no        *)
(* recorded HelmRelease is left.                                           *)

\* Inductive strengthening of FinalizerRemovalSafe.  A reconcile that holds
\* an unconflicted copy of the parent (~stale) is about to remove the
\* finalizer of a deleting parent only after Fetch saw no recorded release
\* or deleteHelmRelease found the release gone, and nothing but this
\* reconcile creates a release; Unmanage is reached only for a parent that
\* was not being deleted, and a deletion request since then makes its
\* Update conflict.
FInv ==
    /\ TypeOK
    /\ pc = "RemoveFinalizer" /\ ~stale =>
          parent.status.release = NoName \/ ~hr.exists
    /\ pc = "Unmanage" /\ ~stale => ~parent.deleting


LEMMA FInvInit == Init => FInv
BY TypeInit DEF Init, FInv

\* Dispatch sends a parent to RemoveFinalizer only when its status records
\* no release, and to Unmanage only when it is not being deleted
LEMMA DispatchFinalizer ==
    ASSUME NEW p, p.deleting \in BOOLEAN, p.managed \in BOOLEAN,
           p.finalizer \in BOOLEAN
    PROVE  /\ Dispatch(p) = "RemoveFinalizer" => p.status.release = NoName
           /\ Dispatch(p) = "Unmanage" => ~p.deleting
BY DEF Dispatch

LEMMA FInvStep == FInv /\ [Next]_vars => FInv'
<1> SUFFICES ASSUME FInv, [Next]_vars
             PROVE  /\ TypeOK'
                    /\ pc' = "RemoveFinalizer" /\ ~stale' =>
                          parent'.status.release = NoName \/ ~hr'.exists
                    /\ pc' = "Unmanage" /\ ~stale' => ~parent'.deleting
  BY DEF FInv
<1>0. TypeOK'
  BY TypeStep DEF FInv
<1> DEFINE Rem == pc = "RemoveFinalizer" /\ ~stale =>
                    parent.status.release = NoName \/ ~hr.exists
           Unm == pc = "Unmanage" /\ ~stale => ~parent.deleting
<1>a. Rem /\ Unm
  BY DEF FInv
<1> SUFFICES Rem' /\ Unm'
  BY <1>0
<1>t. parent \in Parent /\ hr \in Release
  BY DEF FInv, TypeOK
<1>1. CASE Fetch
  <2>1. UNCHANGED <<parent, hr>>
    BY <1>1 DEF Fetch, store
  <2>2. CASE parent.exists
    <3>1. pc' = Dispatch(parent) /\ stale' = FALSE
      BY <1>1, <2>2 DEF Fetch
    <3>2. QED
      BY <2>1, <3>1, <1>t, DispatchFinalizer DEF Parent
  <2>3. CASE ~parent.exists
    BY <1>a, <1>1, <2>1, <2>3 DEF Fetch
  <2>4. QED
    BY <2>2, <2>3
<1>2. CASE DeleteHelmReleaseGone
  <2>1. UNCHANGED hr /\ ~hr.exists /\ pc' \in {"RemoveFinalizer", "Idle"}
    BY <1>2 DEF DeleteHelmReleaseGone, store
  <2>2. QED
    BY <2>1
<1>3. CASE \/ DeleteHelmReleaseIssue \/ RemoveFinalizer \/ Unmanage
           \/ PatchStatus \/ Restart
  <2>1. pc' = "Idle"
    BY <1>3 DEF DeleteHelmReleaseIssue, RemoveFinalizer, Unmanage,
       PatchStatus, Restart
  <2>2. QED
    BY <2>1
<1>4. CASE \/ AddFinalizer \/ MarkProgressing \/ ReconcileRepository
           \/ ReconcileRelease
  <2>1. pc' \in {"Idle", "MarkProgressing", "ReconcileRepository",
                 "ReconcileRelease", "PatchStatus"}
    BY <1>4 DEF AddFinalizer, MarkProgressing, ReconcileRepository,
       ReconcileRelease
  <2>2. QED
    BY <2>1
<1>5. CASE User
  <2>1. stale' = TRUE
    BY <1>5 DEF User, EditSpec, RequestDelete, SetManaged, UserWrite
  <2>2. QED
    BY <2>1
<1>6. CASE Environment
  <2>1. UNCHANGED <<parent, pc, stale>> /\ (hr'.exists => hr.exists)
    BY <1>6, <1>t DEF Environment, FluxReconcileRepository,
       FluxReconcileRelease, FluxFails, FinishReleaseDeletion,
       GarbageCollect, EnvStep, NoRelease, Release
  <2>2. QED
    BY <1>a, <2>1
<1>7. CASE UNCHANGED vars
  BY <1>a, <1>7 DEF vars
<1>8. QED
  BY <1>1, <1>2, <1>3, <1>4, <1>5, <1>6, <1>7 DEF Next, Reconciler

\* every step that drops the finalizer of a parent under deletion is a
\* RemoveFinalizer whose Update did not conflict
LEMMA FinalizerStep ==
    FInv /\ [Next]_vars =>
      [parent.deleting /\ parent.finalizer /\ ~parent'.finalizer
         => parent.status.release = NoName \/ ~hr.exists]_vars
<1> SUFFICES ASSUME FInv, [Next]_vars,
                    parent.deleting, parent.finalizer, ~parent'.finalizer
             PROVE  parent.status.release = NoName \/ ~hr.exists
  OBVIOUS
<1>t. parent \in Parent
  BY DEF FInv, TypeOK
<1>1. CASE RemoveFinalizer
  <2>1. pc = "RemoveFinalizer" /\ ~stale
    BY <1>1, <1>t DEF RemoveFinalizer, Succeeds, Fails
  <2>2. QED
    BY <2>1 DEF FInv
<1>2. CASE Unmanage
  <2>1. pc = "Unmanage" /\ ~stale
    BY <1>2, <1>t DEF Unmanage, Succeeds, Fails
  <2>2. QED
    BY <2>1 DEF FInv
<1>3. CASE \/ Fetch \/ DeleteHelmReleaseGone \/ DeleteHelmReleaseIssue
           \/ Restart \/ Environment \/ UNCHANGED vars
  <2>1. UNCHANGED parent
    BY <1>3 DEF Fetch, DeleteHelmReleaseGone, DeleteHelmReleaseIssue,
       Restart, Environment, FluxReconcileRepository, FluxReconcileRelease,
       FluxFails, FinishReleaseDeletion, GarbageCollect, EnvStep, store, vars
  <2>2. QED
    BY <2>1
<1>4. CASE \/ AddFinalizer \/ MarkProgressing \/ PatchStatus
           \/ ReconcileRepository \/ ReconcileRelease
  <2>1. parent.finalizer => parent'.finalizer
    BY <1>4, <1>t DEF AddFinalizer, MarkProgressing, PatchStatus,
       ReconcileRepository, ReconcileRelease, Parent
  <2>2. QED
    BY <2>1
<1>5. CASE User
  <2>1. parent'.finalizer = parent.finalizer
    BY <1>5, <1>t DEF User, EditSpec, RequestDelete, SetManaged, UserWrite,
       Parent
  <2>2. QED
    BY <2>1
<1>6. QED
  BY <1>1, <1>2, <1>3, <1>4, <1>5 DEF Next, Reconciler

\* FinalizerRemovalSafe: however the user's writes, restarts and failed
\* store calls interleave with reconcileDelete, the finalizer of a parent
\* under deletion is removed only when its persisted status records no
\* HelmRelease or the HelmRelease is gone
THEOREM FinalizerRemovalSafeHolds == Spec => FinalizerRemovalSafe
<1>1. Spec => []FInv
  BY FInvInit, FInvStep, PTL DEF Spec
<1>2. QED
  BY <1>1, FinalizerStep, PTL DEF Spec, FinalizerRemovalSafe

=============================================================================
