---------------------- MODULE RedpandaRefinementProofs ----------------------
(***************************************************************************)
(* The safety part of the refinement of RedpandaRefinement, for every     *)
(* value of the constants: every step of the reconciler, the user and the *)
(* environment is a step of RedpandaLifecycle or leaves the abstract state *)
(* alone.  The weak fairness of Lifecycle!Spec is left to TLC.            *)
(***************************************************************************)
EXTENDS RedpandaReconcilerProofs, RedpandaRefinement, TLAPS

\* What the reconciler knows of the parent when it writes it.  The deletion
\* branch is taken only for a parent under deletion, and deletion is never
\* undone; an unconflicted Unmanage holds a parent that is still
\* unmanaged; an unconflicted reconcile past Fetch holds a parent that
\* still exists (only a user write, which makes the copy stale, or the
\* reconciler's own RemoveFinalizer, which ends the reconcile, removes it).
NInv ==
    /\ pc \in {"DeleteHelmRelease", "RemoveFinalizer"} => parent.deleting
    /\ pc = "Unmanage" /\ ~stale => ~parent.managed
    /\ pc # "Idle" /\ ~stale => parent.exists

\* the invariant the refinement step rests on
RInv == IInv /\ FInv /\ NInv


LEMMA NInvInit == Init => NInv
BY DEF Init, NInv

\* Dispatch takes the deletion branch only for a parent under deletion,
\* and sends to Unmanage only a parent that is unmanaged
LEMMA DispatchBranch ==
    ASSUME NEW p, p.deleting \in BOOLEAN, p.managed \in BOOLEAN,
           p.finalizer \in BOOLEAN
    PROVE  /\ Dispatch(p) \in {"DeleteHelmRelease", "RemoveFinalizer"}
                => p.deleting
           /\ Dispatch(p) = "Unmanage" => ~p.managed
BY DEF Dispatch

\* no step undoes a deletion request
LEMMA DeletingStays ==
    ASSUME TypeOK, [Next]_vars, parent.deleting
    PROVE  parent'.deleting
<1>t. parent \in Parent
  BY DEF TypeOK
<1>1. CASE User
  BY <1>1, <1>t DEF User, EditSpec, RequestDelete, SetManaged, UserWrite
<1>2. CASE Reconciler
  BY <1>2, <1>t DEF Reconciler, Fetch, DeleteHelmReleaseGone,
     DeleteHelmReleaseIssue, RemoveFinalizer, Unmanage, AddFinalizer,
     MarkProgressing, ReconcileRepository, ReconcileRelease, PatchStatus,
     Restart, store, Parent
<1>3. CASE Environment
  BY <1>3 DEF Environment, FluxReconcileRepository, FluxReconcileRelease,
     FluxFails, FinishReleaseDeletion, GarbageCollect, EnvStep
<1>4. CASE UNCHANGED vars
  BY <1>4 DEF vars
<1>5. QED
  BY <1>1, <1>2, <1>3, <1>4 DEF Next

LEMMA NInvStep == TypeOK /\ NInv /\ [Next]_vars => NInv'
<1> SUFFICES ASSUME TypeOK, NInv, [Next]_vars PROVE NInv'
  OBVIOUS
<1> DEFINE Del == pc \in {"DeleteHelmRelease", "RemoveFinalizer"} => parent.deleting
           Unm == pc = "Unmanage" /\ ~stale => ~parent.managed
           Ex  == pc # "Idle" /\ ~stale => parent.exists
<1>a. Del /\ Unm /\ Ex
  BY DEF NInv
<1> SUFFICES Del' /\ Unm' /\ Ex'
  BY DEF NInv
<1>t. parent \in Parent
  BY DEF TypeOK
<1>d. Del'
  <2>1. CASE pc' \in {"DeleteHelmRelease", "RemoveFinalizer"} /\ ~Fetch
    <3>1. pc \in {"DeleteHelmRelease", "RemoveFinalizer"}
      BY <2>1 DEF Next, Reconciler, Fetch, DeleteHelmReleaseGone,
         DeleteHelmReleaseIssue, RemoveFinalizer, Unmanage, AddFinalizer,
         MarkProgressing, ReconcileRepository, ReconcileRelease, PatchStatus,
         Restart, User, EditSpec, RequestDelete, SetManaged, UserWrite,
         Environment, FluxReconcileRepository, FluxReconcileRelease,
         FluxFails, FinishReleaseDeletion, GarbageCollect, EnvStep, vars
    <3>2. QED
      BY <1>a, <3>1, DeletingStays
  <2>2. CASE Fetch
    <3>1. UNCHANGED parent /\ pc' \in {"Idle", Dispatch(parent)}
      BY <2>2 DEF Fetch, store
    <3>2. QED
      BY <3>1, <1>t, DispatchBranch DEF Parent
  <2>3. QED
    BY <2>1, <2>2
<1>u. Unm' /\ Ex'
  <2>1. CASE Fetch
    <3>1. UNCHANGED parent
      BY <2>1 DEF Fetch, store
    <3>2. CASE parent.exists
      <4>1. pc' = Dispatch(parent)
        BY <2>1, <3>2 DEF Fetch
      <4>2. QED
        BY <3>1, <3>2, <4>1, <1>t, DispatchBranch DEF Parent
    <3>5. CASE ~parent.exists
      BY <2>1, <3>5 DEF Fetch
    <3>6. QED
      BY <3>2, <3>5
  <2>2. CASE \/ DeleteHelmReleaseGone \/ DeleteHelmReleaseIssue
             \/ MarkProgressing \/ ReconcileRepository \/ ReconcileRelease
    <3>1. UNCHANGED stale /\ pc' # "Unmanage" /\ pc # "Idle"
          /\ parent'.exists = parent.exists
      BY <2>2, <1>t DEF DeleteHelmReleaseGone, DeleteHelmReleaseIssue,
         MarkProgressing, ReconcileRepository, ReconcileRelease, store, Parent
    <3>2. QED
      BY <1>a, <3>1
  <2>3. CASE RemoveFinalizer \/ Unmanage \/ PatchStatus \/ Restart
    <3>1. pc' = "Idle"
      BY <2>3 DEF RemoveFinalizer, Unmanage, PatchStatus, Restart
    <3>2. QED
      BY <3>1
  <2>4. CASE AddFinalizer
    <3>1. pc' # "Unmanage" /\ (pc' # "Idle" => ~stale' /\ parent'.exists)
      BY <2>4, <1>t DEF AddFinalizer, Succeeds, Fails, Parent
    <3>2. QED
      BY <3>1
  <2>5. CASE User
    <3>1. stale' = TRUE
      BY <2>5 DEF User, EditSpec, RequestDelete, SetManaged, UserWrite
    <3>2. QED
      BY <3>1
  <2>6. CASE Environment
    <3>1. UNCHANGED <<parent, pc, stale>>
      BY <2>6 DEF Environment, FluxReconcileRepository, FluxReconcileRelease,
         FluxFails, FinishReleaseDeletion, GarbageCollect, EnvStep
    <3>2. QED
      BY <1>a, <3>1
  <2>7. CASE UNCHANGED vars
    BY <1>a, <2>7 DEF vars
  <2>8. QED
    BY <2>1, <2>2, <2>3, <2>4, <2>5, <2>6, <2>7 DEF Next, Reconciler
<1>q. QED
  BY <1>d, <1>u


LEMMA RInvInit == Init => RInv
BY IInvInit, FInvInit, NInvInit DEF RInv

LEMMA RInvStep == RInv /\ [Next]_vars => RInv'
BY IInvStep, FInvStep, NInvStep DEF RInv, IInv

-----------------------------------------------------------------------------
(* The refinement mapping.                                                 *)

\* a fresh parent maps to a fresh lifecycle
LEMMA InitRefines == Init => Lifecycle!Init
BY DEF Init, Lifecycle!Init, NoRelease

\* every step of the reconciler, the user and the environment is a step of
\* the lifecycle or leaves what it sees alone
LEMMA StepRefines == RInv /\ [Next]_vars => [Lifecycle!Next]_Lifecycle!vars
<1> SUFFICES ASSUME RInv, [Next]_vars PROVE [Lifecycle!Next]_Lifecycle!vars
  OBVIOUS
<1>t. parent \in Parent /\ repo \in Repository /\ hr \in Release
  BY DEF RInv, IInv, TypeOK
<1> DEFINE Stutter ==
      UNCHANGED <<parent.exists, parent.deleting, parent.managed,
                  parent.finalizer, parent.status.release, repo.exists,
                  hr.exists, hr.deleting>>
<1>s. Stutter => UNCHANGED Lifecycle!vars
  BY DEF Lifecycle!vars, Stutter
<1> SUFFICES Lifecycle!Next \/ Stutter
  BY <1>s
<1>1. CASE Fetch \/ DeleteHelmReleaseGone \/ Restart
  <2>1. UNCHANGED store
    BY <1>1 DEF Fetch, DeleteHelmReleaseGone, Restart
  <2>2. QED
    BY <2>1 DEF store, Stutter
<1>2. CASE DeleteHelmReleaseIssue
  <2>1. UNCHANGED <<parent, repo>>
    BY <1>2 DEF DeleteHelmReleaseIssue
  <2>2. CASE hr' = [hr EXCEPT !.deleting = TRUE]
    <3>1. parent.deleting /\ hr.exists
      BY <1>2 DEF RInv, NInv, DeleteHelmReleaseIssue
    <3>2. Lifecycle!DeleteRelease
      BY <2>1, <2>2, <3>1, <1>t DEF Lifecycle!DeleteRelease, Release
    <3>3. QED
      BY <3>2 DEF Lifecycle!Next, Lifecycle!Deletion
  <2>3. CASE UNCHANGED hr
    BY <2>1, <2>3 DEF Stutter
  <2>4. QED
    BY <1>2, <2>2, <2>3 DEF DeleteHelmReleaseIssue, Fails, Succeeds
<1>3. CASE RemoveFinalizer
  <2>1. UNCHANGED <<repo, hr>>
    BY <1>3 DEF RemoveFinalizer
  <2>2. CASE ~stale /\ parent' = [parent EXCEPT !.finalizer = FALSE, !.exists = FALSE]
    <3>1. parent.deleting /\ (parent.status.release = NoName \/ ~hr.exists)
      BY <1>3, <2>2 DEF RemoveFinalizer, RInv, NInv, FInv
    <3>2. Lifecycle!RemoveFinalizer
      BY <2>1, <2>2, <3>1, <1>t DEF Lifecycle!RemoveFinalizer, Parent
    <3>3. QED
      BY <3>2 DEF Lifecycle!Next, Lifecycle!Deletion
  <2>3. CASE UNCHANGED parent
    BY <2>1, <2>3 DEF Stutter
  <2>4. QED
    BY <1>3, <2>2, <2>3 DEF RemoveFinalizer, Fails, Succeeds
<1>4. CASE Unmanage
  <2>1. UNCHANGED <<repo, hr>>
    BY <1>4 DEF Unmanage
  <2>2. CASE ~stale /\ parent' = [parent EXCEPT !.finalizer = FALSE]
    <3>1. parent.exists /\ ~parent.deleting /\ ~parent.managed
      BY <1>4, <2>2 DEF Unmanage, RInv, NInv, FInv
    <3>2. Lifecycle!ReleaseFinalizer
      BY <2>1, <2>2, <3>1, <1>t DEF Lifecycle!ReleaseFinalizer, Parent
    <3>3. QED
      BY <3>2 DEF Lifecycle!Next
  <2>3. CASE UNCHANGED parent
    BY <2>1, <2>3 DEF Stutter
  <2>4. QED
    BY <1>4, <2>2, <2>3 DEF Unmanage, Fails, Succeeds
<1>5. CASE AddFinalizer
  <2>1. UNCHANGED <<repo, hr>>
    BY <1>5 DEF AddFinalizer
  <2>2. CASE parent.exists /\ parent' = [parent EXCEPT !.finalizer = TRUE]
    <3>1. Lifecycle!AddFinalizer
      BY <2>1, <2>2, <1>t DEF Lifecycle!AddFinalizer, Parent
    <3>2. QED
      BY <3>1 DEF Lifecycle!Next
  <2>3. CASE UNCHANGED parent
    BY <2>1, <2>3 DEF Stutter
  <2>4. QED
    BY <1>5, <2>2, <2>3 DEF AddFinalizer, Fails, Succeeds
<1>6. CASE MarkProgressing \/ PatchStatus
  <2>1. UNCHANGED <<repo, hr>>
    BY <1>6 DEF MarkProgressing, PatchStatus
  <2>2. CASE ~stale /\ \E st : parent' = [parent EXCEPT !.status = st]
    <3>1. parent.exists
      BY <1>6, <2>2 DEF MarkProgressing, PatchStatus, RInv, NInv
    <3>2. PICK st : parent' = [parent EXCEPT !.status = st]
      BY <2>2
    <3>3. Lifecycle!RecordStatus
      BY <2>1, <3>1, <3>2, <1>t DEF Lifecycle!RecordStatus, Parent
    <3>4. QED
      BY <3>3 DEF Lifecycle!Next
  <2>3. CASE UNCHANGED parent
    BY <2>1, <2>3 DEF Stutter
  <2>4. QED
    BY <1>6, <2>2, <2>3 DEF MarkProgressing, PatchStatus, Fails, Succeeds
<1>7. CASE ReconcileRepository
  <2>1. UNCHANGED <<parent, hr>> /\ pc = "ReconcileRepository"
    BY <1>7 DEF ReconcileRepository
  <2>2. CASE ~repo.exists /\ repo'.exists
    <3>1. parent.exists /\ parent.finalizer
      BY <2>1 DEF RInv, IInv, ReconcileSteps
    <3>2. Lifecycle!CreateRepository
      BY <2>1, <2>2, <3>1 DEF Lifecycle!CreateRepository
    <3>3. QED
      BY <3>2 DEF Lifecycle!Next
  <2>3. CASE repo'.exists = repo.exists
    BY <2>1, <2>3 DEF Stutter
  <2>4. repo' = repo \/ repo'.exists
    <3> DEFINE obj == IF repo.exists THEN repo
                      ELSE [exists |-> TRUE, fresh |-> FALSE, ready |-> FALSE]
    <3>1. obj = repo \/ obj.exists
      BY DEF obj
    <3>2. repo' = obj \/ repo' = repo
      BY <1>7 DEF ReconcileRepository, obj
    <3>3. QED
      BY <3>1, <3>2
  <2>5. QED
    BY <2>2, <2>3, <2>4
<1>8. CASE ReconcileRelease
  <2>1. UNCHANGED <<parent, repo>> /\ pc = "ReconcileRelease"
    BY <1>8 DEF ReconcileRelease
  <2>2. CASE ~hr.exists /\ hr'.exists /\ ~hr'.deleting
    <3>1. parent.exists /\ parent.finalizer /\ repo.exists
      BY <2>1 DEF RInv, IInv, ReconcileSteps
    <3>2. Lifecycle!CreateRelease
      BY <2>1, <2>2, <3>1 DEF Lifecycle!CreateRelease
    <3>3. QED
      BY <3>2 DEF Lifecycle!Next
  <2>3. CASE hr'.exists = hr.exists /\ hr'.deleting = hr.deleting
    BY <2>1, <2>3 DEF Stutter
  <2>4. QED
    BY <1>8, <1>t, <2>2, <2>3 DEF ReconcileRelease, Release, NoRelease
<1>9. CASE RequestDelete
  <2>1. /\ parent.exists /\ ~parent.deleting /\ UNCHANGED <<repo, hr>>
        /\ parent' = [parent EXCEPT !.deleting = TRUE, !.exists = parent.finalizer]
    BY <1>9 DEF RequestDelete, UserWrite
  <2>2. Lifecycle!RequestDeletion
    BY <2>1, <1>t DEF Lifecycle!RequestDeletion, Parent
  <2>3. QED
    BY <2>2 DEF Lifecycle!Next
<1>10. CASE SetManaged
  <2>1. /\ parent.exists /\ ~parent.deleting /\ UNCHANGED <<repo, hr>>
        /\ parent' = [parent EXCEPT !.managed = ~@]
    BY <1>10 DEF SetManaged, UserWrite
  <2>2. Lifecycle!ToggleManaged
    BY <2>1, <1>t DEF Lifecycle!ToggleManaged, Parent
  <2>3. QED
    BY <2>2 DEF Lifecycle!Next
<1>11. CASE EditSpec
  <2>1. /\ UNCHANGED <<repo, hr>>
        /\ \E v : parent' = [parent EXCEPT !.gen = @ + 1, !.values = v]
    BY <1>11 DEF EditSpec, UserWrite
  <2>2. QED
    BY <2>1, <1>t DEF Parent, Stutter
<1>12. CASE FluxReconcileRepository \/ FluxReconcileRelease \/ FluxFails
  <2>1. UNCHANGED parent /\ repo'.exists = repo.exists
        /\ hr'.exists = hr.exists /\ hr'.deleting = hr.deleting
    BY <1>12, <1>t DEF FluxReconcileRepository, FluxReconcileRelease,
       FluxFails, EnvStep, Repository, Release
  <2>2. QED
    BY <2>1 DEF Stutter
<1>13. CASE FinishReleaseDeletion
  <2>1. Lifecycle!ReleaseGone
    BY <1>13 DEF FinishReleaseDeletion, EnvStep, NoRelease, Lifecycle!ReleaseGone
  <2>2. QED
    BY <2>1 DEF Lifecycle!Next, Lifecycle!Deletion
<1>14. CASE GarbageCollect
  <2>1. Lifecycle!Collect
    BY <1>14 DEF GarbageCollect, EnvStep, NoRelease, Lifecycle!Collect
  <2>2. QED
    BY <2>1 DEF Lifecycle!Next, Lifecycle!Deletion
<1>15. CASE UNCHANGED vars
  BY <1>15 DEF vars, Stutter
<1>16. QED
  BY <1>1, <1>2, <1>3, <1>4, <1>5, <1>6, <1>7, <1>8, <1>9, <1>10, <1>11,
     <1>12, <1>13, <1>14, <1>15
  DEF Next, Reconciler, User, Environment

\* Refinement, safety part (Reconcile, reconcileDelete, deleteHelmRelease,
\* reconcileHelmRepository, reconcileHelmRelease, patchRedpandaStatus):
\* however the user's writes, conflicts, failed store calls, restarts, flux
\* and the garbage collector interleave with the reconciler, the store goes
\* only through the changes of RedpandaLifecycle: dependents created for a
\* live parent with its finalizer, the HelmRepository first; the HelmRelease
\* deleted only after deletion was requested; the finalizer dropped only
\* from an unmanaged live parent or from a parent under deletion whose
\* recorded HelmRelease is gone.
THEOREM RefinesLifecycle == Spec => Lifecycle!SafetySpec
<1>1. Spec => []RInv
  BY RInvInit, RInvStep, PTL DEF Spec
<1>2. QED
  BY <1>1, InitRefines, StepRefines, PTL DEF Spec, Lifecycle!SafetySpec

=============================================================================
