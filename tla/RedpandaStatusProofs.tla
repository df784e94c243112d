------------------------ MODULE RedpandaStatusProofs ------------------------
(***************************************************************************)
(* Proof that the persisted status of the parent never claims Ready for    *)
(* its current generation unless the HelmRelease carries that generation's *)
(* values, for every value of the constants.                               *)
(***************************************************************************)
EXTENDS RedpandaRefinementProofs, TLAPS

\* the steps of reconcile whose in-memory copy rp may reach the status
WriteSteps == {"MarkProgressing", "ReconcileRepository", "ReconcileRelease",
               "PatchStatus"}

\* the status of p, if Ready for p's generation, is borne out by the store
Truthful(p) ==
    p.status.phase = "ready" /\ p.status.obsGen = p.gen
      => hr.exists /\ hr.values = p.values

\* A live parent's HelmRelease is under deletion only once the parent is.
HrDeleting == ~parent.deleting => ~hr.deleting

\* a status never observes a generation ahead of its object
ObsBehind == parent.status.obsGen <= parent.gen
CopyObsBehind == pc \in WriteSteps => rp.status.obsGen <= rp.gen

\* an unconflicted copy has the parent's generation and values
CopySync ==
    pc \in WriteSteps /\ ~stale => rp.gen = parent.gen /\ rp.values = parent.values

\* the status of an unconflicted copy of a live parent is truthful: it was
\* read from a truthful parent, and reconcile says Ready only after the
\* latch saw the release carry rp's values
CopyTruthful == pc \in WriteSteps /\ ~stale /\ ~parent.deleting => Truthful(rp)

\* a copy whose values are not the parent's was overtaken by a spec edit,
\* which moved the generation past the persisted observedGeneration
CopyBehind ==
    pc \in WriteSteps /\ rp.values # parent.values =>
      parent.status.obsGen < parent.gen

\* what this module adds to RInv
TConj ==
    /\ StatusTruthful /\ HrDeleting /\ ObsBehind /\ CopyObsBehind
    /\ CopySync /\ CopyTruthful /\ CopyBehind

\* Inductive strengthening of StatusTruthful.
TInv == RInv /\ TConj

LEMMA TInvInit == Init => TInv
<1> SUFFICES ASSUME Init PROVE TInv
  OBVIOUS
<1>1. RInv
  BY RInvInit
<1>2. TConj
  BY DEF Init, TConj, StatusTruthful, HrDeleting, ObsBehind, CopyObsBehind,
     CopySync, CopyTruthful, CopyBehind, NoRelease, WriteSteps
<1>3. QED
  BY <1>1, <1>2 DEF TInv

\* Dispatch sends to a step that writes the status only a live-branch parent
LEMMA DispatchWrite ==
    ASSUME NEW p, p.deleting \in BOOLEAN, p.managed \in BOOLEAN,
           p.finalizer \in BOOLEAN, Dispatch(p) \in WriteSteps
    PROVE  ~p.deleting
BY DEF Dispatch, WriteSteps

\* a step that leaves the reconcile outside the status writing steps keeps
\* the conjuncts about the copy
LEMMA LeaveWrite ==
    ASSUME pc' \notin WriteSteps
    PROVE  (CopyObsBehind /\ CopySync /\ CopyTruthful /\ CopyBehind)'
BY DEF CopyObsBehind, CopySync, CopyTruthful, CopyBehind

\* a step that leaves the parent and the HelmRelease alone keeps the
\* conjuncts about the store
LEMMA StoreFrame ==
    ASSUME StatusTruthful, HrDeleting, ObsBehind, UNCHANGED <<parent, hr>>
    PROVE  (StatusTruthful /\ HrDeleting /\ ObsBehind)'
BY DEF StatusTruthful, HrDeleting, ObsBehind

LEMMA TInvStep == TInv /\ [Next]_vars => TInv'
<1> SUFFICES ASSUME TInv, [Next]_vars PROVE TConj'
  BY RInvStep DEF TInv
<1>r. /\ StatusTruthful /\ HrDeleting /\ ObsBehind /\ CopyObsBehind
      /\ CopySync /\ CopyTruthful /\ CopyBehind
  BY DEF TInv, TConj
<1>t. parent \in Parent /\ rp \in Parent /\ hr \in Release /\ repo \in Repository
  BY DEF TInv, RInv, IInv, TypeOK
<1>n. /\ pc \in {"DeleteHelmRelease", "RemoveFinalizer"} => parent.deleting
      /\ pc # "Idle" /\ ~stale => parent.exists
  BY DEF TInv, RInv, NInv
<1>1. CASE Fetch
  <2>1. UNCHANGED <<parent, hr>>
    BY <1>1 DEF Fetch, store
  <2>2. (StatusTruthful /\ HrDeleting /\ ObsBehind)'
    BY <1>r, <2>1, StoreFrame
  <2>3. CASE pc' \in WriteSteps
    <3>1. parent.exists /\ rp' = parent /\ ~stale' /\ pc' = Dispatch(parent)
      BY <1>1, <2>3 DEF Fetch, WriteSteps
    <3>2. ~parent.deleting
      BY <3>1, <2>3, <1>t, DispatchWrite DEF Parent
    <3>3. Truthful(parent)'
      BY <1>r, <2>1, <3>1, <3>2 DEF StatusTruthful, Truthful
    <3>4. QED
      BY <1>r, <2>1, <2>2, <3>1, <3>3 DEF TConj, ObsBehind, CopyObsBehind,
         CopySync, CopyTruthful, CopyBehind, Truthful
  <2>4. CASE pc' \notin WriteSteps
    BY <2>2, <2>4, LeaveWrite DEF TConj
  <2>5. QED
    BY <2>3, <2>4
<1>2. CASE DeleteHelmReleaseGone \/ Restart
  <2>1. UNCHANGED <<parent, hr>> /\ pc' \notin WriteSteps
    BY <1>2 DEF DeleteHelmReleaseGone, Restart, store, WriteSteps
  <2>2. QED
    BY <1>r, <2>1, StoreFrame, LeaveWrite DEF TConj
<1>3. CASE DeleteHelmReleaseIssue
  <2>1. UNCHANGED parent /\ pc' \notin WriteSteps /\ parent.deleting
        /\ hr'.exists = hr.exists /\ hr'.values = hr.values
    BY <1>3, <1>n, <1>t DEF DeleteHelmReleaseIssue, WriteSteps, Release
  <2>2. QED
    BY <1>r, <2>1, LeaveWrite DEF TConj, StatusTruthful, HrDeleting, ObsBehind
<1>4. CASE RemoveFinalizer \/ Unmanage
  <2>1. /\ UNCHANGED hr /\ pc' \notin WriteSteps
        /\ parent'.deleting = parent.deleting
        /\ parent'.status = parent.status /\ parent'.gen = parent.gen
        /\ parent'.values = parent.values
        /\ (parent'.exists => parent.exists)
    BY <1>4, <1>t DEF RemoveFinalizer, Unmanage, WriteSteps, Parent
  <2>2. QED
    BY <1>r, <2>1, LeaveWrite DEF TConj, StatusTruthful, HrDeleting, ObsBehind
<1>5. CASE PatchStatus
  <2>1. UNCHANGED hr /\ pc' \notin WriteSteps /\ pc = "PatchStatus"
    BY <1>5 DEF PatchStatus, WriteSteps
  <2>2. CASE ~stale /\ parent' = [parent EXCEPT !.status = rp.status]
    <3>1. rp.gen = parent.gen /\ rp.values = parent.values
          /\ rp.status.obsGen <= rp.gen
      BY <1>r, <2>1, <2>2 DEF CopySync, CopyObsBehind, WriteSteps
    <3>2. ~parent.deleting => Truthful(rp)
      BY <1>r, <2>1, <2>2 DEF CopyTruthful, WriteSteps
    <3>3. (StatusTruthful /\ HrDeleting /\ ObsBehind)'
      BY <1>r, <1>t, <2>1, <2>2, <3>1, <3>2 DEF StatusTruthful, HrDeleting,
         ObsBehind, Truthful, Parent
    <3>4. QED
      BY <2>1, <3>3, LeaveWrite DEF TConj
  <2>3. CASE UNCHANGED parent
    BY <1>r, <2>1, <2>3, StoreFrame, LeaveWrite DEF TConj
  <2>4. QED
    BY <1>5, <2>2, <2>3 DEF PatchStatus, Succeeds, Fails
<1>6. CASE MarkProgressing
  <2> DEFINE r == [rp EXCEPT !.status.obsGen = rp.gen,
                             !.status.phase = "progressing"]
  <2>1. /\ UNCHANGED <<hr, stale>> /\ rp' = r /\ pc = "MarkProgressing"
        /\ pc' \in {"ReconcileRepository", "PatchStatus"}
    BY <1>6 DEF MarkProgressing, r
  <2>b. \/ ~stale /\ parent' = [parent EXCEPT !.status = r.status]
        \/ UNCHANGED parent
    BY <1>6 DEF MarkProgressing, Succeeds, Fails, r
  <2>2. /\ r.gen = rp.gen /\ r.values = rp.values
        /\ r.status.obsGen = rp.gen /\ r.status.phase = "progressing"
    BY <1>t DEF r, Parent, Status
  <2>3. ~stale => rp.gen = parent.gen /\ rp.values = parent.values
    BY <1>r, <2>1 DEF CopySync, WriteSteps
  <2>p. /\ parent'.gen = parent.gen /\ parent'.values = parent.values
        /\ parent'.deleting = parent.deleting /\ parent'.exists = parent.exists
    BY <2>b, <1>t DEF Parent
  <2>c. (CopyObsBehind /\ CopySync /\ CopyTruthful)'
    BY <1>r, <1>t, <2>1, <2>2, <2>p DEF Parent, CopyObsBehind, CopySync, CopyTruthful,
       Truthful, WriteSteps
  <2>4. CASE ~stale /\ parent' = [parent EXCEPT !.status = r.status]
    <3>1. parent'.status = r.status
      BY <1>t, <2>4 DEF Parent
    <3>2. StatusTruthful' /\ HrDeleting'
      BY <1>r, <2>1, <2>2, <2>p, <3>1 DEF StatusTruthful, HrDeleting
    <3>3. ObsBehind' /\ CopyBehind'
      BY <1>t, <2>1, <2>2, <2>3, <2>4, <2>p, <3>1 DEF ObsBehind, CopyBehind,
         Parent
    <3>4. QED
      BY <2>c, <3>2, <3>3 DEF TConj
  <2>5. CASE UNCHANGED parent
    <3>1. (StatusTruthful /\ HrDeleting /\ ObsBehind)'
      BY <1>r, <2>1, <2>5, StoreFrame
    <3>2. CopyBehind'
      BY <1>r, <2>1, <2>2, <2>5 DEF CopyBehind, WriteSteps
    <3>3. QED
      BY <2>c, <3>1, <3>2 DEF TConj
  <2>6. QED
    BY <2>b, <2>4, <2>5
<1>7. CASE ReconcileRepository
  <2> DEFINE obj == IF repo.exists THEN repo
                    ELSE [exists |-> TRUE, fresh |-> FALSE, ready |-> FALSE]
             l == CheckIfResourceIsReady(rp.status.ready["HelmRepository"], obj)
  <2>1. /\ UNCHANGED <<parent, hr, stale>> /\ pc = "ReconcileRepository"
        /\ pc' \in WriteSteps
    BY <1>7 DEF ReconcileRepository, WriteSteps
  <2>2. \/ rp' = rp
        \/ rp' = [rp EXCEPT !.status.ready["HelmRepository"] = l.next,
                            !.status.phase = IF l.ok THEN @ ELSE "notready"]
    BY <1>7 DEF ReconcileRepository, obj, l
  <2>3. /\ rp'.gen = rp.gen /\ rp'.values = rp.values
        /\ rp'.status.obsGen = rp.status.obsGen
        /\ rp'.status.phase \in {rp.status.phase, "notready"}
    <3>1. CASE rp' = rp
      BY <3>1
    <3>2. CASE rp' = [rp EXCEPT !.status.ready["HelmRepository"] = l.next,
                                !.status.phase = IF l.ok THEN @ ELSE "notready"]
      <4> DEFINE ph == IF l.ok THEN rp.status.phase ELSE "notready"
                 st == [rp.status EXCEPT !.ready["HelmRepository"] = l.next,
                                         !.phase = ph]
      <4>1. rp' = [rp EXCEPT !.status = st]
        BY <3>2 DEF st, ph
      <4>2. st.obsGen = rp.status.obsGen /\ st.phase = ph
        BY <1>t DEF st, Parent, Status
      <4>3. QED
        BY <4>1, <4>2, <1>t DEF Parent, ph
    <3>3. QED
      BY <2>2, <3>1, <3>2
  <2>4. QED
    BY <1>r, <2>1, <2>2, <2>3 DEF TConj, StatusTruthful, HrDeleting, ObsBehind,
       CopyObsBehind, CopySync, CopyTruthful, CopyBehind, Truthful, WriteSteps
<1>8. CASE ReconcileRelease
  <2> DEFINE create == rp.status.release = NoName \/ ~hr.exists
             created == create /\ ~hr.exists
             update == ~create /\ RequiresUpdate(hr, rp)
             ob == Observed(hr, created, update)
             l == CheckIfResourceIsReady(rp.status.ready["HelmRelease"], ob)
             HH == CASE created -> [NoRelease EXCEPT !.exists = TRUE,
                                                     !.values = rp.values]
                     [] update -> [hr EXCEPT !.values = rp.values,
                                             !.fresh = FALSE]
                     [] OTHER -> hr
             RR == [rp EXCEPT
                      !.status.release = IF create \/ update THEN HRName ELSE @,
                      !.status.ready["HelmRelease"] = l.next,
                      !.status.phase = IF l.ok THEN "ready" ELSE "notready"]
  <2>0. UNCHANGED <<parent, stale>> /\ pc = "ReconcileRelease"
        /\ pc' = "PatchStatus"
    BY <1>8 DEF ReconcileRelease
  <2>1. \/ hr' = HH /\ rp' = RR
        \/ hr' = hr /\ (rp' = rp \/ rp' = [rp EXCEPT !.status.release = NoName])
    BY <1>8 DEF ReconcileRelease, create, created, update, ob, l, HH, RR,
       Succeeds, Fails
  <2>2. /\ created => HH.exists /\ HH.values = rp.values /\ ~HH.deleting
        /\ ~created /\ update => HH.exists /\ HH.values = rp.values
                                 /\ HH.deleting = hr.deleting
        /\ ~created /\ ~update => HH = hr
    <3>1. ~(created /\ update)
      BY DEF created, update
    <3>2. QED
      BY <3>1, <1>t DEF HH, NoRelease, Release
  <2>3. l.ok => hr' = hr /\ hr.exists /\ hr.values = rp.values
    <3>1. l.ok => ob.fresh /\ ob.ready
      BY DEF l, CheckIfResourceIsReady
    <3>2. ob.fresh /\ ob.ready => ~created /\ ~update /\ ~create
      BY DEF ob, Observed, create, created, update
    <3>3. ~create /\ ~update => hr.exists /\ hr.values = rp.values
      BY DEF create, update, RequiresUpdate
    <3>4. QED
      BY <2>1, <2>2, <3>1, <3>2, <3>3
  <2> DEFINE st == [rp.status EXCEPT
                      !.release = IF create \/ update THEN HRName ELSE @,
                      !.ready["HelmRelease"] = l.next,
                      !.phase = IF l.ok THEN "ready" ELSE "notready"]
  <2>a. RR = [rp EXCEPT !.status = st]
    BY DEF RR, st
  <2>b. /\ st.obsGen = rp.status.obsGen
        /\ st.phase = IF l.ok THEN "ready" ELSE "notready"
    BY <1>t DEF st, Parent, Status
  <2>c. /\ RR.gen = rp.gen /\ RR.values = rp.values
        /\ RR.status.obsGen = rp.status.obsGen
        /\ RR.status.phase = IF l.ok THEN "ready" ELSE "notready"
    BY <2>a, <2>b, <1>t DEF Parent
  <2>d. /\ [rp EXCEPT !.status.release = NoName].gen = rp.gen
        /\ [rp EXCEPT !.status.release = NoName].values = rp.values
        /\ [rp EXCEPT !.status.release = NoName].status.obsGen = rp.status.obsGen
        /\ [rp EXCEPT !.status.release = NoName].status.phase = rp.status.phase
    <3> DEFINE st2 == [rp.status EXCEPT !.release = NoName]
    <3>1. [rp EXCEPT !.status.release = NoName] = [rp EXCEPT !.status = st2]
      BY DEF st2
    <3>2. st2.obsGen = rp.status.obsGen /\ st2.phase = rp.status.phase
      BY <1>t DEF st2, Parent, Status
    <3>3. QED
      BY <3>1, <3>2, <1>t DEF Parent
  <2>4. /\ rp'.gen = rp.gen /\ rp'.values = rp.values
        /\ rp'.status.obsGen = rp.status.obsGen
    BY <2>1, <2>c, <2>d
  <2>e. l.ok \in BOOLEAN
    <3>1. ob.fresh \in BOOLEAN /\ ob.ready \in BOOLEAN
      <4>1. hr.fresh \in BOOLEAN /\ hr.ready \in BOOLEAN
        BY <1>t DEF Release
      <4>2. CASE created
        BY <4>2 DEF ob, Observed
      <4>3. CASE ~created /\ hr.exists /\ rp.status.release = NoName
        BY <4>3 DEF ob, Observed
      <4>4. CASE ~created /\ ~(hr.exists /\ rp.status.release = NoName) /\ update
        BY <4>1, <4>4 DEF ob, Observed
      <4>5. CASE ~created /\ ~(hr.exists /\ rp.status.release = NoName) /\ ~update
        BY <4>1, <4>5 DEF ob, Observed
      <4>6. QED
        BY <4>2, <4>3, <4>4, <4>5
    <3>2. rp.status.ready["HelmRelease"] \in TriState
      BY <1>t DEF Parent, Status, Kinds
    <3>3. QED
      BY <3>1, <3>2, LatchType DEF l
  <2>5. rp' = RR /\ rp'.status.phase = "ready" => l.ok
    <3>1. RR.status.phase = "ready" => l.ok
      <4>1. CASE l.ok
        BY <4>1
      <4>2. CASE ~l.ok
        <5>1. RR.status.phase = "notready"
          BY <4>2, <2>c
        <5>2. QED
          BY <5>1
      <4>3. QED
        BY <4>1, <4>2, <2>e
    <3>2. QED
      BY <3>1
  <2>6. rp' # RR => hr' = hr /\ rp'.status.phase = rp.status.phase
    BY <2>1, <2>d
  <2>7. StatusTruthful'
    <3>1. hr' = hr \/ (hr'.exists /\ hr'.values = rp.values)
      BY <2>1, <2>2
    <3>2. QED
      BY <3>1, <1>r, <1>t, <2>0 DEF StatusTruthful, CopyBehind, WriteSteps,
         Parent, Status
  <2>8. HrDeleting'
    <3>1. hr' = hr \/ ~hr'.deleting \/ hr'.deleting = hr.deleting
      BY <2>1, <2>2
    <3>2. QED
      BY <3>1, <1>r, <2>0 DEF HrDeleting
  <2>9. CopyTruthful'
    <3>1. CASE rp' = RR
      BY <3>1, <2>0, <2>3, <2>4, <2>5 DEF CopyTruthful, Truthful
    <3>2. CASE rp' # RR
      BY <3>2, <1>r, <2>0, <2>4, <2>6 DEF CopyTruthful, Truthful, WriteSteps
    <3>3. QED
      BY <3>1, <3>2
  <2>10. QED
    BY <1>r, <2>0, <2>4, <2>7, <2>8, <2>9 DEF TConj, ObsBehind,
       CopyObsBehind, CopySync, CopyBehind, WriteSteps
<1>9. CASE AddFinalizer
  <2>1. UNCHANGED hr /\ pc = "AddFinalizer"
    BY <1>9 DEF AddFinalizer
  <2>2. CASE /\ parent.exists /\ parent' = [parent EXCEPT !.finalizer = TRUE]
             /\ rp' = parent' /\ ~stale'
    <3>1. /\ parent'.gen = parent.gen /\ parent'.values = parent.values
          /\ parent'.deleting = parent.deleting /\ parent'.exists
          /\ parent'.status = parent.status
      BY <1>t, <2>2 DEF Parent
    <3>2. QED
      BY <1>r, <2>1, <2>2, <3>1 DEF TConj, StatusTruthful, HrDeleting,
         ObsBehind, CopyObsBehind, CopySync, CopyTruthful, CopyBehind,
         Truthful
  <2>3. CASE UNCHANGED parent /\ pc' = "Idle"
    BY <1>r, <2>1, <2>3, StoreFrame, LeaveWrite DEF TConj, WriteSteps
  <2>4. QED
    BY <1>9, <2>2, <2>3 DEF AddFinalizer, Succeeds, Fails
<1>10. CASE EditSpec
  <2>1. /\ UNCHANGED <<hr, pc, rp>> /\ stale'
        /\ parent'.status = parent.status /\ parent'.gen = parent.gen + 1
        /\ parent'.deleting = parent.deleting
    BY <1>10, <1>t DEF EditSpec, UserWrite, Parent
  <2>2. parent.status.obsGen <= parent.gen /\ parent.gen \in Nat
        /\ parent.status.obsGen \in Nat
    BY <1>r, <1>t DEF ObsBehind, Parent, Status
  <2>3. parent'.status.obsGen < parent'.gen
    BY <2>1, <2>2
  <2>4. QED
    BY <1>r, <2>1, <2>2, <2>3 DEF TConj, StatusTruthful, HrDeleting, ObsBehind,
       CopyObsBehind, CopySync, CopyTruthful, CopyBehind
<1>15. CASE RequestDelete \/ SetManaged
  <2>1. /\ UNCHANGED <<hr, pc, rp>> /\ stale'
        /\ parent'.status = parent.status /\ parent'.gen = parent.gen
        /\ parent'.values = parent.values
        /\ (parent'.deleting \/ UNCHANGED <<parent.deleting, parent.exists>>)
    BY <1>15, <1>t DEF RequestDelete, SetManaged, UserWrite, Parent
  <2>2. QED
    BY <1>r, <2>1 DEF TConj, StatusTruthful, HrDeleting, ObsBehind,
       CopyObsBehind, CopySync, CopyTruthful, CopyBehind
<1>11. CASE FluxReconcileRepository \/ FluxReconcileRelease \/ FluxFails
  <2>1. /\ UNCHANGED <<parent, pc, rp, stale>>
        /\ hr'.exists = hr.exists /\ hr'.values = hr.values
        /\ hr'.deleting = hr.deleting
    BY <1>11, <1>t DEF FluxReconcileRepository, FluxReconcileRelease,
       FluxFails, EnvStep, Release
  <2>2. QED
    BY <1>r, <2>1 DEF TConj, StatusTruthful, HrDeleting, ObsBehind,
       CopyObsBehind, CopySync, CopyTruthful, CopyBehind, Truthful
<1>12. CASE FinishReleaseDeletion \/ GarbageCollect
  <2>1. /\ UNCHANGED <<parent, pc, rp, stale>> /\ ~hr'.deleting
        /\ (parent.deleting \/ ~parent.exists)
    BY <1>12, <1>r DEF FinishReleaseDeletion, GarbageCollect, EnvStep,
       NoRelease, HrDeleting
  <2>2. pc \in WriteSteps /\ ~stale => parent.deleting
    BY <1>n, <2>1 DEF WriteSteps
  <2>3. QED
    BY <1>r, <2>1, <2>2 DEF TConj, StatusTruthful, HrDeleting, ObsBehind,
       CopyObsBehind, CopySync, CopyTruthful, CopyBehind
<1>13. CASE UNCHANGED vars
  BY <1>r, <1>13 DEF vars, TConj, StatusTruthful, HrDeleting, ObsBehind,
     CopyObsBehind, CopySync, CopyTruthful, CopyBehind, Truthful
<1>14. QED
  BY <1>1, <1>2, <1>3, <1>4, <1>5, <1>6, <1>7, <1>8, <1>9, <1>10, <1>11,
     <1>12, <1>13, <1>15 DEF Next, Reconciler, User, Environment

\* A Ready status is truthful for every bound (reconcile,
\* reconcileHelmRelease, patchRedpandaStatus): in every reachable state, a live
\* parent whose persisted status is Ready for its current generation has a
\* HelmRelease that exists and carries that generation's values.
THEOREM StatusTruthfulHolds == Spec => []StatusTruthful
<1>1. Spec => []TInv
  BY TInvInit, TInvStep, PTL DEF Spec
<1>2. TInv => StatusTruthful
  BY DEF TInv, TConj
<1>3. QED
  BY <1>1, <1>2, PTL

=============================================================================
