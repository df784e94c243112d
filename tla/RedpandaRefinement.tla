------------------------- MODULE RedpandaRefinement -------------------------
(***************************************************************************)
(* The reconciler of RedpandaReconciler implements RedpandaLifecycle.  The *)
(* refinement mapping reads the abstract state off the store: the parent's *)
(* flags, whether its persisted status names a HelmRelease, and whether    *)
(* the HelmRepository and the HelmRelease exist.  The reconciler's pc, its *)
(* in-memory copy, the conflict flag, the readiness fields, generations    *)
(* and values are hidden: every step that only changes those is a stutter  *)
(* of the abstract specification.                                          *)
(***************************************************************************)
EXTENDS RedpandaReconciler

Lifecycle == INSTANCE RedpandaLifecycle WITH
    exists <- parent.exists,
    deleting <- parent.deleting,
    managed <- parent.managed,
    finalizer <- parent.finalizer,
    recorded <- parent.status.release # NoName,
    repository <- repo.exists,
    release <- hr.exists,
    releaseDeleting <- hr.deleting

\* Refinement (Reconcile, reconcileDelete, reconcileHelmRepository,
\* reconcileHelmRelease, patchRedpandaStatus): every behaviour of the
\* reconciler, with the user, flux, the garbage collector, conflicts,
\* faults and restarts, is a behaviour of the lifecycle the spec promises,
\* deletion included.
ImplementsLifecycle == Lifecycle!Spec

=============================================================================
