-------------------------- MODULE RedpandaLifecycle --------------------------
(***************************************************************************)
(* What the Redpanda reconciler promises about the objects it manages, as  *)
(* the store sees them: the parent's existence, deletion request, managed  *)
(* annotation and finalizer, whether its persisted status records a        *)
(* HelmRelease, and whether the HelmRepository and the HelmRelease exist.  *)
(* Each change is one atomic step; the reconcile that makes it, its store  *)
(* calls and its in-memory state are hidden.  Spec changes, readiness and  *)
(* the values of the HelmRelease are not visible here.                     *)
(*                                                                         *)
(* The promises (spec.md 3 and 8): the dependents are created only for a   *)
(* parent that exists and holds the finalizer, the HelmRepository first;   *)
(* the HelmRelease is deleted only once deletion was requested; the        *)
(* finalizer of a parent under deletion goes only when the recorded        *)
(* HelmRelease is gone (or none is recorded), and that of a live parent    *)
(* only when it is unmanaged; a parent under deletion is eventually gone.  *)
(***************************************************************************)

VARIABLES
    exists,           \* the parent is in the store
    deleting,         \* its deletionTimestamp is set
    managed,          \* its managed annotation is not "false"
    finalizer,        \* it carries operator.redpanda.com/finalizer
    recorded,         \* its persisted status names a HelmRelease
    repository,       \* the HelmRepository exists
    release,          \* the HelmRelease exists
    releaseDeleting   \* the HelmRelease's foreground deletion is under way

vars == <<exists, deleting, managed, finalizer, recorded, repository,
          release, releaseDeleting>>

TypeOK ==
    /\ exists \in BOOLEAN /\ deleting \in BOOLEAN /\ managed \in BOOLEAN
    /\ finalizer \in BOOLEAN /\ recorded \in BOOLEAN
    /\ repository \in BOOLEAN /\ release \in BOOLEAN
    /\ releaseDeleting \in BOOLEAN

\* a freshly created parent, nothing deployed yet
Init ==
    /\ exists = TRUE /\ deleting = FALSE /\ managed = TRUE
    /\ finalizer = FALSE /\ recorded = FALSE
    /\ repository = FALSE /\ release = FALSE /\ releaseDeleting = FALSE

\* the user requests deletion; without finalizers the parent goes at once
RequestDeletion ==
    /\ exists /\ ~deleting
    /\ deleting' = TRUE
    /\ exists' = finalizer
    /\ UNCHANGED <<managed, finalizer, recorded, repository, release,
                   releaseDeleting>>

\* the user sets the managed annotation to "false" or back
ToggleManaged ==
    /\ exists /\ ~deleting
    /\ managed' = ~managed
    /\ UNCHANGED <<exists, deleting, finalizer, recorded, repository,
                   release, releaseDeleting>>

AddFinalizer ==
    /\ exists
    /\ finalizer' = TRUE
    /\ UNCHANGED <<exists, deleting, managed, recorded, repository, release,
                   releaseDeleting>>

\* the status of a live parent is written; it may record a HelmRelease or not
RecordStatus ==
    /\ exists
    /\ recorded' \in BOOLEAN
    /\ UNCHANGED <<exists, deleting, managed, finalizer, repository, release,
                   releaseDeleting>>

CreateRepository ==
    /\ exists /\ finalizer /\ ~repository
    /\ repository' = TRUE
    /\ UNCHANGED <<exists, deleting, managed, finalizer, recorded, release,
                   releaseDeleting>>

CreateRelease ==
    /\ exists /\ finalizer /\ repository /\ ~release
    /\ release' = TRUE
    /\ releaseDeleting' = FALSE
    /\ UNCHANGED <<exists, deleting, managed, finalizer, recorded, repository>>

DeleteRelease ==
    /\ deleting /\ release
    /\ releaseDeleting' = TRUE
    /\ UNCHANGED <<exists, deleting, managed, finalizer, recorded, repository,
                   release>>

ReleaseGone ==
    /\ releaseDeleting
    /\ release' = FALSE
    /\ releaseDeleting' = FALSE
    /\ UNCHANGED <<exists, deleting, managed, finalizer, recorded, repository>>

\* the finalizer of a parent under deletion is removed and the parent goes
RemoveFinalizer ==
    /\ deleting
    /\ ~recorded \/ ~release
    /\ finalizer' = FALSE
    /\ exists' = FALSE
    /\ UNCHANGED <<deleting, managed, recorded, repository, release,
                   releaseDeleting>>

\* the finalizer of a live parent that is no longer managed is removed
ReleaseFinalizer ==
    /\ exists /\ ~deleting /\ ~managed
    /\ finalizer' = FALSE
    /\ UNCHANGED <<exists, deleting, managed, recorded, repository, release,
                   releaseDeleting>>

\* the owned objects of a parent that is gone are garbage collected
Collect ==
    /\ ~exists
    /\ repository \/ release
    /\ repository' = FALSE
    /\ release' = FALSE
    /\ releaseDeleting' = FALSE
    /\ UNCHANGED <<exists, deleting, managed, finalizer, recorded>>

\* the steps that take a parent under deletion to its end
Deletion == DeleteRelease \/ ReleaseGone \/ RemoveFinalizer \/ Collect

Next ==
    \/ RequestDeletion \/ ToggleManaged \/ AddFinalizer \/ RecordStatus
    \/ CreateRepository \/ CreateRelease \/ ReleaseFinalizer \/ Deletion

SafetySpec == Init /\ [][Next]_vars

\* deletion is not left half done: the reconciler retries reconcileDelete,
\* helm finishes the foreground deletion and the garbage collector runs
Spec == SafetySpec /\ WF_vars(Deletion)

=============================================================================
