--------------------------- MODULE MigrationEngine ---------------------------
(***************************************************************************)
(* tryMigration of                                                         *)
(* src/go/k8s/internal/controller/redpanda/redpanda_controller.go: the     *)
(* hand-over of a cluster deployed by the legacy (vectorized) operator to  *)
(* the Helm release of the Redpanda parent.  Reconcile calls it on every   *)
(* reconcile while spec.migration.enabled is set, and only logs its error, *)
(* so a migration pass is a fixed sequence of independent steps, each a    *)
(* Get followed, when the object still carries legacy markings, by one     *)
(* Update or Delete.  Each store call may fail transiently, and the        *)
(* operator may restart mid-pass (MaxFaults bounds both).                  *)
(*                                                                         *)
(* Between the calls of a pass the legacy Cluster and Console controllers  *)
(* keep reconciling for as long as their objects are still managed, and    *)
(* the helm controller installs the release as soon as no object of the    *)
(* chart is left with legacy ownership (Helm refuses to take over an       *)
(* object that lacks its ownership labels and annotations).                *)
(***************************************************************************)
EXTENDS Naturals, Sequences

CONSTANTS
    Pods,            \* the pods the List by instance/name labels returns
    ConsoleEnabled,  \* ptr.Deref(rp.Spec.ClusterSpec.Console.Enabled, true)
    MaxFaults        \* bound on failed store calls and restarts

ASSUME MigrationAssumptions ==
    /\ ConsoleEnabled \in BOOLEAN
    /\ MaxFaults \in Nat

\* the named objects of the chart that tryMigration inspects: the internal
\* and external Service, ServiceAccount, PodDisruptionBudget, StatefulSet,
\* and with the console its ServiceAccount, Service, Deployment and Ingress
DataObjects == {"svc", "extsvc", "sa", "pdb", "sts"}
ConsoleObjects == {"consolesa", "consolesvc", "deploy", "ingress"}
Objects == DataObjects \cup (IF ConsoleEnabled THEN ConsoleObjects ELSE {})

\* absent (Get: NotFound), legacy (hasLabelsAndAnnotations is FALSE, or for
\* the Services the selector differs), adopted (Helm's labels, annotations
\* and selector)
ObjStates == {"absent", "legacy", "adopted"}

\* the calls of one pass, in the order of tryMigration; "podloop" is the
\* range over the listed pods
Order == <<"cluster", "console", "pods", "podloop", "svc", "extsvc", "sa",
           "pdb", "sts">>
         \o (IF ConsoleEnabled
             THEN <<"consolesa", "consolesvc", "deploy", "ingress">>
             ELSE <<>>)

\* the objects adopted by an Update of their labels and annotations
Relabelled == Objects \ {"sts", "deploy"}

PodState == [component : BOOLEAN, finalizer : BOOLEAN]

VARIABLES
    obj,                \* state of each object of the chart
    clusterManaged,     \* the Cluster's managed annotation is not "false"
    consoleManaged,     \* the Console's managed annotation is not "false"
    consoleFinalizers,  \* the Console carries the SA or ACL finalizer
    pods,               \* the component label and finalizer of each pod
    pc,                 \* 0: no pass running, else the index in Order
    todo,               \* listed pods the loop has not reached yet
    touched,            \* pods written by someone else since the List
    stsAdopted,         \* the local sts holds an adopted StatefulSet
    installed,          \* the helm controller has installed the release
    faults

vars == <<obj, clusterManaged, consoleManaged, consoleFinalizers, pods, pc,
          todo, touched, stsAdopted, installed, faults>>

TypeOK ==
    /\ obj \in [Objects -> ObjStates]
    /\ clusterManaged \in BOOLEAN
    /\ consoleManaged \in BOOLEAN
    /\ consoleFinalizers \in BOOLEAN
    /\ pods \in [Pods -> PodState]
    /\ pc \in 0..Len(Order)
    /\ todo \subseteq Pods
    /\ touched \subseteq Pods
    /\ stsAdopted \in BOOLEAN
    /\ installed \in BOOLEAN
    /\ faults \in 0..MaxFaults

\* a legacy deployment: the objects of the chart exist with legacy
\* markings, the StatefulSet and the console Deployment perhaps not (their
\* controllers are recreating them), pods in any state, the Console with or
\* without the finalizers its controller adds, nothing handed over yet
Init ==
    /\ obj \in {f \in [Objects -> {"absent", "legacy"}] :
                \A o \in Relabelled : f[o] = "legacy"}
    /\ clusterManaged = TRUE
    /\ consoleManaged = TRUE
    /\ consoleFinalizers \in BOOLEAN
    /\ pods \in [Pods -> PodState]
    /\ pc = 0
    /\ todo = {}
    /\ touched = {}
    /\ stsAdopted = FALSE
    /\ installed = FALSE
    /\ faults = 0

-----------------------------------------------------------------------------
(* One pass of tryMigration.                                               *)

Step == IF pc = 0 THEN "none" ELSE Order[pc]

\* the next call of the pass; the pass ends after the last
Advance == pc' = IF pc = Len(Order) THEN 0 ELSE pc + 1

\* a Get, Update, List or Delete fails; errors.Join records it and the pass
\* goes on
Fault == faults < MaxFaults /\ faults' = faults + 1

Same == UNCHANGED <<obj, clusterManaged, consoleManaged, consoleFinalizers,
                    pods, todo, touched, stsAdopted, installed>>

\* Reconcile calls tryMigration (migration enabled)
StartPass ==
    /\ pc = 0
    /\ pc' = 1
    /\ stsAdopted' = FALSE
    /\ UNCHANGED <<obj, clusterManaged, consoleManaged, consoleFinalizers,
                   pods, todo, touched, installed, faults>>

\* Get the Cluster; if isRedpandaClusterManaged, Update it with
\* disableRedpandaReconciliation
MigrateCluster ==
    /\ Step = "cluster"
    /\ Advance
    /\ \/ Fault /\ Same
       \/ /\ UNCHANGED faults
          /\ clusterManaged' = FALSE
          /\ UNCHANGED <<obj, consoleManaged, consoleFinalizers, pods, todo,
                         touched, stsAdopted, installed>>

\* Get the Console; if managed or carrying the SA or ACL finalizer, Update
\* it with disableConsoleReconciliation and both finalizers removed
MigrateConsole ==
    /\ Step = "console"
    /\ Advance
    /\ \/ Fault /\ Same
       \/ /\ UNCHANGED faults
          /\ consoleManaged' = FALSE
          /\ consoleFinalizers' = FALSE
          /\ UNCHANGED <<obj, clusterManaged, pods, todo, touched,
                         stsAdopted, installed>>

\* a listed pod the loop skips: component label redpanda-statefulset and no
\* operator finalizer
Migrated(p) == pods[p].component /\ ~pods[p].finalizer

\* mutant: the skip test drops the finalizer conjunct
ListPodsIgnoresFinalizer ==
    /\ Step = "pods"
    /\ Advance
    /\ touched' = {}
    /\ \/ Fault /\ todo' = {}
       \/ UNCHANGED faults /\ todo' = {p \in Pods : ~pods[p].component}
    /\ UNCHANGED <<obj, clusterManaged, consoleManaged, consoleFinalizers,
                   pods, stsAdopted, installed>>

\* List the pods by instance and name labels; a failed List leaves pl empty
ListPods ==
    /\ Step = "pods"
    /\ Advance
    /\ touched' = {}
    /\ \/ Fault /\ todo' = {}
       \/ UNCHANGED faults /\ todo' = {p \in Pods : ~Migrated(p)}
    /\ UNCHANGED <<obj, clusterManaged, consoleManaged, consoleFinalizers,
                   pods, stsAdopted, installed>>

\* one iteration: Update the listed copy with the component label set and
\* the finalizer removed; it conflicts if the pod was written since the List
UpdatePod ==
    /\ Step = "podloop"
    /\ \E p \in todo :
         /\ todo' = todo \ {p}
         /\ \/ Fault /\ UNCHANGED pods
            \/ /\ p \in touched
               /\ UNCHANGED <<pods, faults>>
            \/ /\ p \notin touched
               /\ UNCHANGED faults
               /\ pods' = [pods EXCEPT ![p] = [component |-> TRUE,
                                               finalizer |-> FALSE]]
    /\ UNCHANGED <<pc, obj, clusterManaged, consoleManaged,
                   consoleFinalizers, touched, stsAdopted, installed>>

\* the range over the listed pods ends
EndPodLoop ==
    /\ Step = "podloop"
    /\ todo = {}
    /\ Advance
    /\ UNCHANGED <<faults>>
    /\ Same

\* one object of the chart: Get it, and if its labels, annotations (or a
\* Service's selector) are not Helm's, setHelmLabelsAndAnnotations and
\* Update; the pass goes on whether the Get or the Update failed
RelabelCall ==
    /\ Advance
    /\ \/ Fault /\ Same
       \/ /\ UNCHANGED faults
          /\ obj' = [obj EXCEPT ![Step] = IF @ = "legacy" THEN "adopted" ELSE @]
          /\ UNCHANGED <<clusterManaged, consoleManaged, consoleFinalizers,
                         pods, todo, touched, stsAdopted, installed>>

\* the internal Service (and its selector), the external Service, the
\* ServiceAccount and the PodDisruptionBudget
Relabel ==
    /\ Step \in Relabelled \cap DataObjects
    /\ RelabelCall

\* with the console enabled: its ServiceAccount, its Service (and selector)
\* and its Ingress
RelabelConsole ==
    /\ Step \in Relabelled \cap ConsoleObjects
    /\ RelabelCall

\* Get the StatefulSet into the local sts; if it lacks Helm's markings,
\* Delete it with orphan propagation.  A failed Get (NotFound included)
\* leaves sts the zero value, which has no labels.
MigrateSts ==
    /\ Step = "sts"
    /\ Advance
    /\ \/ Fault /\ Same
       \/ /\ UNCHANGED faults
          /\ stsAdopted' = (obj["sts"] = "adopted")
          /\ obj' = [obj EXCEPT !["sts"] = IF @ = "legacy" THEN "absent" ELSE @]
          /\ UNCHANGED <<clusterManaged, consoleManaged, consoleFinalizers,
                         pods, todo, touched, installed>>

\* Get the console Deployment; Delete it when hasLabelsAndAnnotations(&sts)
\* is FALSE: the test reads the StatefulSet fetched above, not the
\* Deployment
MigrateDeploy ==
    /\ Step = "deploy"
    /\ Advance
    /\ \/ Fault /\ Same
       \/ /\ UNCHANGED faults
          /\ obj' = [obj EXCEPT !["deploy"] =
                       IF @ # "absent" /\ ~stsAdopted THEN "absent" ELSE @]
          /\ UNCHANGED <<clusterManaged, consoleManaged, consoleFinalizers,
                         pods, todo, touched, stsAdopted, installed>>

\* the operator restarts mid-pass; the next reconcile starts a new pass
Restart ==
    /\ pc # 0
    /\ Fault
    /\ pc' = 0
    /\ todo' = {}
    /\ UNCHANGED <<obj, clusterManaged, consoleManaged, consoleFinalizers,
                   pods, touched, stsAdopted, installed>>

Migration ==
    \/ StartPass \/ MigrateCluster \/ MigrateConsole \/ ListPods
    \/ UpdatePod \/ EndPodLoop \/ Relabel \/ RelabelConsole \/ MigrateSts
    \/ MigrateDeploy
    \/ Restart

-----------------------------------------------------------------------------
(* The other actors.                                                       *)

\* the legacy Cluster controller, while the Cluster is managed, recreates a
\* missing StatefulSet of its own and puts the operator finalizer on pods
LegacyClusterReconcile ==
    /\ clusterManaged
    /\ \/ /\ obj["sts"] = "absent"
          /\ obj' = [obj EXCEPT !["sts"] = "legacy"]
          /\ UNCHANGED <<pods, touched>>
       \/ \E p \in Pods :
            /\ ~pods[p].finalizer
            /\ pods' = [pods EXCEPT ![p].finalizer = TRUE]
            /\ touched' = touched \cup {p}
            /\ UNCHANGED obj
    /\ UNCHANGED <<clusterManaged, consoleManaged, consoleFinalizers, pc,
                   todo, stsAdopted, installed, faults>>

\* the legacy Console controller, while the Console is managed, puts its
\* finalizers back and recreates a missing Deployment of its own
LegacyConsoleReconcile ==
    /\ consoleManaged
    /\ \/ /\ ~consoleFinalizers
          /\ consoleFinalizers' = TRUE
          /\ UNCHANGED obj
       \/ /\ "deploy" \in Objects
          /\ obj["deploy"] = "absent"
          /\ obj' = [obj EXCEPT !["deploy"] = "legacy"]
          /\ UNCHANGED consoleFinalizers
    /\ UNCHANGED <<clusterManaged, consoleManaged, pods, pc, todo, touched,
                   stsAdopted, installed, faults>>

\* the helm controller installs the release once no object of the chart
\* has legacy markings: it creates the missing ones and owns all of them
HelmInstall ==
    /\ ~installed
    /\ \A o \in Objects : obj[o] # "legacy"
    /\ installed' = TRUE
    /\ obj' = [o \in Objects |-> "adopted"]
    /\ UNCHANGED <<clusterManaged, consoleManaged, consoleFinalizers, pods,
                   pc, todo, touched, stsAdopted, faults>>

Next ==
    \/ Migration
    \/ LegacyClusterReconcile \/ LegacyConsoleReconcile \/ HelmInstall

\* Reconcile runs again after every RequeueAfter, error and resync, and
\* calls tryMigration each time, so the pass is weakly fair; so is the helm
\* controller's retry.  The legacy controllers need no fairness.
Spec == Init /\ [][Next]_vars /\ WF_vars(Migration) /\ WF_vars(HelmInstall)

-----------------------------------------------------------------------------
(* Properties.                                                             *)

\* Migration converges (tryMigration, every step): whatever the transient
\* failures, restarts and the legacy controllers do, the passes eventually
\* disable both legacy controllers, migrate every pod, and the release is
\* installed owning every object of the chart but the console Deployment.
MigrationConverges ==
    <>[](/\ ~clusterManaged /\ ~consoleManaged /\ ~consoleFinalizers
         /\ \A p \in Pods : Migrated(p)
         /\ installed
         /\ \A o \in Objects \ {"deploy"} : obj[o] = "adopted")

(* Statements of the spec (spec.md 4.4, step 8) that the code does not     *)
(* keep; each is checked by a run that expects a violation.                *)

\* The console Deployment is deleted only when it lacks Helm's markings: a
\* Deployment the release owns is never deleted by a pass.
AdoptedDeploymentKept ==
    [][obj["deploy"] = "adopted" => obj'["deploy"] = "adopted"]_vars

\* A console Deployment with legacy markings is eventually removed (for
\* Helm to recreate).
LegacyDeploymentRemoved ==
    <>[](obj["deploy"] # "legacy")

=============================================================================
