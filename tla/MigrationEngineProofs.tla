------------------------ MODULE MigrationEngineProofs ------------------------
(***************************************************************************)
(* Proof that the migration model of tryMigration stays well typed, for    *)
(* every set of pods, either console setting and every fault bound.        *)
(*                                                                         *)
(* The pass position is bounded by the length of Order, which OrderLen     *)
(* gives for both console settings; every write of a marking goes through  *)
(* ObjWrite, which also covers a name outside the chart (the console       *)
(* objects without the console).                                           *)
(***************************************************************************)
EXTENDS MigrationEngine, TLAPS

\* the StatefulSet is an object of the chart, whatever the console setting
LEMMA StsIsObject == "sts" \in Objects /\ "deploy" # "sts"
BY DEF Objects, DataObjects

-----------------------------------------------------------------------------
(* Type correctness.                                                       *)

\* a pass has nine calls, thirteen with the console
LEMMA OrderLen ==
    /\ Len(Order) = IF ConsoleEnabled THEN 13 ELSE 9
    /\ Len(Order) \in Nat /\ Len(Order) >= 9
<1>1. CASE ConsoleEnabled
  BY <1>1 DEF Order
<1>2. CASE ~ConsoleEnabled
  BY <1>2 DEF Order
<1>3. QED
  BY <1>1, <1>2

\* Advance keeps the pass position within Order
LEMMA AdvanceType ==
    ASSUME pc \in 0..Len(Order), Advance
    PROVE  pc' \in 0..Len(Order)
BY OrderLen DEF Advance

\* writing one object of the chart with a state keeps obj typed; a name
\* outside the chart (the console Deployment without the console) leaves
\* obj as it is
LEMMA ObjWrite ==
    ASSUME obj \in [Objects -> ObjStates], NEW k, NEW v,
           k \in Objects => v \in ObjStates
    PROVE  [obj EXCEPT ![k] = v] \in [Objects -> ObjStates]
<1>1. CASE k \in Objects
  BY <1>1
<1>2. CASE k \notin Objects
  BY <1>2
<1>3. QED
  BY <1>1, <1>2

LEMMA TypeInit == Init => TypeOK
<1> SUFFICES ASSUME Init PROVE TypeOK
  OBVIOUS
<1>1. obj \in [Objects -> ObjStates]
  BY DEF Init, ObjStates
<1>2. pc \in 0..Len(Order) /\ faults \in 0..MaxFaults
  BY OrderLen, MigrationAssumptions DEF Init
<1>3. QED
  BY <1>1, <1>2 DEF Init, TypeOK

\* every call of a pass, a restart and the other actors keep the type
LEMMA TypeStep == TypeOK /\ [Next]_vars => TypeOK'
<1> SUFFICES ASSUME TypeOK, [Next]_vars PROVE TypeOK'
  OBVIOUS
<1>o. obj \in [Objects -> ObjStates] /\ pc \in 0..Len(Order)
      /\ pods \in [Pods -> PodState] /\ faults \in 0..MaxFaults
  BY DEF TypeOK
<1>f. Fault => faults' \in 0..MaxFaults
  BY <1>o, MigrationAssumptions DEF Fault
<1>1. CASE StartPass
  <2>1. pc' \in 0..Len(Order)
    BY <1>1, OrderLen DEF StartPass
  <2>2. QED
    BY <1>1, <2>1 DEF StartPass, TypeOK
<1>2. CASE MigrateCluster \/ MigrateConsole \/ EndPodLoop
  <2>1. pc' \in 0..Len(Order)
    BY <1>2, <1>o, AdvanceType DEF MigrateCluster, MigrateConsole, EndPodLoop
  <2>2. QED
    BY <1>2, <1>f, <2>1 DEF MigrateCluster, MigrateConsole, EndPodLoop,
       Same, TypeOK
<1>3. CASE ListPods
  <2>1. pc' \in 0..Len(Order)
    BY <1>3, <1>o, AdvanceType DEF ListPods
  <2>2. QED
    BY <1>3, <1>f, <2>1 DEF ListPods, TypeOK
<1>4. CASE UpdatePod
  <2>1. PICK p \in todo : /\ todo' = todo \ {p}
                          /\ \/ Fault /\ UNCHANGED pods
                             \/ UNCHANGED <<pods, faults>>
                             \/ /\ UNCHANGED faults
                                /\ pods' = [pods EXCEPT ![p] = [component |-> TRUE,
                                                                finalizer |-> FALSE]]
    BY <1>4 DEF UpdatePod
  <2>2. pods' \in [Pods -> PodState]
    <3>1. p \in Pods
      BY <2>1 DEF TypeOK
    <3>2. [component |-> TRUE, finalizer |-> FALSE] \in PodState
      BY DEF PodState
    <3>3. QED
      BY <1>o, <2>1, <3>1, <3>2
  <2>3. faults' \in 0..MaxFaults
    BY <1>o, <1>f, <2>1
  <2>4. todo' \subseteq Pods
    BY <2>1 DEF TypeOK
  <2>5. QED
    BY <1>4, <2>2, <2>3, <2>4 DEF UpdatePod, TypeOK
<1>5. CASE Relabel \/ RelabelConsole
  <2>1. Step \in Objects /\ RelabelCall
    BY <1>5 DEF Relabel, RelabelConsole, Relabelled
  <2>2. pc' \in 0..Len(Order)
    BY <2>1, <1>o, AdvanceType DEF RelabelCall
  <2>3. obj' \in [Objects -> ObjStates]
    <3>1. (IF obj[Step] = "legacy" THEN "adopted" ELSE obj[Step]) \in ObjStates
      BY <1>o, <2>1 DEF ObjStates
    <3>2. QED
      BY <2>1, <1>o, <3>1, ObjWrite DEF RelabelCall, Same
  <2>4. QED
    BY <2>1, <1>f, <2>2, <2>3 DEF RelabelCall, Same, TypeOK
<1>6. CASE MigrateSts
  <2>1. pc' \in 0..Len(Order)
    BY <1>6, <1>o, AdvanceType DEF MigrateSts
  <2>2. obj' \in [Objects -> ObjStates]
    BY <1>6, <1>o, StsIsObject, ObjWrite DEF MigrateSts, Same, ObjStates
  <2>3. QED
    BY <1>6, <1>f, <2>1, <2>2 DEF MigrateSts, Same, TypeOK
<1>7. CASE MigrateDeploy
  <2>1. pc' \in 0..Len(Order)
    BY <1>7, <1>o, AdvanceType DEF MigrateDeploy
  <2>2. obj' \in [Objects -> ObjStates]
    BY <1>7, <1>o, ObjWrite DEF MigrateDeploy, Same, ObjStates
  <2>3. QED
    BY <1>7, <1>f, <2>1, <2>2 DEF MigrateDeploy, Same, TypeOK
<1>8. CASE Restart
  BY <1>8, <1>f DEF Restart, TypeOK
<1>9. CASE LegacyClusterReconcile
  <2>1. obj' \in [Objects -> ObjStates]
    BY <1>9, <1>o, StsIsObject, ObjWrite DEF LegacyClusterReconcile, ObjStates
  <2>2. pods' \in [Pods -> PodState] /\ touched' \subseteq Pods
    BY <1>9, <1>o DEF LegacyClusterReconcile, TypeOK, PodState
  <2>3. QED
    BY <1>9, <2>1, <2>2 DEF LegacyClusterReconcile, TypeOK
<1>10. CASE LegacyConsoleReconcile
  <2>1. obj' \in [Objects -> ObjStates]
    BY <1>10, <1>o, ObjWrite DEF LegacyConsoleReconcile, ObjStates
  <2>2. QED
    BY <1>10, <2>1 DEF LegacyConsoleReconcile, TypeOK
<1>11. CASE HelmInstall
  BY <1>11 DEF HelmInstall, TypeOK, ObjStates
<1>12. CASE UNCHANGED vars
  BY <1>12 DEF vars, TypeOK
<1>13. QED
  BY <1>1, <1>2, <1>3, <1>4, <1>5, <1>6, <1>7, <1>8, <1>9, <1>10, <1>11,
     <1>12 DEF Next, Migration

\* the passes, restarts, the legacy controllers and the helm install never
\* leave the type, for every set of pods, console setting and fault bound
THEOREM MigrationTypeCorrect == Spec => []TypeOK
BY TypeInit, TypeStep, PTL DEF Spec

=============================================================================
