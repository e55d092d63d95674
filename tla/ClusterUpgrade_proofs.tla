------------------------ MODULE ClusterUpgrade_proofs ------------------------
(***************************************************************************)
(* Proofs about ClusterUpgrade, for every set of versions, upgrades, HA    *)
(* requests and every bound.                                               *)
(***************************************************************************)
EXTENDS ClusterUpgrade, TLAPS

USE DEF NoVersion, NoUpgrade

-----------------------------------------------------------------------------
(* Next, unfolded once and for all: every proof below that a step keeps an *)
(* invariant goes over these actions.                                      *)

\* A step is one of the actions, with the three ways to die taken together.
LEMMA StepCases ==
  ASSUME [Next]_vars
  PROVE  \/ \E u \in Upgrades, v \in Versions,
               n \in NetworkVersions \cup {NoUpgrade} : ClusterUpgrade(u, v, n)
         \/ \E h \in HARequests : ClusterEnableHA(h)
         \/ \E v \in Versions : DeleteVersion(v) \/ CreateVersion(v)
         \/ \E u \in Upgrades : GetNamespace(u)
         \/ \E u \in Upgrades : SelectVersion(u)
         \/ \E u \in Upgrades : MarkLabels(u)
         \/ \E u \in Upgrades : ApplyEtcd(u)
         \/ \E u \in Upgrades : ApplyApiserver(u)
         \/ \E u \in Upgrades : ApplyControllerManager(u)
         \/ \E u \in Upgrades : ApplyScheduler(u)
         \/ \E u \in Upgrades : WaitEnds(u)
         \/ \E u \in Upgrades, installed \in SUBSET Addons, ok \in BOOLEAN :
              InstallCharts(u, installed, ok)
         \/ \E u \in Upgrades : FinishLabel(u)
         \/ \E u \in Upgrades : FinishRefused(u)
         \/ \E h \in HARequests : PatchReplicas(h)
         \/ \E h \in HARequests : PatchFails(h)
         \/ ProcessDies /\ (crashes' = crashes \/ crashes' = crashes + 1)
         \/ Restart
         \/ UNCHANGED vars
BY DEF Next, Operator, UpgradeStep, HAStep, Crash, Panic, MarkRefused

-----------------------------------------------------------------------------

\* An accepted apply keeps the types of the workloads.
LEMMA ApplyType ==
  ASSUME TypeOK, NEW u \in Upgrades, NEW c \in Component,
         NEW tag \in Versions \cup {NoVersion}, NEW next \in Working,
         Apply(u, c, tag, next)
  PROVE  TypeOK'
BY DEF TypeOK, Apply, ServerSideApply, Goto, nsVars, chartVars, localVars

\* Every step of the upgrade keeps the types.
LEMMA TypeStep == TypeOK /\ [Next]_vars => TypeOK'
<1> SUFFICES ASSUME TypeOK, [Next]_vars PROVE TypeOK'
  OBVIOUS
<1>1. ASSUME NEW u \in Upgrades, NEW v \in Versions,
             NEW n \in NetworkVersions \cup {NoUpgrade},
             ClusterUpgrade(u, v, n)
      PROVE  TypeOK'
  BY <1>1 DEF ClusterUpgrade, Goto, TypeOK, Working, nsVars, workloadVars,
              chartVars
<1>2. ASSUME NEW h \in HARequests, ClusterEnableHA(h) PROVE TypeOK'
  BY <1>2 DEF ClusterEnableHA, TypeOK, HAWorking, nsVars, workloadVars,
              chartVars, localVars
<1>3. ASSUME NEW v \in Versions, DeleteVersion(v) \/ CreateVersion(v)
      PROVE  TypeOK'
  BY <1>3 DEF DeleteVersion, CreateVersion, TypeOK, nsVars, workloadVars,
              chartVars, localVars
<1>4. ASSUME NEW u \in Upgrades, GetNamespace(u) PROVE TypeOK'
  <2>1. [kubernetes |-> label, networkVersion |-> networkLabel] \in Snapshot
    BY DEF TypeOK, Snapshot
  <2>2. seen' \in [Upgrades -> Snapshot]
    BY <1>4, <2>1 DEF GetNamespace, TypeOK
  <2>3. pc' \in [Upgrades -> Resting \cup Working]
    BY <1>4 DEF GetNamespace, Goto, TypeOK, Resting, Working
  <2> QED
    BY <1>4, <2>2, <2>3 DEF GetNamespace, TypeOK, nsVars, workloadVars,
                            chartVars
<1>5. ASSUME NEW u \in Upgrades, SelectVersion(u) PROVE TypeOK'
  BY <1>5 DEF SelectVersion, Goto, TypeOK, Working, nsVars, workloadVars,
              chartVars
<1>6. ASSUME NEW u \in Upgrades, MarkLabels(u) PROVE TypeOK'
  <2>1. /\ seen[u].kubernetes \in Seq(Versions)
        /\ seen[u].networkVersion \in NetworkVersions
    BY DEF TypeOK, Snapshot
  <2>2. label' \in Seq(Versions) \ {<< >>}
    <3>1. target[u] \in Versions
      BY DEF TypeOK
    <3>2. label' = Append(seen[u].kubernetes, target[u])
      BY <1>6 DEF MarkLabels
    <3> QED
      BY <2>1, <3>1, <3>2
  <2>3. rowLabel' \in Versions \cup {NoVersion}
    BY <1>6 DEF MarkLabels, TypeOK
  <2>4. networkLabel' \in NetworkVersions
    BY <1>6, <2>1 DEF MarkLabels, TypeOK
  <2>5. pc' \in [Upgrades -> Resting \cup Working]
    BY <1>6 DEF MarkLabels, Goto, TypeOK, Working
  <2> QED
    BY <1>6, <2>2, <2>3, <2>4, <2>5
       DEF MarkLabels, TypeOK, workloadVars, chartVars, localVars
<1>7. ASSUME NEW u \in Upgrades, ApplyEtcd(u) PROVE TypeOK'
  BY <1>7, ApplyType DEF ApplyEtcd, TypeOK, Component, Working
<1>8. ASSUME NEW u \in Upgrades, ApplyApiserver(u) PROVE TypeOK'
  BY <1>8, ApplyType DEF ApplyApiserver, TypeOK, Component, Working
<1>9. ASSUME NEW u \in Upgrades, ApplyControllerManager(u) PROVE TypeOK'
  BY <1>9, ApplyType DEF ApplyControllerManager, TypeOK, Component, Working
<1>10. ASSUME NEW u \in Upgrades, ApplyScheduler(u) PROVE TypeOK'
  BY <1>10, ApplyType DEF ApplyScheduler, TypeOK, Component, Working
<1>11. ASSUME NEW u \in Upgrades, WaitEnds(u) PROVE TypeOK'
  <2>1. AfterWait(pc[u]) \in Working
    BY <1>11 DEF WaitEnds, AfterWait, Working
  <2> QED
    BY <1>11, <2>1 DEF WaitEnds, Goto, TypeOK, nsVars, workloadVars,
                       chartVars, localVars
<1>12. ASSUME NEW u \in Upgrades, NEW installed \in SUBSET Addons,
              NEW ok \in BOOLEAN, InstallCharts(u, installed, ok)
       PROVE  TypeOK'
  BY <1>12 DEF InstallCharts, Goto, TypeOK, Working, nsVars, workloadVars,
               localVars
<1>13. ASSUME NEW u \in Upgrades, FinishLabel(u) PROVE TypeOK'
  <2>1. label' \in Seq(Versions) \ {<< >>}
    BY <1>13 DEF FinishLabel, TypeOK
  <2> QED
    BY <1>13, <2>1 DEF FinishLabel, Goto, TypeOK, Resting, workloadVars,
                       chartVars, localVars
<1>14. ASSUME NEW u \in Upgrades, FinishRefused(u) PROVE TypeOK'
  BY <1>14 DEF FinishRefused, Goto, TypeOK, Resting, nsVars, workloadVars,
               chartVars, localVars
<1>15. ASSUME NEW h \in HARequests, PatchReplicas(h) PROVE TypeOK'
  <2>1. /\ haPc[h] \in Component
        /\ HAReplicas(haPc[h]) \in Nat
        /\ AfterPatch(haPc[h]) \in Resting \cup HAWorking
    BY <1>15 DEF PatchReplicas, HAWorking, Component, HAReplicas, AfterPatch,
                 Resting
  <2> QED
    BY <1>15, <2>1 DEF PatchReplicas, MergePatch, TypeOK, nsVars, chartVars,
                       localVars
<1>16. ASSUME NEW h \in HARequests, PatchFails(h) PROVE TypeOK'
  BY <1>16 DEF PatchFails, TypeOK, Resting, nsVars, workloadVars, chartVars,
               localVars
<1>17. CASE ProcessDies /\ (crashes' = crashes \/ crashes' = crashes + 1)
  <2>1. "lost" \in Resting
    BY DEF Resting
  <2>2. pc' \in [Upgrades -> Resting \cup Working]
    BY <1>17, <2>1 DEF ProcessDies, TypeOK
  <2>3. haPc' \in [HARequests -> Resting \cup HAWorking]
    BY <1>17, <2>1 DEF ProcessDies, TypeOK
  <2>4. up' \in BOOLEAN
    BY <1>17 DEF ProcessDies
  <2>6. crashes' \in Nat
    BY <1>17 DEF TypeOK
  <2>5. UNCHANGED <<label, rowLabel, networkLabel, image, replicas, owners,
                    chart, networkChart, rows, target, network, seen, row>>
    BY <1>17 DEF ProcessDies, nsVars, workloadVars, chartVars, localVars
  <2> QED
    BY <2>2, <2>3, <2>4, <2>5, <2>6 DEF TypeOK
<1>18. CASE Restart
  BY <1>18 DEF Restart, TypeOK, nsVars, workloadVars, chartVars, localVars
<1>19. CASE UNCHANGED vars
  BY <1>19 DEF vars, TypeOK
<1> QED
  BY <1>1, <1>2, <1>3, <1>4, <1>5, <1>6, <1>7, <1>8, <1>9, <1>10, <1>11,
     <1>12, <1>13, <1>14, <1>15, <1>16, <1>17, <1>18, <1>19, StepCases

\* Type correctness of every state the upgrade can reach.
THEOREM TypeCorrect == Spec => []TypeOK
<1>1. Init => TypeOK
  BY VersionsAssumption, NetworkAssumption
     DEF Init, TypeOK, Component, Resting, Snapshot
<1> QED
  BY <1>1, TypeStep, PTL DEF Spec

-----------------------------------------------------------------------------
(* ClusterEnableHA against the upgrade.                                    *)

(***************************************************************************)
(* Why an upgrade cannot lower the replicas: a workload that was enlarged  *)
(* has an owner besides "kok", so that an apply with one replica conflicts.*)
(* And why HA goes in order: a handler that got to a component has seen    *)
(* the patches of all earlier ones accepted, and nothing undoes them.      *)
(***************************************************************************)
HAInv ==
  /\ \A c \in Component : replicas[c] \in {1, HAReplicas(c)}
  /\ \A c \in Component : replicas[c] # 1 => owners[c] \ {"kok"} # {}
  /\ \A h \in HARequests :
       /\ haPc[h] = "kube-apiserver" => replicas["etcd"] = 3
       /\ haPc[h] = "kube-controller-manager" => replicas["kube-apiserver"] = 2
       /\ haPc[h] = "kube-scheduler" => replicas["kube-controller-manager"] = 2
  /\ EnlargedInOrder

Enlarges == \A c \in Component : replicas'[c] >= replicas[c]

\* An accepted apply with one replica leaves the replicas as they are.
LEMMA ApplyKeepsReplicas ==
  ASSUME TypeOK, HAInv, NEW u \in Upgrades, NEW c \in Component, NEW tag,
         NEW next, Apply(u, c, tag, next)
  PROVE  HAInv' /\ Enlarges
<1>1. replicas[c] = 1
  BY DEF HAInv, Apply, ApplyAccepted
<1>2. replicas' = replicas
  BY <1>1 DEF Apply, ServerSideApply, TypeOK
<1>3. haPc' = haPc
  BY DEF Apply
<1>4. \A d \in Component : owners[d] \subseteq owners'[d]
  BY DEF Apply, ServerSideApply, TypeOK
<1>5. HAInv'
  BY <1>2, <1>3, <1>4 DEF HAInv, EnlargedInOrder
<1>6. Enlarges
  BY <1>2 DEF Enlarges, TypeOK
<1> QED
  BY <1>5, <1>6

\* A patch of ClusterEnableHA enlarges the component whose turn it is.
LEMMA PatchKeepsOrder ==
  ASSUME TypeOK, HAInv, NEW h \in HARequests, PatchReplicas(h)
  PROVE  HAInv' /\ Enlarges
<1> DEFINE c == haPc[h]
<1>1. c \in Component
  BY DEF PatchReplicas, HAWorking, Component
<1>2. /\ replicas' = [replicas EXCEPT ![c] = HAReplicas(c)]
      /\ owners' = [owners EXCEPT ![c] = IF replicas[c] = HAReplicas(c)
                                         THEN @ ELSE {"main"}]
      /\ haPc' = [haPc EXCEPT ![h] = AfterPatch(c)]
  BY DEF PatchReplicas, MergePatch
<1>3. \A d \in Component : HAReplicas(d) \in Nat /\ HAReplicas(d) > 1
  BY DEF HAReplicas
<1>4. /\ replicas \in [Component -> Nat]
      /\ owners \in [Component -> SUBSET {"kok", "main"}]
      /\ haPc \in [HARequests -> Resting \cup HAWorking]
  BY DEF TypeOK
<1>5. Enlarges
  <2> SUFFICES ASSUME NEW d \in Component PROVE replicas'[d] >= replicas[d]
    BY DEF Enlarges
  <2>1. replicas[d] \in {1, HAReplicas(d)}
    BY DEF HAInv
  <2> QED
    BY <1>1, <1>2, <1>3, <1>4, <2>1
<1>6. \A d \in Component : replicas'[d] \in {1, HAReplicas(d)}
  BY <1>1, <1>2, <1>4 DEF HAInv
<1>7. \A d \in Component : replicas'[d] # 1 => owners'[d] \ {"kok"} # {}
  BY <1>1, <1>2, <1>3, <1>4 DEF HAInv
<1>8. EnlargedInOrder'
  BY <1>1, <1>2, <1>4 DEF HAInv, EnlargedInOrder, Component, HAReplicas
<1>9. ASSUME NEW g \in HARequests
      PROVE  /\ haPc'[g] = "kube-apiserver" => replicas'["etcd"] = 3
             /\ haPc'[g] = "kube-controller-manager"
                  => replicas'["kube-apiserver"] = 2
             /\ haPc'[g] = "kube-scheduler"
                  => replicas'["kube-controller-manager"] = 2
  <2>1. CASE g = h
    <3>1. haPc'[g] = AfterPatch(c)
      BY <1>2, <1>4, <2>1
    <3>2. replicas'[c] = HAReplicas(c)
      BY <1>1, <1>2, <1>4
    <3> QED
      BY <1>1, <3>1, <3>2 DEF AfterPatch, HAReplicas, Component
  <2>2. CASE g # h
    <3>1. haPc'[g] = haPc[g]
      BY <1>2, <1>4, <2>2
    <3> QED
      BY <1>1, <1>2, <1>4, <3>1 DEF HAInv, HAReplicas, Component
  <2> QED
    BY <2>1, <2>2
<1> QED
  BY <1>5, <1>6, <1>7, <1>8, <1>9 DEF HAInv

\* No step of the upgrade, of a handler or of the process breaks HAInv.
LEMMA HAStepKeeps ==
  ASSUME TypeOK, HAInv, [Next]_vars
  PROVE  HAInv' /\ Enlarges
<1> DEFINE Quiet ==
      /\ UNCHANGED <<replicas, owners>>
      /\ \A g \in HARequests : \/ haPc'[g] = haPc[g]
                               \/ haPc'[g] \in {"etcd", "done", "lost"}
<1>1. Quiet => HAInv' /\ Enlarges
  <2> SUFFICES ASSUME Quiet PROVE HAInv' /\ Enlarges
    OBVIOUS
  <2>1. HAInv'
    BY DEF HAInv, EnlargedInOrder
  <2>2. Enlarges
    BY DEF Enlarges, TypeOK
  <2> QED
    BY <2>1, <2>2
<1>2. ASSUME NEW h \in HARequests, ClusterEnableHA(h) \/ PatchFails(h)
      PROVE  Quiet
  BY <1>2 DEF ClusterEnableHA, PatchFails, TypeOK, workloadVars
<1>3. ProcessDies => Quiet
  BY DEF ProcessDies, workloadVars
<1>4. ASSUME NEW u \in Upgrades,
             \/ ApplyEtcd(u) \/ ApplyApiserver(u)
             \/ ApplyControllerManager(u) \/ ApplyScheduler(u)
      PROVE  HAInv' /\ Enlarges
  BY <1>4, ApplyKeepsReplicas
     DEF ApplyEtcd, ApplyApiserver, ApplyControllerManager, ApplyScheduler,
         Component
<1>5. ASSUME NEW h \in HARequests, PatchReplicas(h) PROVE HAInv' /\ Enlarges
  BY <1>5, PatchKeepsOrder
<1>6. ASSUME NEW u \in Upgrades,
             \/ \E v \in Versions, n \in NetworkVersions \cup {NoUpgrade} :
                  ClusterUpgrade(u, v, n)
             \/ GetNamespace(u) \/ SelectVersion(u) \/ MarkLabels(u)
             \/ WaitEnds(u)
             \/ \E installed \in SUBSET Addons, ok \in BOOLEAN :
                  InstallCharts(u, installed, ok)
             \/ FinishLabel(u) \/ FinishRefused(u)
      PROVE  Quiet
  BY <1>6 DEF ClusterUpgrade, GetNamespace, SelectVersion, MarkLabels, WaitEnds,
              InstallCharts, FinishLabel, FinishRefused, workloadVars
<1>7. ASSUME \/ \E v \in Versions : DeleteVersion(v) \/ CreateVersion(v)
             \/ Restart
             \/ UNCHANGED vars
      PROVE  Quiet
  BY <1>7 DEF DeleteVersion, CreateVersion, Restart, workloadVars, vars
<1> HIDE DEF Quiet
<1> QED
  BY <1>1, <1>2, <1>3, <1>4, <1>5, <1>6, <1>7, StepCases

LEMMA HAInvariant == Spec => []HAInv
<1>1. Init => HAInv
  BY DEF Init, HAInv, EnlargedInOrder, Component
<1>2. TypeOK /\ HAInv /\ [Next]_vars => HAInv'
  BY HAStepKeeps
<1> QED
  BY <1>1, <1>2, TypeCorrect, PTL DEF Spec

\* EnlargedInOrder for any number of HA requests and upgrades, with any calls
\* failing and any number of crashes.
THEOREM HAInOrder == Spec => []EnlargedInOrder
<1>1. HAInv => EnlargedInOrder
  BY DEF HAInv
<1> QED
  BY <1>1, HAInvariant, PTL

\* ReplicasNeverLowered, likewise.
THEOREM HAIsKept == Spec => ReplicasNeverLowered
<1>1. TypeOK /\ HAInv /\ [Next]_vars
        => [\A c \in Component : replicas'[c] >= replicas[c]]_vars
  BY HAStepKeeps DEF Enlarges
<1> QED
  BY <1>1, TypeCorrect, HAInvariant, PTL DEF Spec, ReplicasNeverLowered

-----------------------------------------------------------------------------
(* The label against the workloads, one upgrade at a time.                 *)

\* What appending a version does to the versions a label names.
LEMMA PartsAppend ==
  ASSUME NEW s \in Seq(Versions), NEW v \in Versions
  PROVE  /\ Parts(Append(s, v)) = Parts(s) \cup {v}
         /\ Len(Append(s, v)) = Len(s) + 1
<1>1. /\ Len(Append(s, v)) = Len(s) + 1
      /\ Len(s) \in Nat
      /\ \A i \in 1..Len(s) : Append(s, v)[i] = s[i]
      /\ Append(s, v)[Len(s) + 1] = v
  OBVIOUS
<1>2. 1..(Len(s) + 1) = (1..Len(s)) \cup {Len(s) + 1}
  BY <1>1
<1> QED
  BY <1>1, <1>2 DEF Parts

LEMMA PartsSingle ==
  ASSUME NEW v \in Versions
  PROVE  /\ Parts(<<v>>) = {v}
         /\ Len(<<v>>) = 1
BY DEF Parts

\* The last version of an ordered label is its greatest.
LEMMA LastIsGreatest ==
  ASSUME NEW s \in Seq(Versions), NEW v \in Versions,
         NonDecreasing(Append(s, v))
  PROVE  /\ NonDecreasing(s)
         /\ \A x \in Parts(Append(s, v)) : x <= v
<1>1. /\ Len(Append(s, v)) = Len(s) + 1
      /\ Len(s) \in Nat
      /\ \A i \in 1..Len(s) : Append(s, v)[i] = s[i]
      /\ Append(s, v)[Len(s) + 1] = v
  OBVIOUS
<1>2. NonDecreasing(s)
  BY <1>1 DEF NonDecreasing
<1>3. \A i \in 1..Len(Append(s, v)) : Append(s, v)[i] <= v
  BY <1>1 DEF NonDecreasing
<1> QED
  BY <1>2, <1>3 DEF Parts

-----------------------------------------------------------------------------

\* The program points between the marking of the label and its reset.
Marked == {"apply-etcd", "wait-etcd", "apply-apiserver", "wait-apiserver",
           "apply-kcm", "wait-kcm", "apply-scheduler", "wait-scheduler",
           "charts", "finish"}

\* The workloads an upgrade at this point has applied.
Applied(step) ==
  {c \in Component :
     \/ c = "etcd" /\ step \in Marked \ {"apply-etcd"}
     \/ c = "kube-apiserver" /\ step \in Marked \
          {"apply-etcd", "wait-etcd", "apply-apiserver"}
     \/ c = "kube-controller-manager" /\ step \in
          {"wait-kcm", "apply-scheduler", "wait-scheduler", "charts", "finish"}
     \/ c = "kube-scheduler" /\ step \in {"wait-scheduler", "charts", "finish"}}

\* The tag an upgrade gives a workload: etcd and the apiserver take it from
\* the version row, the other two from the request.
TagOf(u, c) == IF c \in {"etcd", "kube-apiserver"} THEN row[u] ELSE target[u]

(***************************************************************************)
(* The strengthening.  None of the three properties is inductive: that a   *)
(* plain label may be written back rests on every workload having been     *)
(* applied, which rests on the order of the steps (GoroutineInv), and that *)
(* nothing is ahead of its server rests on the label ending in the target  *)
(* of the upgrade at work.                                                 *)
(***************************************************************************)
GoroutineInv(u) ==
  /\ pc[u] \in {"idle", "get", "select"} => row[u] # NoVersion
  /\ pc[u] \in {"select", "mark"} => seen[u].kubernetes = label
  /\ pc[u] \in {"mark"} \cup Marked => row[u] \in {target[u], NoVersion}
  /\ pc[u] \in Marked =>
       /\ \E s \in Seq(Versions) \ {<< >>} : label = Append(s, target[u])
       /\ rowLabel = row[u]
       /\ \A c \in Applied(pc[u]) : image[c] = TagOf(u, c)

LabelInv ==
  /\ \A u, w \in Upgrades : pc[u] \in Working /\ pc[w] \in Working => u = w
  /\ \A u \in Upgrades : GoroutineInv(u)
  /\ LabelNamesImages
  /\ PlainLabelIsTrue
  /\ NothingAheadOfItsServer

SerialLabelInv == Serial => LabelInv

-----------------------------------------------------------------------------

\* While one upgrade works, no other does.
LEMMA OthersRest ==
  ASSUME TypeOK, LabelInv, NEW u \in Upgrades, pc[u] \in Working
  PROVE  \A w \in Upgrades \ {u} : pc[w] \in Resting
BY DEF LabelInv, TypeOK

\* A step that moves one goroutine keeps what is said of the resting ones.
LEMMA MoveKeepsOthers ==
  ASSUME TypeOK, LabelInv, NEW u \in Upgrades,
         \A w \in Upgrades \ {u} : pc[w] \in Resting,
         NEW x, pc' = [pc EXCEPT ![u] = x],
         \A w \in Upgrades \ {u} : row'[w] = row[w]
  PROVE  /\ \A v, w \in Upgrades : pc'[v] \in Working /\ pc'[w] \in Working
                                     => v = w
         /\ \A w \in Upgrades \ {u} : GoroutineInv(w)'
<1>1. \A w \in Upgrades \ {u} : pc'[w] = pc[w]
  BY DEF TypeOK
<1>2. Resting \cap Working = {}
  BY DEF Resting, Working
<1>3. ASSUME NEW w \in Upgrades \ {u} PROVE GoroutineInv(w)'
  <2>1. pc'[w] \in Resting /\ row'[w] = row[w]
    BY <1>1
  <2>2. pc'[w] = "idle" => row[w] # NoVersion
    BY <1>1 DEF LabelInv, GoroutineInv
  <2> QED
    BY <2>1, <2>2 DEF GoroutineInv, Resting, Marked
<1> QED
  BY <1>1, <1>2, <1>3

\* The three properties depend on labels, images and on which rows were found.
LEMMA SameLabelsAndImages ==
  ASSUME LabelInv, UNCHANGED <<label, rowLabel, image>>,
         RowsFound' => RowsFound
  PROVE  LabelNamesImages' /\ PlainLabelIsTrue' /\ NothingAheadOfItsServer'
<1>1. LabelNamesImages'
  BY DEF LabelInv, LabelNamesImages, Parts
<1>2. PlainLabelIsTrue'
  BY DEF LabelInv, PlainLabelIsTrue
<1>3. NothingAheadOfItsServer'
  BY DEF LabelInv, NothingAheadOfItsServer, NonDecreasing
<1> QED
  BY <1>1, <1>2, <1>3

\* A goroutine that moves on without touching labels, images or its row.
LEMMA MoveOnly ==
  ASSUME TypeOK, LabelInv, NEW u \in Upgrades, pc[u] \in Working,
         NEW x, pc' = [pc EXCEPT ![u] = x],
         UNCHANGED <<label, rowLabel, image, row>>,
         GoroutineInv(u)'
  PROVE  LabelInv'
<1>1. \A w \in Upgrades \ {u} : pc[w] \in Resting
  BY OthersRest
<1>2. /\ \A v, w \in Upgrades : pc'[v] \in Working /\ pc'[w] \in Working
                                => v = w
      /\ \A w \in Upgrades \ {u} : GoroutineInv(w)'
  BY <1>1, MoveKeepsOthers
<1>3. RowsFound' => RowsFound
  BY DEF RowsFound
<1> QED
  BY <1>2, <1>3, SameLabelsAndImages DEF LabelInv

-----------------------------------------------------------------------------
(* One lemma per action that touches labels, images or version rows.       *)

\* The mark keeps every version the label named, and adds the target.
LEMMA MarkKeepsLabelInv ==
  ASSUME TypeOK, LabelInv, NEW u \in Upgrades, MarkLabels(u)
  PROVE  LabelInv'
<1>1. /\ pc[u] = "mark" /\ pc[u] \in Working
      /\ seen[u].kubernetes = label
      /\ label' = Append(label, target[u])
      /\ rowLabel' = row[u]
      /\ pc' = [pc EXCEPT ![u] = "apply-etcd"]
      /\ pc'[u] = "apply-etcd"
      /\ UNCHANGED <<image, row, target>>
  BY DEF MarkLabels, Goto, LabelInv, GoroutineInv, Working, workloadVars,
         localVars, TypeOK
<1>2. /\ label \in Seq(Versions) /\ label # << >>
      /\ target[u] \in Versions
      /\ Versions \subseteq Nat
  BY VersionsAssumption DEF TypeOK
<1>3. \A w \in Upgrades \ {u} : pc[w] \in Resting
  BY <1>1, OthersRest
<1>4. /\ \A v, w \in Upgrades : pc'[v] \in Working /\ pc'[w] \in Working
                                => v = w
      /\ \A w \in Upgrades \ {u} : GoroutineInv(w)'
  BY <1>1, <1>3, MoveKeepsOthers
<1>5. GoroutineInv(u)'
  <2>1. row[u] \in {target[u], NoVersion}
    BY <1>1 DEF LabelInv, GoroutineInv
  <2>2. Applied("apply-etcd") = {}
    BY DEF Applied, Marked
  <2> QED
    BY <1>1, <1>2, <2>1, <2>2 DEF GoroutineInv, Marked
<1>6. LabelNamesImages'
  <2>1. Parts(label') = Parts(label) \cup {target[u]}
    BY <1>1, <1>2, PartsAppend
  <2>2. Serial => \A c \in Component :
          image[c] \in Parts(label) \cup {NoVersion}
    BY DEF LabelInv, LabelNamesImages
  <2>3. Serial => \A c \in Component :
          image'[c] \in Parts(label') \cup {NoVersion}
    BY <1>1, <2>1, <2>2
  <2> QED
    BY <2>3 DEF LabelNamesImages
<1>7. PlainLabelIsTrue'
  <2>1. Len(label') = Len(label) + 1 /\ Len(label) \in Nat /\ Len(label) # 0
    BY <1>1, <1>2, PartsAppend
  <2>2. Len(label') # 1
    BY <2>1
  <2> QED
    BY <2>2 DEF PlainLabelIsTrue
<1>8. NothingAheadOfItsServer'
  <2>1. NonDecreasing(label') => NonDecreasing(label)
    BY <1>1, <1>2, LastIsGreatest
  <2>2. RowsFound' => RowsFound
    BY <1>1 DEF RowsFound
  <2> QED
    BY <1>1, <2>1, <2>2 DEF LabelInv, NothingAheadOfItsServer
<1> QED
  BY <1>4, <1>5, <1>6, <1>7, <1>8 DEF LabelInv

\* The workloads an upgrade finds applied when it gets to c: those that c
\* depends on.
Before(c) == {d \in Component :
  \/ d = "etcd" /\ c # "etcd"
  \/ d = "kube-apiserver" /\ c \in {"kube-controller-manager", "kube-scheduler"}
  \/ d = "kube-controller-manager" /\ c = "kube-scheduler"}

\* An apply gives c a version the label names, the greatest if the label is
\* ordered, after everything c depends on was given the same.
LEMMA ApplyKeepsLabelInv ==
  ASSUME TypeOK, LabelInv, NEW u \in Upgrades, NEW c \in Component,
         pc[u] \in Marked, NEW next \in Marked,
         Apply(u, c, TagOf(u, c), next),
         Applied(pc[u]) = Before(c), Applied(next) = Before(c) \cup {c}
  PROVE  LabelInv'
<1> DEFINE t == target[u]
<1>1. /\ image' = [image EXCEPT ![c] = TagOf(u, c)]
      /\ pc' = [pc EXCEPT ![u] = next]
      /\ pc'[u] = next
      /\ UNCHANGED <<label, rowLabel, row, target>>
  BY DEF Apply, ServerSideApply, Goto, nsVars, localVars, TypeOK
<1>2. /\ image \in [Component -> Versions \cup {NoVersion}]
      /\ t \in Versions /\ Versions \subseteq Nat \ {NoVersion}
      /\ label \in Seq(Versions)
  BY VersionsAssumption DEF TypeOK
<1>3. pc[u] \in Working
  BY DEF Marked, Working
<1>4. /\ row[u] \in {t, NoVersion}
      /\ rowLabel = row[u]
      /\ \A d \in Before(c) : image[d] = TagOf(u, d)
  BY DEF LabelInv, GoroutineInv
<1>5. PICK s \in Seq(Versions) \ {<< >>} : label = Append(s, t)
  BY DEF LabelInv, GoroutineInv
<1>6. TagOf(u, c) \in {t, NoVersion}
  BY <1>4 DEF TagOf
<1>7. \A d \in Component : TagOf(u, d)' = TagOf(u, d)
  BY <1>1 DEF TagOf
<1>8. /\ \A v, w \in Upgrades : pc'[v] \in Working /\ pc'[w] \in Working
                                => v = w
      /\ \A w \in Upgrades \ {u} : GoroutineInv(w)'
  BY <1>1, <1>3, OthersRest, MoveKeepsOthers
<1>9. \A d \in Component : image'[d] = IF d = c THEN TagOf(u, c) ELSE image[d]
  BY <1>1, <1>2
<1>10. GoroutineInv(u)'
  <2>1. \A d \in Applied(next) : image'[d] = TagOf(u, d)
    BY <1>4, <1>9 DEF Before
  <2>2. next \notin {"idle", "get", "select", "mark"}
    BY DEF Marked
  <2>3. Applied(pc[u])' = Applied(next)
    BY <1>1 DEF Applied
  <2>4. Applied(next) \subseteq Component
    BY DEF Applied
  <2> QED
    BY <1>1, <1>4, <1>5, <1>7, <2>1, <2>2, <2>3, <2>4 DEF GoroutineInv
<1>11. t \in Parts(label)
  <2>1. Parts(Append(s, t)) = Parts(s) \cup {t}
    BY <1>2, PartsAppend
  <2> QED
    BY <1>5, <2>1
<1>12. LabelNamesImages'
  <2>1. Serial => \A d \in Component :
          image'[d] \in Parts(label) \cup {NoVersion}
    BY <1>6, <1>9, <1>11 DEF LabelInv, LabelNamesImages
  <2>2. Parts(label') = Parts(label)
    BY <1>1
  <2> QED
    BY <1>1, <2>1, <2>2 DEF LabelNamesImages
<1>13. PlainLabelIsTrue'
  <2>1. Len(label') = Len(s) + 1 /\ Len(s) \in Nat /\ Len(s) # 0
    BY <1>1, <1>2, <1>5, PartsAppend
  <2>2. Len(label') # 1
    BY <2>1
  <2> QED
    BY <2>2 DEF PlainLabelIsTrue
<1>14. NothingAheadOfItsServer'
  <2> SUFFICES ASSUME Serial, RowsFound', NonDecreasing(label)'
               PROVE  /\ image'["kube-apiserver"] <= image'["etcd"]
                      /\ image'["kube-controller-manager"]
                           <= image'["kube-apiserver"]
                      /\ image'["kube-scheduler"]
                           <= image'["kube-controller-manager"]
    BY DEF NothingAheadOfItsServer
  <2>1. row[u] = t
    BY <1>1, <1>4 DEF RowsFound
  <2>2. \A d \in Component : TagOf(u, d) = t
    BY <2>1 DEF TagOf
  <2>3. NonDecreasing(Append(s, t))
    BY <1>1, <1>5 DEF NonDecreasing
  <2>4. \A d \in Component : image[d] <= t
    <3>1. \A x \in Parts(label) : x <= t
      BY <1>2, <1>5, <2>3, LastIsGreatest
    <3>2. \A d \in Component : image[d] \in Parts(label) \cup {NoVersion}
      BY DEF LabelInv, LabelNamesImages
    <3>3. t \in Nat
      BY <1>2
    <3>4. NoVersion <= t
      BY <3>3
    <3> QED
      BY <3>1, <3>2, <3>4
  <2>5. \A d \in Before(c) \cup {c} : image'[d] = t
    BY <1>4, <1>9, <2>2 DEF Before
  <2>6. \A d \in Component : image'[d] <= t /\ image'[d] \in Nat
    <3> HIDE DEF t
    <3>3. t \in Nat
      BY <1>2
    <3>1. t <= t
      BY <3>3
    <3>4. Versions \cup {NoVersion} \subseteq Nat
      BY <1>2
    <3>2. \A d \in Component : image[d] \in Nat
      BY <1>2, <3>4
    <3> QED
      BY <1>9, <2>2, <2>4, <3>1, <3>2, <3>3
  <2>7. /\ image["kube-apiserver"] <= image["etcd"]
        /\ image["kube-controller-manager"] <= image["kube-apiserver"]
        /\ image["kube-scheduler"] <= image["kube-controller-manager"]
    <3>1. RowsFound /\ NonDecreasing(label)
      BY <1>1 DEF RowsFound, NonDecreasing
    <3> QED
      BY <3>1 DEF LabelInv, NothingAheadOfItsServer
  <2>8. CASE c = "etcd"
    BY <1>9, <2>5, <2>6, <2>7, <2>8 DEF Component
  <2>9. CASE c = "kube-apiserver"
    BY <1>9, <2>5, <2>6, <2>7, <2>9 DEF Component, Before
  <2>10. CASE c = "kube-controller-manager"
    BY <1>9, <2>5, <2>6, <2>7, <2>10 DEF Component, Before
  <2>11. CASE c = "kube-scheduler"
    BY <1>9, <2>5, <2>6, <2>7, <2>11 DEF Component, Before
  <2> QED
    BY <2>8, <2>9, <2>10, <2>11 DEF Component
<1> QED
  BY <1>8, <1>10, <1>12, <1>13, <1>14 DEF LabelInv

\* The plain label is written back when every workload has been applied.
LEMMA FinishKeepsLabelInv ==
  ASSUME TypeOK, LabelInv, NEW u \in Upgrades, FinishLabel(u)
  PROVE  LabelInv'
<1> DEFINE t == target[u]
<1>1. /\ pc[u] = "finish" /\ pc[u] \in Working /\ pc[u] \in Marked
      /\ label' = <<t>>
      /\ pc' = [pc EXCEPT ![u] = "done"]
      /\ pc'[u] = "done"
      /\ UNCHANGED <<rowLabel, image, row, target>>
  BY DEF FinishLabel, Goto, Working, Marked, workloadVars, localVars, TypeOK
<1>2. /\ t \in Versions
      /\ row[u] \in {t, NoVersion}
      /\ rowLabel = row[u]
  BY <1>1 DEF LabelInv, GoroutineInv, TypeOK
<1>3. \A c \in Component : image[c] = TagOf(u, c)
  <2>1. Applied("finish") = Component
    BY DEF Applied, Marked, Component
  <2> QED
    BY <1>1, <2>1 DEF LabelInv, GoroutineInv
<1>4. /\ \A v, w \in Upgrades : pc'[v] \in Working /\ pc'[w] \in Working
                                => v = w
      /\ \A w \in Upgrades \ {u} : GoroutineInv(w)'
  BY <1>1, OthersRest, MoveKeepsOthers
<1>5. GoroutineInv(u)'
  BY <1>1 DEF GoroutineInv, Marked
<1>6. Parts(label') = {t} /\ label'[1] = t
  BY <1>1, <1>2, PartsSingle
<1>7. \A c \in Component : image'[c] \in {t, NoVersion}
  BY <1>1, <1>2, <1>3 DEF TagOf
<1>8. RowsFound' => /\ \A c \in Component : image'[c] = t
                    /\ rowLabel' = t
  BY <1>1, <1>2, <1>3 DEF RowsFound, TagOf
<1>9. LabelNamesImages'
  BY <1>6, <1>7 DEF LabelNamesImages
<1>10. PlainLabelIsTrue'
  BY <1>6, <1>8 DEF PlainLabelIsTrue
<1>11. NothingAheadOfItsServer'
  <2>1. t \in Nat
    BY <1>2, VersionsAssumption
  <2> HIDE DEF t
  <2>2. t <= t
    BY <2>1
  <2> QED
    BY <1>8, <2>2 DEF NothingAheadOfItsServer, Component
<1> QED
  BY <1>4, <1>5, <1>9, <1>10, <1>11 DEF LabelInv

\* The row is read after the label was, and before it is marked.
LEMMA SelectKeepsLabelInv ==
  ASSUME TypeOK, LabelInv, NEW u \in Upgrades, SelectVersion(u)
  PROVE  LabelInv'
<1>1. /\ pc[u] = "select" /\ pc[u] \in Working
      /\ pc' = [pc EXCEPT ![u] = "mark"]
      /\ pc'[u] = "mark"
      /\ row'[u] \in {target[u], NoVersion}
      /\ \A w \in Upgrades \ {u} : row'[w] = row[w]
      /\ UNCHANGED <<label, rowLabel, image, target, seen>>
  BY DEF SelectVersion, Goto, Working, nsVars, workloadVars, TypeOK
<1>2. row[u] # NoVersion /\ seen[u].kubernetes = label
  BY <1>1 DEF LabelInv, GoroutineInv
<1>3. /\ \A v, w \in Upgrades : pc'[v] \in Working /\ pc'[w] \in Working
                                => v = w
      /\ \A w \in Upgrades \ {u} : GoroutineInv(w)'
  BY <1>1, OthersRest, MoveKeepsOthers
<1>4. GoroutineInv(u)'
  BY <1>1, <1>2 DEF GoroutineInv, Marked
<1>5. RowsFound' => RowsFound
  BY <1>1, <1>2 DEF RowsFound
<1>6. LabelNamesImages' /\ PlainLabelIsTrue' /\ NothingAheadOfItsServer'
  BY <1>1, <1>5, SameLabelsAndImages
<1> QED
  BY <1>3, <1>4, <1>6 DEF LabelInv

\* A serial request starts when every other upgrade rests.
LEMMA RequestKeepsLabelInv ==
  ASSUME TypeOK, LabelInv, Serial, NEW u \in Upgrades, NEW v, NEW n,
         ClusterUpgrade(u, v, n)
  PROVE  LabelInv'
<1>1. /\ pc[u] = "idle"
      /\ \A w \in Upgrades \ {u} : pc[w] \in Resting
      /\ pc' = [pc EXCEPT ![u] = "get"]
      /\ pc'[u] = "get"
      /\ UNCHANGED <<label, rowLabel, image, row>>
  BY DEF ClusterUpgrade, Goto, nsVars, workloadVars, TypeOK
<1>2. /\ \A w, x \in Upgrades : pc'[w] \in Working /\ pc'[x] \in Working
                                => w = x
      /\ \A w \in Upgrades \ {u} : GoroutineInv(w)'
  BY <1>1, MoveKeepsOthers
<1>3. GoroutineInv(u)'
  BY <1>1 DEF LabelInv, GoroutineInv, Marked
<1>4. RowsFound' => RowsFound
  BY <1>1 DEF RowsFound
<1>5. LabelNamesImages' /\ PlainLabelIsTrue' /\ NothingAheadOfItsServer'
  BY <1>1, <1>4, SameLabelsAndImages
<1> QED
  BY <1>2, <1>3, <1>5 DEF LabelInv

\* The steps that only move the goroutine, or only record what it read.
LEMMA OtherStepsKeepLabelInv ==
  ASSUME TypeOK, LabelInv, NEW u \in Upgrades,
         \/ GetNamespace(u) \/ WaitEnds(u) \/ FinishRefused(u)
         \/ \E installed \in SUBSET Addons, ok \in BOOLEAN :
              InstallCharts(u, installed, ok)
  PROVE  LabelInv'
<1>1. CASE GetNamespace(u)
  <2>1. /\ pc[u] = "get" /\ pc[u] \in Working
        /\ pc' = [pc EXCEPT ![u] = pc'[u]]
        /\ pc'[u] \in {"done", "select"}
        /\ seen'[u].kubernetes = label
        /\ UNCHANGED <<label, rowLabel, image, row>>
    BY <1>1 DEF GetNamespace, Goto, Working, nsVars, workloadVars, TypeOK
  <2>2. row[u] # NoVersion
    BY <2>1 DEF LabelInv, GoroutineInv
  <2>3. GoroutineInv(u)'
    BY <2>1, <2>2 DEF GoroutineInv, Marked
  <2> QED
    BY <2>1, <2>3, MoveOnly
<1>2. CASE WaitEnds(u)
  <2> DEFINE next == AfterWait(pc[u])
  <2>1. /\ pc[u] \in Marked /\ pc[u] \in Working
        /\ pc' = [pc EXCEPT ![u] = next]
        /\ pc'[u] = next
        /\ UNCHANGED <<label, rowLabel, image, row, target, seen>>
    BY <1>2 DEF WaitEnds, Goto, Working, Marked, nsVars, workloadVars,
                localVars, TypeOK
  <2>2. next \in Marked /\ Applied(next) = Applied(pc[u])
    BY <1>2 DEF WaitEnds, AfterWait, Marked, Applied
  <2>3. GoroutineInv(u)'
    BY <2>1, <2>2 DEF LabelInv, GoroutineInv, Marked, Applied, TagOf
  <2> QED
    BY <2>1, <2>3, MoveOnly
<1>3. CASE FinishRefused(u)
  <2>1. /\ pc[u] = "finish" /\ pc[u] \in Working
        /\ pc' = [pc EXCEPT ![u] = "done"]
        /\ pc'[u] = "done"
        /\ UNCHANGED <<label, rowLabel, image, row>>
    BY <1>3 DEF FinishRefused, Goto, Working, nsVars, workloadVars, localVars,
                TypeOK
  <2>2. GoroutineInv(u)'
    BY <2>1 DEF GoroutineInv, Marked
  <2> QED
    BY <2>1, <2>2, MoveOnly
<1>4. ASSUME NEW installed \in SUBSET Addons, NEW ok \in BOOLEAN,
             InstallCharts(u, installed, ok)
      PROVE  LabelInv'
  <2>1. /\ pc[u] = "charts" /\ pc[u] \in Working
        /\ pc' = [pc EXCEPT ![u] = "finish"]
        /\ pc'[u] = "finish"
        /\ UNCHANGED <<label, rowLabel, image, row, target, seen>>
    BY <1>4 DEF InstallCharts, Goto, Working, nsVars, workloadVars, localVars,
                TypeOK
  <2>2. Applied("finish") = Applied("charts")
    BY DEF Applied, Marked
  <2>3. GoroutineInv(u)'
    BY <2>1, <2>2 DEF LabelInv, GoroutineInv, Marked, Applied, TagOf
  <2> QED
    BY <2>1, <2>3, MoveOnly
<1> QED
  BY <1>1, <1>2, <1>3, <1>4

\* The death of the process, and the steps of everyone else.
LEMMA EnvironmentKeepsLabelInv ==
  ASSUME TypeOK, LabelInv,
         \/ ProcessDies
         \/ Restart
         \/ \E v \in Versions : DeleteVersion(v) \/ CreateVersion(v)
         \/ \E h \in HARequests :
              ClusterEnableHA(h) \/ PatchReplicas(h) \/ PatchFails(h)
         \/ UNCHANGED vars
  PROVE  LabelInv'
<1>1. UNCHANGED <<label, rowLabel, image, row, target, seen>>
  BY DEF ProcessDies, Restart, DeleteVersion, CreateVersion, ClusterEnableHA,
         PatchReplicas, PatchFails, MergePatch, vars, nsVars, workloadVars,
         localVars
<1>2. \A u \in Upgrades : \/ pc'[u] = pc[u]
                          \/ pc'[u] = "lost"
  BY DEF ProcessDies, Restart, DeleteVersion, CreateVersion, ClusterEnableHA,
         PatchReplicas, PatchFails, vars
<1>3. ASSUME NEW u \in Upgrades PROVE GoroutineInv(u)'
  <2>1. CASE pc'[u] = pc[u]
    BY <1>1, <2>1 DEF LabelInv, GoroutineInv, TagOf, Applied
  <2>2. CASE pc'[u] = "lost"
    BY <2>2 DEF GoroutineInv, Marked
  <2> QED
    BY <1>2, <2>1, <2>2
<1>4. \A u, w \in Upgrades : pc'[u] \in Working /\ pc'[w] \in Working => u = w
  <2>1. "lost" \notin Working
    BY DEF Working
  <2> QED
    BY <1>2, <2>1 DEF LabelInv
<1>5. RowsFound' => RowsFound
  BY <1>1 DEF RowsFound
<1>6. LabelNamesImages' /\ PlainLabelIsTrue' /\ NothingAheadOfItsServer'
  BY <1>1, <1>5, SameLabelsAndImages
<1> QED
  BY <1>3, <1>4, <1>6 DEF LabelInv

LEMMA StepKeepsLabelInv ==
  ASSUME TypeOK, LabelInv, Serial, [Next]_vars
  PROVE  LabelInv'
<1>1. ASSUME NEW u \in Upgrades, ApplyEtcd(u) PROVE LabelInv'
  <2>1. /\ pc[u] = "apply-etcd"
        /\ Apply(u, "etcd", TagOf(u, "etcd"), "wait-etcd")
    BY <1>1 DEF ApplyEtcd, TagOf
  <2>2. /\ Applied("apply-etcd") = Before("etcd")
        /\ Applied("wait-etcd") = Before("etcd") \cup {"etcd"}
    BY DEF Applied, Before, Marked, Component
  <2> QED
    BY <2>1, <2>2, ApplyKeepsLabelInv DEF Marked, Component
<1>2. ASSUME NEW u \in Upgrades, ApplyApiserver(u) PROVE LabelInv'
  <2> DEFINE c == "kube-apiserver"
  <2>1. /\ pc[u] = "apply-apiserver"
        /\ Apply(u, c, TagOf(u, c), "wait-apiserver")
    BY <1>2 DEF ApplyApiserver, TagOf
  <2>2. /\ Applied("apply-apiserver") = Before(c)
        /\ Applied("wait-apiserver") = Before(c) \cup {c}
    BY DEF Applied, Before, Marked, Component
  <2> QED
    BY <2>1, <2>2, ApplyKeepsLabelInv DEF Marked, Component
<1>3. ASSUME NEW u \in Upgrades, ApplyControllerManager(u) PROVE LabelInv'
  <2> DEFINE c == "kube-controller-manager"
  <2>1. /\ pc[u] = "apply-kcm"
        /\ Apply(u, c, TagOf(u, c), "wait-kcm")
    BY <1>3 DEF ApplyControllerManager, TagOf
  <2>2. /\ Applied("apply-kcm") = Before(c)
        /\ Applied("wait-kcm") = Before(c) \cup {c}
    BY DEF Applied, Before, Marked, Component
  <2> QED
    BY <2>1, <2>2, ApplyKeepsLabelInv DEF Marked, Component
<1>4. ASSUME NEW u \in Upgrades, ApplyScheduler(u) PROVE LabelInv'
  <2> DEFINE c == "kube-scheduler"
  <2>1. /\ pc[u] = "apply-scheduler"
        /\ Apply(u, c, TagOf(u, c), "wait-scheduler")
    BY <1>4 DEF ApplyScheduler, TagOf
  <2>2. /\ Applied("apply-scheduler") = Before(c)
        /\ Applied("wait-scheduler") = Before(c) \cup {c}
    BY DEF Applied, Before, Marked, Component
  <2> QED
    BY <2>1, <2>2, ApplyKeepsLabelInv DEF Marked, Component
<1> QED
  BY <1>1, <1>2, <1>3, <1>4, StepCases, RequestKeepsLabelInv,
     SelectKeepsLabelInv, MarkKeepsLabelInv, FinishKeepsLabelInv,
     OtherStepsKeepLabelInv, EnvironmentKeepsLabelInv

LEMMA LabelInvariant == Spec => []SerialLabelInv
<1>1. Init => SerialLabelInv
  <2> SUFFICES ASSUME Init PROVE LabelInv
    BY DEF SerialLabelInv
  <2>1. FirstVersion \in Versions /\ FirstVersion \in Nat \ {NoVersion}
    BY VersionsAssumption
  <2>2. \A u, w \in Upgrades : pc[u] \in Working /\ pc[w] \in Working => u = w
    BY DEF Init, Working
  <2>3. \A u \in Upgrades : GoroutineInv(u)
    BY <2>1 DEF Init, GoroutineInv, Marked
  <2>4. LabelNamesImages
    BY <2>1, PartsSingle DEF Init, LabelNamesImages
  <2>5. PlainLabelIsTrue
    BY DEF Init, PlainLabelIsTrue
  <2>6. NothingAheadOfItsServer
    BY <2>1 DEF Init, NothingAheadOfItsServer, Component
  <2> QED
    BY <2>2, <2>3, <2>4, <2>5, <2>6 DEF LabelInv
<1>2. TypeOK /\ SerialLabelInv /\ [Next]_vars => SerialLabelInv'
  BY StepKeepsLabelInv DEF SerialLabelInv
<1> QED
  BY <1>1, <1>2, TypeCorrect, PTL DEF Spec

\* LabelNamesImages for any number of requests, failing calls and crashes.
THEOREM LabelRecordsImages == Spec => []LabelNamesImages
<1>1. SerialLabelInv => LabelNamesImages
  BY DEF SerialLabelInv, LabelInv, LabelNamesImages
<1> QED
  BY <1>1, LabelInvariant, PTL

\* PlainLabelIsTrue, likewise.
THEOREM PlainLabelPromise == Spec => []PlainLabelIsTrue
<1>1. SerialLabelInv => PlainLabelIsTrue
  BY DEF SerialLabelInv, LabelInv, PlainLabelIsTrue
<1> QED
  BY <1>1, LabelInvariant, PTL

\* NothingAheadOfItsServer, likewise.
THEOREM SkewIsKept == Spec => []NothingAheadOfItsServer
<1>1. SerialLabelInv => NothingAheadOfItsServer
  BY DEF SerialLabelInv, LabelInv, NothingAheadOfItsServer
<1> QED
  BY <1>1, LabelInvariant, PTL

-----------------------------------------------------------------------------
(* What upgrades leave behind when no call fails and none is cut short.    *)

\* No upgrade was cut short so far.
NoneLost == \A u \in Upgrades : pc[u] # "lost"

\* An upgrade that was lost stays so.
LEMMA LostForGood ==
  ASSUME TypeOK, [Next]_vars, NoneLost'
  PROVE  NoneLost
<1> SUFFICES ASSUME NEW u \in Upgrades, pc[u] = "lost"
             PROVE  pc'[u] = "lost"
  BY DEF NoneLost
<1>1. ASSUME NEW w \in Upgrades,
             \/ \E v \in Versions, n \in NetworkVersions \cup {NoUpgrade} :
                  ClusterUpgrade(w, v, n)
             \/ GetNamespace(w) \/ SelectVersion(w) \/ MarkLabels(w)
             \/ ApplyEtcd(w) \/ ApplyApiserver(w)
             \/ ApplyControllerManager(w) \/ ApplyScheduler(w)
             \/ WaitEnds(w)
             \/ \E installed \in SUBSET Addons, ok \in BOOLEAN :
                  InstallCharts(w, installed, ok)
             \/ FinishLabel(w) \/ FinishRefused(w)
      PROVE  pc'[u] = "lost"
  <2>1. pc[w] # "lost"
    BY <1>1 DEF ClusterUpgrade, GetNamespace, SelectVersion, MarkLabels,
                ApplyEtcd, ApplyApiserver, ApplyControllerManager,
                ApplyScheduler, WaitEnds, InstallCharts, FinishLabel,
                FinishRefused
  <2>2. \A x \in Upgrades \ {w} : pc'[x] = pc[x]
    BY <1>1 DEF ClusterUpgrade, GetNamespace, SelectVersion, MarkLabels,
                ApplyEtcd, ApplyApiserver, ApplyControllerManager,
                ApplyScheduler, Apply, WaitEnds, InstallCharts, FinishLabel,
                FinishRefused, Goto, TypeOK
  <2> QED
    BY <2>1, <2>2
<1>2. CASE ProcessDies
  BY <1>2 DEF ProcessDies, Resting
<1>3. CASE \/ Restart
           \/ \E v \in Versions : DeleteVersion(v) \/ CreateVersion(v)
           \/ \E h \in HARequests :
                ClusterEnableHA(h) \/ PatchReplicas(h) \/ PatchFails(h)
           \/ UNCHANGED vars
  BY <1>3 DEF Restart, DeleteVersion, CreateVersion, ClusterEnableHA,
              PatchReplicas, PatchFails, vars
<1> QED
  BY <1>1, <1>2, <1>3, StepCases

\* When the process dies and no upgrade is lost, none was at work.
LEMMA QuietDeath ==
  ASSUME TypeOK, ProcessDies, NoneLost'
  PROVE  pc' = pc
<1>1. \A u \in Upgrades : pc[u] \in Resting
  BY DEF ProcessDies, NoneLost
<1> QED
  BY <1>1 DEF ProcessDies, TypeOK

(***************************************************************************)
(* A label that is not plain is the business of an upgrade that will write *)
(* it.  Upgrades may overlap: whoever marked the label last is one of them.*)
(***************************************************************************)
MarkHasOwner ==
  ~ApiErrors /\ NoneLost =>
    Len(label) = 1 \/ \E u \in Upgrades : pc[u] \in Marked

\* Only a plain label is written without a goroutine behind it.
LEMMA MarkKeepsOwner == TypeOK /\ MarkHasOwner /\ [Next]_vars => MarkHasOwner'
<1> SUFFICES ASSUME TypeOK, MarkHasOwner, [Next]_vars, ~ApiErrors, NoneLost'
             PROVE  Len(label') = 1 \/ \E u \in Upgrades : pc'[u] \in Marked
  BY DEF MarkHasOwner
<1>1. Len(label) = 1 \/ \E u \in Upgrades : pc[u] \in Marked
  BY LostForGood DEF MarkHasOwner
<1>2. ASSUME label' = label,
             \A u \in Upgrades : pc[u] \in Marked => pc'[u] \in Marked
      PROVE  Len(label') = 1 \/ \E u \in Upgrades : pc'[u] \in Marked
  BY <1>1, <1>2
<1>3. ASSUME NEW u \in Upgrades, MarkLabels(u)
      PROVE  pc'[u] \in Marked
  BY <1>3 DEF MarkLabels, Goto, TypeOK, Marked
<1>4. ASSUME NEW u \in Upgrades, FinishLabel(u)
      PROVE  Len(label') = 1
  BY <1>4 DEF FinishLabel
<1>5. ASSUME NEW u \in Upgrades,
             \/ ApplyEtcd(u) \/ ApplyApiserver(u)
             \/ ApplyControllerManager(u) \/ ApplyScheduler(u)
             \/ WaitEnds(u)
             \/ \E installed \in SUBSET Addons, ok \in BOOLEAN :
                  InstallCharts(u, installed, ok)
      PROVE  /\ label' = label
             /\ \A w \in Upgrades : pc[w] \in Marked => pc'[w] \in Marked
  <2>1. label' = label /\ \A w \in Upgrades \ {u} : pc'[w] = pc[w]
    BY <1>5 DEF ApplyEtcd, ApplyApiserver, ApplyControllerManager,
                ApplyScheduler, Apply, WaitEnds, InstallCharts, Goto, TypeOK,
                nsVars
  <2>2. pc'[u] \in Marked
    BY <1>5 DEF ApplyEtcd, ApplyApiserver, ApplyControllerManager,
                ApplyScheduler, Apply, WaitEnds, AfterWait, InstallCharts,
                Goto, TypeOK, Marked
  <2> QED
    BY <2>1, <2>2
<1>6. ASSUME NEW u \in Upgrades,
             \/ \E v \in Versions, n \in NetworkVersions \cup {NoUpgrade} :
                  ClusterUpgrade(u, v, n)
             \/ GetNamespace(u) \/ SelectVersion(u)
      PROVE  /\ label' = label
             /\ \A w \in Upgrades : pc[w] \in Marked => pc'[w] \in Marked
  <2>1. /\ label' = label /\ \A w \in Upgrades \ {u} : pc'[w] = pc[w]
        /\ pc[u] \in {"idle", "get", "select"}
    BY <1>6 DEF ClusterUpgrade, GetNamespace, SelectVersion, Goto, TypeOK,
                nsVars
  <2>2. pc[u] \notin Marked
    BY <2>1 DEF Marked
  <2> QED
    BY <2>1, <2>2
<1>7. CASE ProcessDies
  BY <1>2, <1>7, QuietDeath DEF ProcessDies, nsVars
<1>8. CASE \/ Restart
           \/ \E v \in Versions : DeleteVersion(v) \/ CreateVersion(v)
           \/ \E h \in HARequests :
                ClusterEnableHA(h) \/ PatchReplicas(h) \/ PatchFails(h)
           \/ UNCHANGED vars
  BY <1>2, <1>8 DEF Restart, DeleteVersion, CreateVersion, ClusterEnableHA,
                    PatchReplicas, PatchFails, vars, nsVars
<1>9. ~ \E u \in Upgrades : FinishRefused(u)
  BY DEF FinishRefused
<1> QED
  BY <1>2, <1>3, <1>4, <1>5, <1>6, <1>7, <1>8, <1>9, StepCases

\* SettledLabelIsPlain for any number of overlapping upgrades.
THEOREM LabelSettles == Spec => []SettledLabelIsPlain
<1>1. Init => MarkHasOwner
  BY DEF Init, MarkHasOwner
<1>2. MarkHasOwner => SettledLabelIsPlain
  BY DEF MarkHasOwner, SettledLabelIsPlain, Settled, NoneLost, Marked
<1> QED
  BY <1>1, <1>2, MarkKeepsOwner, TypeCorrect, PTL DEF Spec

-----------------------------------------------------------------------------
(* The charts against the labels, one upgrade at a time.                   *)

\* The label has been marked, the charts have not been installed.
Pending == Marked \ {"finish"}

(***************************************************************************)
(* Charts follow the labels with a delay: what the upgrade at work has     *)
(* written to the labels is what it will install, and an upgrade that      *)
(* leaves the network alone writes back what is installed.                 *)
(***************************************************************************)
ChartInv ==
  RowsFound /\ NoneLost =>
    /\ (\A u \in Upgrades : pc[u] \notin Pending) =>
         networkChart = networkLabel /\ \A a \in Addons : chart[a] = rowLabel
    /\ \A u \in Upgrades :
         /\ pc[u] \in {"select", "mark"} =>
              seen[u].networkVersion = networkLabel
         /\ pc[u] \in Pending =>
              networkLabel = IF network[u] = NoUpgrade THEN networkChart
                             ELSE network[u]

SerialChartInv == Serial /\ ~ApiErrors => ChartInv

\* A row that was not found is not found later.
LEMMA RowsStayLost ==
  ASSUME TypeOK, LabelInv, [Next]_vars, RowsFound'
  PROVE  RowsFound
<1>1. ASSUME NEW u \in Upgrades, SelectVersion(u)
      PROVE  RowsFound
  <2>1. row[u] # NoVersion /\ \A w \in Upgrades \ {u} : row'[w] = row[w]
    BY <1>1 DEF SelectVersion, LabelInv, GoroutineInv, TypeOK
  <2> QED
    BY <2>1 DEF RowsFound
<1>2. row' = row => RowsFound
  BY DEF RowsFound
<1> QED
  BY <1>1, <1>2, StepCases
     DEF ClusterUpgrade, ClusterEnableHA, DeleteVersion, CreateVersion,
         GetNamespace, MarkLabels, ApplyEtcd, ApplyApiserver,
         ApplyControllerManager, ApplyScheduler, Apply, WaitEnds,
         InstallCharts, FinishLabel, FinishRefused, PatchReplicas, PatchFails,
         ProcessDies, Restart, vars, localVars

\* A step that touches neither the labels ChartInv speaks of nor the charts,
\* and moves goroutines only within the groups of program points it names.
LEMMA ChartsAside ==
  ASSUME ChartInv, RowsFound' => RowsFound, NoneLost' => NoneLost,
         UNCHANGED <<networkLabel, rowLabel, chart, networkChart, seen,
                     network>>,
         \A u \in Upgrades :
           /\ pc'[u] \in Pending <=> pc[u] \in Pending
           /\ pc'[u] \in {"select", "mark"} => pc[u] \in {"select", "mark"}
  PROVE  ChartInv'
BY DEF ChartInv

\* With one upgrade at work the label it read is the label it marks, and the
\* charts it installs are the ones it named there.
LEMMA ChartStep ==
  ASSUME TypeOK, LabelInv, Serial, ~ApiErrors, ChartInv, [Next]_vars
  PROVE  ChartInv'
<1> SUFFICES ASSUME RowsFound', NoneLost'
             PROVE  ChartInv'
  BY DEF ChartInv
<1>1. RowsFound /\ NoneLost
  BY LostForGood, RowsStayLost
<1>2. ASSUME NEW u \in Upgrades, NEW v, NEW n, ClusterUpgrade(u, v, n)
      PROVE  ChartInv'
  <2>1. /\ pc[u] = "idle" /\ pc' = [pc EXCEPT ![u] = "get"]
        /\ network' = [network EXCEPT ![u] = n]
        /\ UNCHANGED <<networkLabel, rowLabel, chart, networkChart, seen>>
    BY <1>2 DEF ClusterUpgrade, Goto, nsVars, chartVars
  <2>2. pc'[u] = "get" /\ \A w \in Upgrades \ {u} : pc'[w] = pc[w]
    BY <2>1 DEF TypeOK
  <2>3. \A w \in Upgrades \ {u} : network'[w] = network[w]
    BY <2>1 DEF TypeOK
  <2>4. "get" \notin Pending /\ "idle" \notin Pending
    BY DEF Pending, Marked
  <2> QED
    BY <1>1, <2>1, <2>2, <2>3, <2>4 DEF ChartInv
<1>3. ASSUME NEW u \in Upgrades, GetNamespace(u)
      PROVE  ChartInv'
  <2>1. /\ pc[u] = "get" /\ pc'[u] \in {"done", "select"}
        /\ \A w \in Upgrades \ {u} : pc'[w] = pc[w] /\ seen'[w] = seen[w]
        /\ seen'[u].networkVersion = networkLabel
        /\ UNCHANGED <<networkLabel, rowLabel, chart, networkChart, network>>
    BY <1>3 DEF GetNamespace, Goto, nsVars, chartVars, TypeOK
  <2>2. {"get", "done", "select"} \cap Pending = {}
    BY DEF Pending, Marked
  <2> QED
    BY <1>1, <2>1, <2>2 DEF ChartInv
<1>4. ASSUME NEW u \in Upgrades, SelectVersion(u)
      PROVE  ChartInv'
  <2>1. /\ pc[u] = "select" /\ pc'[u] = "mark"
        /\ \A w \in Upgrades \ {u} : pc'[w] = pc[w]
        /\ UNCHANGED <<networkLabel, rowLabel, chart, networkChart, seen,
                       network>>
    BY <1>4 DEF SelectVersion, Goto, nsVars, chartVars, TypeOK
  <2>2. {"select", "mark"} \cap Pending = {}
    BY DEF Pending, Marked
  <2> QED
    BY <1>1, <2>1, <2>2, ChartsAside
<1>5. ASSUME NEW u \in Upgrades, MarkLabels(u)
      PROVE  ChartInv'
  <2>1. /\ pc[u] = "mark" /\ pc'[u] = "apply-etcd" /\ pc[u] \in Working
        /\ \A w \in Upgrades \ {u} : pc'[w] = pc[w]
        /\ networkLabel' = IF network[u] = NoUpgrade
                           THEN seen[u].networkVersion ELSE network[u]
        /\ UNCHANGED <<chart, networkChart, network, seen>>
    BY <1>5 DEF MarkLabels, Goto, chartVars, localVars, TypeOK, Working
  <2>2. \A w \in Upgrades \ {u} : pc[w] \in Resting
    BY <2>1, OthersRest
  <2>3. /\ Resting \cap (Pending \cup {"select", "mark"}) = {}
        /\ "mark" \notin Pending /\ "apply-etcd" \in Pending
    BY DEF Resting, Pending, Marked
  <2>4. networkChart = networkLabel /\ seen[u].networkVersion = networkLabel
    BY <1>1, <2>1, <2>2, <2>3 DEF ChartInv
  <2> QED
    BY <2>1, <2>2, <2>3, <2>4 DEF ChartInv
<1>6. ASSUME NEW u \in Upgrades, NEW installed \in SUBSET Addons,
             NEW ok \in BOOLEAN, InstallCharts(u, installed, ok)
      PROVE  ChartInv'
  <2>1. /\ pc[u] = "charts" /\ pc'[u] = "finish" /\ pc[u] \in Working
        /\ \A w \in Upgrades \ {u} : pc'[w] = pc[w]
        /\ UNCHANGED <<networkLabel, rowLabel, network, seen>>
    BY <1>6 DEF InstallCharts, Goto, nsVars, localVars, TypeOK, Working
  <2>2. \A w \in Upgrades \ {u} : pc[w] \in Resting
    BY <2>1, OthersRest
  <2>3. /\ Resting \cap (Pending \cup {"select", "mark"}) = {}
        /\ "charts" \in Pending /\ "charts" \in Marked
        /\ "finish" \notin Pending
    BY DEF Resting, Pending, Marked
  <2>4. rowLabel = row[u] /\ row[u] # NoVersion
    BY <1>1, <2>1, <2>3 DEF LabelInv, GoroutineInv, RowsFound
  <2>5. \A a \in Addons : chart'[a] = rowLabel
    BY <1>6, <2>4 DEF InstallCharts
  <2>6. networkChart' = networkLabel
    BY <1>1, <1>6, <2>1, <2>3 DEF InstallCharts, ChartInv
  <2> QED
    BY <2>1, <2>2, <2>3, <2>5, <2>6 DEF ChartInv
<1>7. ASSUME NEW u \in Upgrades,
             \/ ApplyEtcd(u) \/ ApplyApiserver(u)
             \/ ApplyControllerManager(u) \/ ApplyScheduler(u)
             \/ WaitEnds(u)
      PROVE  ChartInv'
  <2>1. /\ \A w \in Upgrades \ {u} : pc'[w] = pc[w]
        /\ UNCHANGED <<networkLabel, rowLabel, chart, networkChart, seen,
                       network>>
    BY <1>7 DEF ApplyEtcd, ApplyApiserver, ApplyControllerManager,
                ApplyScheduler, Apply, WaitEnds, Goto, TypeOK, nsVars,
                chartVars, localVars
  <2>2. pc[u] \in Pending /\ pc'[u] \in Pending
    BY <1>7 DEF ApplyEtcd, ApplyApiserver, ApplyControllerManager,
                ApplyScheduler, Apply, WaitEnds, AfterWait, Goto, TypeOK,
                Pending, Marked
  <2>3. {"select", "mark"} \cap Pending = {}
    BY DEF Pending, Marked
  <2> QED
    BY <1>1, <2>1, <2>2, <2>3, ChartsAside
<1>8. ASSUME NEW u \in Upgrades, FinishLabel(u) \/ FinishRefused(u)
      PROVE  ChartInv'
  <2>1. /\ pc[u] = "finish" /\ pc'[u] = "done"
        /\ \A w \in Upgrades \ {u} : pc'[w] = pc[w]
        /\ UNCHANGED <<networkLabel, rowLabel, chart, networkChart, seen,
                       network>>
    BY <1>8 DEF FinishLabel, FinishRefused, Goto, TypeOK, nsVars, chartVars,
                localVars
  <2>2. {"finish", "done"} \cap (Pending \cup {"select", "mark"}) = {}
    BY DEF Pending, Marked
  <2> QED
    BY <1>1, <2>1, <2>2, ChartsAside
<1>9. CASE \/ ProcessDies
           \/ Restart
           \/ \E v \in Versions : DeleteVersion(v) \/ CreateVersion(v)
           \/ \E h \in HARequests :
                ClusterEnableHA(h) \/ PatchReplicas(h) \/ PatchFails(h)
           \/ UNCHANGED vars
  <2>1. UNCHANGED <<networkLabel, rowLabel, chart, networkChart, seen, network>>
    BY <1>9 DEF ProcessDies, Restart, DeleteVersion, CreateVersion,
                ClusterEnableHA, PatchReplicas, PatchFails, vars, nsVars,
                chartVars, localVars
  <2>2. pc' = pc
    BY <1>9, QuietDeath
       DEF Restart, DeleteVersion, CreateVersion, ClusterEnableHA,
           PatchReplicas, PatchFails, vars
  <2> QED
    BY <1>1, <2>1, <2>2, ChartsAside
<1> QED
  BY <1>2, <1>3, <1>4, <1>5, <1>6, <1>7, <1>8, <1>9, StepCases

\* SettledChartsAgree for any number of upgrades, kills and deleted rows.
THEOREM ChartsSettle == Spec => []SettledChartsAgree
<1>1. Init => SerialChartInv
  BY DEF Init, SerialChartInv, ChartInv
<1>2. /\ TypeOK /\ SerialLabelInv /\ SerialChartInv /\ [Next]_vars
        => SerialChartInv'
  BY ChartStep DEF SerialChartInv, SerialLabelInv
<1>3. SerialChartInv => SettledChartsAgree
  BY DEF SerialChartInv, ChartInv, SettledChartsAgree, Settled, NoneLost,
         Pending, Marked
<1> QED
  BY <1>1, <1>2, <1>3, LabelInvariant, TypeCorrect, PTL DEF Spec

=============================================================================
