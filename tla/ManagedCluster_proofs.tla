------------------------ MODULE ManagedCluster_proofs ------------------------
(***************************************************************************)
(* Proofs about ManagedCluster, for every set of versions and requests and *)
(* every number of kills and failing calls: all that its run checks on one *)
(* request of each kind.                                                   *)
(*                                                                         *)
(* Requests in turn keep apart what must not meet.  An upgrade in turn     *)
(* works on a cluster that is whole and has it for itself; a create in     *)
(* turn starts from nothing and has put up, at every step, only what its   *)
(* own version names.  The rest is about the label: its mark is owned by   *)
(* the patches' manager, which is why an apply that differs is refused.    *)
(***************************************************************************)
EXTENDS ManagedCluster, ClusterUpgrade_proofs

ManagedStep == [ManagedNext]_allVars

-----------------------------------------------------------------------------
(* ManagedNext, unfolded once and for all, its actions grouped by what     *)
(* they leave alone.                                                       *)

\* Steps of a create that touch neither the label nor a workload.
QuietCreate(c) ==
  \/ ApplyService(c)
  \/ PollAddress(c)
  \/ \E s, n \in BOOLEAN : PollTimesOut(c, s, n)
  \/ ApplyConfig(c)
  \/ CreateFails(c)

\* Steps of a delete that touch no workload.
QuietDelete(d) ==
  \/ GetCluster(d)
  \/ GetClusterFails(d)
  \/ DeleteService(d)
  \/ DeleteConfig(d)
  \/ DeleteNamespace(d)
  \/ DeleteInVain(d)

\* The process goes down.
KokGoes ==
  \/ KokCrashes
  \/ \E u \in Upgrades : UpgradePanics(u)
  \/ \E c \in Creates : PollFails(c)

\* Steps that have nothing to do with upgrades and the label.
AsideStep ==
  \/ \E c \in Creates : RequestCreate(c) \/ QuietCreate(c) \/ CreateWorkload(c)
  \/ \E d \in Deletes : RequestDelete(d) \/ QuietDelete(d) \/ DeleteWorkload(d)
  \/ \E h \in HARequests : RequestHA(h) \/ PatchWorkload(h)
  \/ AddressAssigned
  \/ KokRestarts
  \/ UNCHANGED allVars

\* Every step is one of these.
LEMMA ManagedCases ==
  ASSUME ManagedStep
  PROVE  \/ RequestUpgrade
         \/ \E u \in Upgrades : MoveOn(u)
         \/ \E u \in Upgrades : MarkNamespace(u)
         \/ \E u \in Upgrades : ApplyWorkload(u)
         \/ \E u \in Upgrades : UnmarkNamespace(u)
         \/ \E u \in Upgrades : UnmarkInVain(u)
         \/ \E c \in Creates : ApplyNamespace(c)
         \/ NamespaceFinalized
         \/ KokGoes
         \/ AsideStep
BY DEF ManagedStep, ManagedNext, CreateStep, DeleteStep, UpgradeOnHost,
   QuietCreate, QuietDelete, KokGoes, AsideStep

\* What the quiet steps of a create leave alone.
LEMMA QuietCreateFrame ==
  ASSUME NEW c \in Creates, QuietCreate(c)
  PROVE  /\ UNCHANGED <<vars, workloads, labelOwners, mounts, createVersion,
                        deletePc, marked, turn>>
         /\ phase' = phase \/ (phase = "active" /\ phase' = "terminating")
         /\ service' = service \/ service' \in {"none", "pending"}
         /\ config' \in {config, TRUE}
         /\ NoCallFails \/ CallFails
         /\ createPc[c] \in {"namespace", "service", "await", "waiting",
                             "config"} \cup Component
         /\ createPc' = [createPc EXCEPT ![c] = createPc'[c]]
<1> QED
  BY DEF QuietCreate, ApplyService, PollAddress, PollTimesOut, ApplyConfig,
     CreateFails, GotoCreate, NoCallFails, clusterVars, historyVars

\* What the quiet steps of a delete leave alone.
LEMMA QuietDeleteFrame ==
  ASSUME NEW d \in Deletes, QuietDelete(d)
  PROVE  /\ UNCHANGED <<vars, workloads, labelOwners, mounts, createPc,
                        createVersion, marked, turn>>
         /\ phase' = phase \/ (phase = "active" /\ phase' = "terminating")
         /\ service' \in {service, "none"}
         /\ config' \in {config, FALSE}
         /\ NoCallFails \/ CallFails
         /\ deletePc[d] \in DeleteSteps
<1> QED
  BY DEF QuietDelete, GetCluster, GetClusterFails, DeleteService, DeleteConfig,
     DeleteNamespace, DeleteInVain, GotoDelete, NoCallFails, DeleteSteps,
     clusterVars, historyVars

\* What an HA request leaves alone.
LEMMA HAFrame ==
  ASSUME NEW h \in HARequests, RequestHA(h) \/ PatchWorkload(h)
  PROVE  /\ UNCHANGED <<nsVars, image, chartVars, rows, up, crashes, pc,
                        localVars, clusterVars, mounts, createPc,
                        createVersion, deletePc, marked, turn>>
         /\ NoCallFails \/ CallFails
BY DEF RequestHA, ClusterEnableHA, PatchWorkload, PatchReplicas, PatchFails,
   MergePatch, NoCallFails, workloadVars, otherVars, historyVars

\* An upgrade applies one workload, with the tag its step says, and goes on.
LEMMA AppliesOne ==
  ASSUME NEW u \in Upgrades, ApplyWorkload(u)
  PROVE  \E c \in Component, next \in Marked :
           /\ pc[u] \in Marked
           /\ Apply(u, c, TagOf(u, c), next)
           /\ Applied(next) = Applied(pc[u]) \cup {c}
           /\ OnHost(c \in workloads)
           /\ workloads' = workloads \cup {c}
           /\ UNCHANGED <<phase, service, config, labelOwners, mounts, createPc,
                          createVersion, deletePc, historyVars>>
<1> USE DEF ApplyWorkload, Takes, Named, Applying, Marked, Component, TagOf
<1>1. CASE ApplyEtcd(u)
  <2>1. Applied("wait-etcd") = Applied("apply-etcd") \cup {"etcd"}
    BY DEF Applied
  <2> QED
    BY <1>1, <2>1 DEF ApplyEtcd
<1>2. CASE ApplyApiserver(u)
  <2>1. Applied("wait-apiserver") =
          Applied("apply-apiserver") \cup {"kube-apiserver"}
    BY DEF Applied
  <2> QED
    BY <1>2, <2>1 DEF ApplyApiserver
<1>3. CASE ApplyControllerManager(u)
  <2>1. Applied("wait-kcm") =
          Applied("apply-kcm") \cup {"kube-controller-manager"}
    BY DEF Applied
  <2> QED
    BY <1>3, <2>1 DEF ApplyControllerManager
<1>4. CASE ApplyScheduler(u)
  <2>1. Applied("wait-scheduler") =
          Applied("apply-scheduler") \cup {"kube-scheduler"}
    BY DEF Applied
  <2> QED
    BY <1>4, <2>1 DEF ApplyScheduler
<1> QED
  BY <1>1, <1>2, <1>3, <1>4

\* What the steps aside leave alone: all an upgrade knows, and the label.
LEMMA AsideFrame ==
  ASSUME AsideStep
  PROVE  /\ UNCHANGED <<nsVars, localVars, pc, labelOwners, mounts, marked>>
         /\ phase' = phase \/ (phase = "active" /\ phase' = "terminating")
<1> USE DEF clusterVars, historyVars, otherVars, vars
<1>1. CASE \E c \in Creates :
             RequestCreate(c) \/ QuietCreate(c) \/ CreateWorkload(c)
  <2>1. PICK c \in Creates :
          RequestCreate(c) \/ QuietCreate(c) \/ CreateWorkload(c)
    BY <1>1
  <2>2. CASE RequestCreate(c) \/ CreateWorkload(c)
    BY <2>2 DEF RequestCreate, CreateWorkload, nsVars, localVars
  <2>3. CASE QuietCreate(c)
    BY <2>3, QuietCreateFrame DEF nsVars, localVars
  <2> QED
    BY <2>1, <2>2, <2>3
<1>2. CASE \E d \in Deletes :
             RequestDelete(d) \/ QuietDelete(d) \/ DeleteWorkload(d)
  <2>1. PICK d \in Deletes :
          RequestDelete(d) \/ QuietDelete(d) \/ DeleteWorkload(d)
    BY <1>2
  <2>2. CASE RequestDelete(d) \/ DeleteWorkload(d)
    BY <2>2 DEF RequestDelete, DeleteWorkload, nsVars, localVars
  <2>3. CASE QuietDelete(d)
    BY <2>3, QuietDeleteFrame DEF nsVars, localVars
  <2> QED
    BY <2>1, <2>2, <2>3
<1>3. CASE \E h \in HARequests : RequestHA(h) \/ PatchWorkload(h)
  BY <1>3, HAFrame
<1>4. CASE AddressAssigned \/ KokRestarts \/ UNCHANGED allVars
  BY <1>4 DEF AddressAssigned, KokRestarts, Restart, allVars, nsVars, localVars
<1> QED
  BY <1>1, <1>2, <1>3, <1>4 DEF AsideStep

\* With the process all handlers and upgrades come to rest; the cluster stays
\* as it is.
LEMMA KokGoesFrame ==
  ASSUME KokGoes
  PROVE  /\ ProcessDies
         /\ HandlersLost
         /\ UNCHANGED <<clusterVars, mounts, createVersion, marked, turn>>
         /\ \/ UNCHANGED crashes /\ (NoCallFails \/ CallFails)
            \/ /\ crashes' = crashes + 1
               /\ crashes + failures < MaxFaults
               /\ NoCallFails
BY DEF KokGoes, KokCrashes, Crash, UpgradePanics, PollFails, KokDies,
   NoCallFails, historyVars

-----------------------------------------------------------------------------
(* Types.                                                                  *)

\* A cluster as ClusterCreate leaves it is of the right types.
LEMMA ManagedInitial == ManagedInit => ManagedTypeOK
<1> SUFFICES ASSUME ManagedInit
             PROVE  ManagedTypeOK
  OBVIOUS
<1>1. TypeOK
  BY VersionsAssumption, NetworkAssumption
     DEF ManagedInit, Init, TypeOK, Component, Resting, Snapshot
<1> QED
  BY <1>1, VersionsAssumption DEF ManagedInit, ManagedTypeOK, Over

\* What a delete, and the end of the namespace, leave of the workloads.
LEMMA RemovedType ==
  ASSUME TypeOK, NEW gone, Removed(gone),
         UNCHANGED <<nsVars, chartVars, rows, up, crashes, pc, localVars,
                     haPc>>
  PROVE  TypeOK'
BY DEF TypeOK, Removed, nsVars, chartVars, localVars

\* The counter of failing calls.
LEMMA FailuresType ==
  ASSUME failures \in Nat, NoCallFails \/ CallFails
  PROVE  failures' \in {failures, failures + 1} /\ failures' \in Nat
BY DEF NoCallFails, CallFails

\* With the process all handlers and upgrades come to rest.
LEMMA KokGoesType ==
  ASSUME ManagedTypeOK, KokGoes
  PROVE  /\ ManagedTypeOK'
         /\ ~up'
         /\ \A u \in Upgrades : pc'[u] \in Resting
         /\ \A c \in Creates : createPc'[c] \in Over
         /\ \A d \in Deletes : deletePc'[d] \in Over
<1>0. /\ ProcessDies /\ HandlersLost
      /\ UNCHANGED <<clusterVars, mounts, createVersion, marked, turn>>
      /\ crashes' \in {crashes, crashes + 1}
      /\ NoCallFails \/ CallFails
  BY KokGoesFrame
<1>1. TypeOK'
  <2>1. pc' \in [Upgrades -> Resting \cup Working]
    BY <1>0 DEF ManagedTypeOK, TypeOK, ProcessDies, Resting
  <2>2. haPc' \in [HARequests -> Resting \cup HAWorking]
    BY <1>0 DEF ManagedTypeOK, TypeOK, ProcessDies, Resting
  <2>3. up' \in BOOLEAN
    BY <1>0 DEF ProcessDies
  <2>4. crashes' \in Nat
    BY <1>0 DEF ManagedTypeOK, TypeOK
  <2>5. UNCHANGED <<label, rowLabel, networkLabel, image, replicas, owners,
                    chart, networkChart, rows, target, network, seen, row>>
    BY <1>0 DEF ProcessDies, nsVars, workloadVars, chartVars, localVars
  <2> QED
    BY <2>1, <2>2, <2>3, <2>4, <2>5 DEF ManagedTypeOK, TypeOK
<1>2. /\ createPc' \in [Creates -> Over \cup CreateSteps]
      /\ deletePc' \in [Deletes -> Over \cup DeleteSteps]
  BY <1>0 DEF ManagedTypeOK, HandlersLost, Over
<1>3. /\ \A u \in Upgrades : pc'[u] \in Resting
      /\ \A c \in Creates : createPc'[c] \in Over
      /\ \A d \in Deletes : deletePc'[d] \in Over
  BY <1>0 DEF ProcessDies, HandlersLost, Resting, Over
<1>4. failures' \in Nat
  BY <1>0, FailuresType DEF ManagedTypeOK
<1> QED
  BY <1>0, <1>1, <1>2, <1>3, <1>4 DEF ManagedTypeOK, ProcessDies, clusterVars

\* A step aside keeps the types.
LEMMA AsideType ==
  ASSUME ManagedTypeOK, AsideStep
  PROVE  ManagedTypeOK'
<1> USE DEF ManagedTypeOK, clusterVars, historyVars, otherVars
<1>1. ASSUME NEW c \in Creates, RequestCreate(c)
      PROVE  ManagedTypeOK'
  <2>1. TypeOK'
    BY <1>1, TypeStep DEF RequestCreate
  <2>2. createVersion' \in [Creates -> Versions]
    BY <1>1 DEF RequestCreate, TypeOK
  <2>3. turn' \in {"kept", "creates", "lost"}
    BY <1>1 DEF RequestCreate
  <2> QED
    BY <1>1, <2>1, <2>2, <2>3 DEF RequestCreate, GotoCreate, CreateSteps
<1>2. ASSUME NEW c \in Creates, QuietCreate(c)
      PROVE  ManagedTypeOK'
  <2>1. TypeOK'
    BY <1>2, QuietCreateFrame, TypeStep
  <2>2. createPc'[c] \in Over \cup CreateSteps
    BY <1>2 DEF QuietCreate, ApplyService, PollAddress, PollTimesOut,
       ApplyConfig, CreateFails, GotoCreate, CreateSteps, Component, Over
  <2>3. failures' \in Nat
    BY <1>2, QuietCreateFrame, FailuresType
  <2>4. createPc' \in [Creates -> Over \cup CreateSteps]
    <3>1. createPc' = [createPc EXCEPT ![c] = createPc'[c]]
      BY <1>2, QuietCreateFrame
    <3>2. createPc \in [Creates -> Over \cup CreateSteps]
      OBVIOUS
    <3> HIDE DEF ManagedTypeOK
    <3> QED
      BY <2>2, <3>1, <3>2
  <2>5. /\ phase' \in {"none", "active", "terminating"}
        /\ service' \in {"none", "pending", "ready"}
        /\ config' \in BOOLEAN
        /\ UNCHANGED <<workloads, labelOwners, mounts>>
        /\ UNCHANGED <<createVersion, deletePc, marked, turn>>
    BY <1>2, QuietCreateFrame
  <2> QED
    BY <2>1, <2>3, <2>4, <2>5
<1>3. ASSUME NEW c \in Creates, CreateWorkload(c)
      PROVE  ManagedTypeOK'
  <2>1. TypeOK'
    BY <1>3 DEF CreateWorkload, ServerSideApply, TypeOK, nsVars, chartVars,
       localVars
  <2>2. AfterCreated(createPc[c]) \in Over \cup CreateSteps
    BY <1>3 DEF CreateWorkload, AfterCreated, Over, CreateSteps, Component
  <2> QED
    BY <1>3, <2>1, <2>2 DEF CreateWorkload, GotoCreate
<1>4. ASSUME NEW d \in Deletes, RequestDelete(d)
      PROVE  ManagedTypeOK'
  <2>1. TypeOK'
    BY <1>4, TypeStep DEF RequestDelete
  <2> QED
    BY <1>4, <2>1 DEF RequestDelete, GotoDelete, DeleteSteps
<1>5. ASSUME NEW d \in Deletes, QuietDelete(d)
      PROVE  ManagedTypeOK'
  <2>1. TypeOK'
    BY <1>5, QuietDeleteFrame, TypeStep
  <2>2. deletePc' \in [Deletes -> Over \cup DeleteSteps]
    BY <1>5 DEF QuietDelete, GetCluster, GetClusterFails, DeleteService,
       DeleteConfig, DeleteNamespace, DeleteInVain, GotoDelete, AfterDeleted,
       DeleteSteps, Component, Over
  <2>3. failures' \in Nat
    BY <1>5, QuietDeleteFrame, FailuresType
  <2> QED
    BY <1>5, <2>1, <2>2, <2>3, QuietDeleteFrame
<1>6. ASSUME NEW d \in Deletes, DeleteWorkload(d)
      PROVE  ManagedTypeOK'
  <2>1. TypeOK'
    BY <1>6, RemovedType DEF DeleteWorkload
  <2>2. AfterDeleted(deletePc[d]) \in DeleteSteps
    BY <1>6 DEF DeleteWorkload, AfterDeleted, DeleteSteps, Component
  <2> QED
    BY <1>6, <2>1, <2>2 DEF DeleteWorkload, GotoDelete, Removed
<1>7. ASSUME NEW h \in HARequests, RequestHA(h) \/ PatchWorkload(h)
      PROVE  ManagedTypeOK'
  <2>1. TypeOK'
    BY <1>7, TypeStep DEF RequestHA, PatchWorkload, Next, Operator, HAStep
  <2>2. failures' \in Nat
    BY <1>7, HAFrame, FailuresType
  <2> QED
    BY <1>7, <2>1, <2>2, HAFrame
<1>8. CASE AddressAssigned \/ KokRestarts \/ UNCHANGED allVars
  <2>1. TypeOK'
    BY <1>8, TypeStep DEF AddressAssigned, KokRestarts, Next, allVars
  <2> QED
    BY <1>8, <2>1 DEF AddressAssigned, KokRestarts, allVars
<1> QED
  BY <1>1, <1>2, <1>3, <1>4, <1>5, <1>6, <1>7, <1>8 DEF AsideStep

\* No handler, goroutine or controller leaves the types.
LEMMA ManagedTypeStep ==
  ASSUME ManagedTypeOK, ManagedStep
  PROVE  ManagedTypeOK'
<1> USE DEF ManagedTypeOK, clusterVars, historyVars, otherVars
<1>1. CASE RequestUpgrade
  <2>1. TypeOK'
    BY <1>1, TypeStep DEF RequestUpgrade, Next, Operator
  <2> QED
    BY <1>1, <2>1 DEF RequestUpgrade
<1>2. ASSUME NEW c \in Creates, ApplyNamespace(c)
      PROVE  ManagedTypeOK'
  <2>1. TypeOK'
    BY <1>2 DEF ApplyNamespace, TypeOK, workloadVars, chartVars, localVars
  <2> QED
    BY <1>2, <2>1 DEF ApplyNamespace, GotoCreate, CreateSteps
<1>3. ASSUME NEW u \in Upgrades, MoveOn(u)
      PROVE  ManagedTypeOK'
  <2>1. TypeOK'
    BY <1>3, TypeStep DEF MoveOn, Next, UpgradeStep
  <2> QED
    BY <1>3, <2>1 DEF MoveOn
<1>4. ASSUME NEW u \in Upgrades, MarkNamespace(u)
      PROVE  ManagedTypeOK'
  <2>1. TypeOK'
    BY <1>4, TypeStep DEF MarkNamespace, Next, UpgradeStep
  <2>2. failures' \in Nat
    BY <1>4, FailuresType DEF MarkNamespace
  <2>3. mounts' \in [Upgrades -> SUBSET Component]
    BY <1>4 DEF MarkNamespace
  <2> QED
    BY <1>4, <2>1, <2>2, <2>3 DEF MarkNamespace
<1>5. ASSUME NEW u \in Upgrades, UnmarkNamespace(u)
      PROVE  ManagedTypeOK'
  <2>1. TypeOK'
    BY <1>5, TypeStep DEF UnmarkNamespace, Next, UpgradeStep
  <2> QED
    BY <1>5, <2>1 DEF UnmarkNamespace
<1>6. ASSUME NEW u \in Upgrades, ApplyWorkload(u)
      PROVE  ManagedTypeOK'
  <2>1. TypeOK'
    BY <1>6, TypeStep DEF ApplyWorkload, Next, UpgradeStep
  <2> QED
    BY <1>6, <2>1, AppliesOne
<1>7. ASSUME NEW u \in Upgrades, UnmarkInVain(u)
      PROVE  ManagedTypeOK'
  <2>1. TypeOK'
    BY <1>7 DEF UnmarkInVain, Goto, TypeOK, Resting, nsVars, workloadVars,
       chartVars, localVars
  <2>2. failures' \in Nat
    BY <1>7, FailuresType DEF UnmarkInVain
  <2> QED
    BY <1>7, <2>1, <2>2 DEF UnmarkInVain
<1>8. CASE NamespaceFinalized
  <2>1. TypeOK'
    BY <1>8, RemovedType DEF NamespaceFinalized
  <2> QED
    BY <1>8, <2>1 DEF NamespaceFinalized, Removed
<1> QED
  BY <1>1, <1>2, <1>3, <1>4, <1>5, <1>6, <1>7, <1>8, KokGoesType, AsideType,
     ManagedCases

\* Type correctness, through every life of the namespace.
THEOREM ManagedTypeCorrect == ManagedSpec => []ManagedTypeOK
  BY ManagedInitial, ManagedTypeStep, PTL DEF ManagedSpec, ManagedStep

-----------------------------------------------------------------------------
(* Who brings a namespace back.                                            *)

\* Only the first call of a create makes a namespace where there is none.
THEOREM CreateAloneRevives == ManagedSpec => OnlyCreateRevives
<1>1. [ManagedNext]_allVars =>
        [phase = "none" /\ phase' # "none"
           => \E c \in Creates : createPc[c] = "namespace"]_allVars
  <2> SUFFICES ASSUME ManagedStep, phase = "none",
                      \A c \in Creates : ~ApplyNamespace(c)
               PROVE  phase' = "none"
    BY DEF ApplyNamespace, ManagedStep
  <2>1. ASSUME NEW u \in Upgrades, ApplyWorkload(u)
        PROVE  phase' = phase
    BY <2>1 DEF ApplyWorkload
  <2>2. ASSUME NEW u \in Upgrades,
               \/ MoveOn(u) \/ MarkNamespace(u)
               \/ UnmarkNamespace(u) \/ UnmarkInVain(u)
        PROVE  phase' = phase
    BY <2>2 DEF MoveOn, MarkNamespace, UnmarkNamespace, UnmarkInVain,
       otherVars, clusterVars
  <2>3. ASSUME RequestUpgrade \/ NamespaceFinalized \/ KokGoes
        PROVE  phase' = phase
    BY <2>3, KokGoesFrame DEF RequestUpgrade, NamespaceFinalized, clusterVars
  <2> QED
    BY <2>1, <2>2, <2>3, AsideFrame, ManagedCases
<1> QED
  BY <1>1, PTL DEF ManagedSpec, OnlyCreateRevives

-----------------------------------------------------------------------------
(* The mark.                                                               *)

\* The mark of an upgrade at work is there, at the end of the label, and
\* owned by the manager of the patches.
MarkInv ==
  Serial =>
    /\ \A u, w \in Upgrades : pc[u] \in Working /\ pc[w] \in Working => u = w
    /\ \A u \in marked : pc[u] \in Marked =>
         /\ phase # "none"
         /\ "main" \in labelOwners
         /\ Len(label) > 1
         /\ label[Len(label)] = target[u]

\* What an upgrade has read was a label.
SeenInv == \A u \in Upgrades : seen[u].kubernetes # << >>

\* A label with a mark is not a plain one.
LEMMA NotPlain ==
  ASSUME NEW s, Len(s) > 1
  PROVE  \A v : s # <<v>> /\ Len(s) # 1
<1>1. \A v : Len(<<v>>) = 1
  OBVIOUS
<1>2. Len(s) # 1
  OBVIOUS
<1> QED
  BY <1>1, <1>2, Zenon

\* What is read and what is written is never the empty label.
LEMMA SeenKept ==
  ASSUME ManagedTypeOK, SeenInv, ManagedStep
  PROVE  SeenInv'
<1>1. ASSUME NEW u \in Upgrades, GetNamespace(u)
      PROVE  SeenInv'
  BY <1>1 DEF GetNamespace, SeenInv, ManagedTypeOK, TypeOK
<1>2. ASSUME ~\E u \in Upgrades : GetNamespace(u)
      PROVE  UNCHANGED seen
  <2>1. ASSUME NEW u \in Upgrades,
               \/ MoveOn(u) \/ MarkNamespace(u)
               \/ UnmarkNamespace(u) \/ UnmarkInVain(u)
        PROVE  seen' = seen
    BY <1>2, <2>1 DEF MoveOn, SelectVersion, WaitEnds, InstallCharts,
       MarkNamespace, MarkLabels, UnmarkNamespace, FinishLabel, UnmarkInVain,
       localVars
  <2>2. ASSUME NEW u \in Upgrades, ApplyWorkload(u)
        PROVE  seen' = seen
    BY <2>2, AppliesOne DEF Apply, localVars
  <2>3. ASSUME \/ \E c \in Creates : ApplyNamespace(c)
               \/ RequestUpgrade \/ NamespaceFinalized \/ KokGoes \/ AsideStep
        PROVE  seen' = seen
    BY <2>3, AsideFrame, KokGoesFrame DEF ApplyNamespace, RequestUpgrade,
       ClusterUpgrade, NamespaceFinalized, ProcessDies, localVars
  <2> QED
    BY <2>1, <2>2, <2>3, ManagedCases
<1> QED
  BY <1>1, <1>2 DEF SeenInv

\* How upgrades get on: one is sent, one moves, all are lost, or none moves.
LEMMA UpgradesMove ==
  ASSUME ManagedTypeOK, ManagedStep
  PROVE  \/ /\ RequestUpgrade
            /\ Serial => \A u \in Upgrades : pc[u] \in Resting
            /\ \E u \in Upgrades : pc' = [pc EXCEPT ![u] = "get"]
         \/ \E u \in Upgrades, step \in Resting \cup Working :
              pc[u] \in Working /\ pc' = [pc EXCEPT ![u] = step]
         \/ \A u \in Upgrades : pc'[u] \in Resting
         \/ pc' = pc
<1>1. CASE RequestUpgrade
  BY <1>1 DEF RequestUpgrade, ClusterUpgrade, Goto
<1>2. ASSUME NEW u \in Upgrades,
             \/ MoveOn(u) \/ MarkNamespace(u) \/ ApplyWorkload(u)
             \/ UnmarkNamespace(u) \/ UnmarkInVain(u)
      PROVE  \E step \in Resting \cup Working :
               pc[u] \in Working /\ pc' = [pc EXCEPT ![u] = step]
  <2>1. CASE MoveOn(u)
    BY <2>1 DEF MoveOn, GetNamespace, SelectVersion, WaitEnds, AfterWait,
       InstallCharts, Goto, Working, Resting
  <2>2. CASE MarkNamespace(u)
    BY <2>2 DEF MarkNamespace, MarkLabels, Goto, Working
  <2>3. CASE ApplyWorkload(u)
    BY <2>3, AppliesOne DEF Apply, Goto, Working, Marked
  <2>4. CASE UnmarkNamespace(u) \/ UnmarkInVain(u)
    BY <2>4 DEF UnmarkNamespace, FinishLabel, UnmarkInVain, Goto, Working,
       Resting
  <2> QED
    BY <1>2, <2>1, <2>2, <2>3, <2>4
<1>3. ASSUME \/ \E c \in Creates : ApplyNamespace(c)
             \/ NamespaceFinalized \/ AsideStep
      PROVE  pc' = pc
  BY <1>3, AsideFrame DEF ApplyNamespace, NamespaceFinalized
<1> QED
  BY <1>1, <1>2, <1>3, KokGoesType, ManagedCases

\* Upgrades that wait for each other stay alone.
LEMMA SoloKept ==
  ASSUME ManagedTypeOK, MarkInv, ManagedStep, Serial
  PROVE  \A u, w \in Upgrades :
           pc'[u] \in Working /\ pc'[w] \in Working => u = w
<1> USE DEF MarkInv, ManagedTypeOK, TypeOK
<1>1. \A u \in Upgrades : pc[u] \in Working => pc[u] \notin Resting
  BY DEF Resting, Working
<1>2. CASE /\ \A u \in Upgrades : pc[u] \in Resting
           /\ \E u \in Upgrades : pc' = [pc EXCEPT ![u] = "get"]
  BY <1>1, <1>2
<1>3. CASE \E u \in Upgrades, step \in Resting \cup Working :
             pc[u] \in Working /\ pc' = [pc EXCEPT ![u] = step]
  BY <1>3
<1>4. CASE \A u \in Upgrades : pc'[u] \in Resting
  BY <1>4 DEF Resting, Working
<1> QED
  BY <1>2, <1>3, <1>4, UpgradesMove

\* The mark is kept by what owns the label, not by what the others ask.
LEMMA MarkKept ==
  ASSUME ManagedTypeOK, SeenInv, MarkInv, ManagedStep
  PROVE  MarkInv'
<1> SUFFICES ASSUME Serial, NEW w \in marked', pc'[w] \in Marked
             PROVE  /\ phase' # "none"
                    /\ "main" \in labelOwners'
                    /\ Len(label') > 1
                    /\ label'[Len(label')] = target'[w]
  BY SoloKept DEF MarkInv
<1> USE DEF Goto, clusterVars, historyVars, otherVars
<1>0. /\ pc \in [Upgrades -> Resting \cup Working]
      /\ marked \subseteq Upgrades
      /\ w \in marked /\ pc[w] \in Marked =>
           /\ phase # "none"
           /\ "main" \in labelOwners
           /\ Len(label) > 1
           /\ label[Len(label)] = target[w]
      /\ Resting \cap Marked = {}
  BY DEF MarkInv, ManagedTypeOK, TypeOK, Resting, Marked
<1>1. CASE RequestUpgrade
  BY <1>0, <1>1 DEF RequestUpgrade, ClusterUpgrade, nsVars, Marked,
     ManagedTypeOK, TypeOK
<1>2. CASE \E u \in Upgrades : MoveOn(u)
  <2>1. pc[w] \in Marked
    BY <1>0, <1>2 DEF MoveOn, GetNamespace, SelectVersion, WaitEnds,
       InstallCharts, Marked
  <2>2. UNCHANGED <<label, target, phase, labelOwners, marked>>
    BY <1>2 DEF MoveOn, GetNamespace, SelectVersion, WaitEnds, InstallCharts,
       nsVars, localVars
  <2> QED
    BY <1>0, <2>1, <2>2
<1>3. ASSUME NEW u \in Upgrades, MarkNamespace(u)
      PROVE  /\ phase' # "none" /\ "main" \in labelOwners'
             /\ Len(label') > 1 /\ label'[Len(label')] = target'[w]
  <2>1. w = u
    BY <1>0, <1>3, SoloKept DEF MarkNamespace, MarkLabels, Marked, Working
  <2>2. /\ seen[u].kubernetes \in Seq(Versions) \ {<< >>}
        /\ target[u] \in Versions
    BY DEF ManagedTypeOK, TypeOK, Snapshot, SeenInv
  <2>3. /\ label' = Append(seen[u].kubernetes, target[u])
        /\ target' = target
    BY <1>3 DEF MarkNamespace, MarkLabels, localVars
  <2>4. Len(label') > 1 /\ label'[Len(label')] = target'[u]
    BY <2>2, <2>3
  <2> QED
    BY <1>3, <2>1, <2>4 DEF MarkNamespace
<1>4. CASE \E u \in Upgrades : ApplyWorkload(u)
  BY <1>0, <1>4, AppliesOne DEF Apply, nsVars, localVars
<1>5. CASE \E u \in Upgrades : UnmarkNamespace(u)
  <2>1. PICK u \in Upgrades : UnmarkNamespace(u)
    BY <1>5
  <2>2. w # u /\ pc[w] \in Marked /\ pc[u] \in Marked
    BY <1>0, <2>1 DEF UnmarkNamespace, FinishLabel, Marked
  <2> QED
    BY <1>0, <2>1, <2>2 DEF MarkInv, Marked, Working, UnmarkNamespace
<1>6. CASE \E u \in Upgrades : UnmarkInVain(u)
  BY <1>0, <1>6 DEF UnmarkInVain, nsVars, localVars, Marked
<1>7. CASE KokGoes
  BY <1>0, <1>7, KokGoesType, KokGoesFrame
<1>8. CASE \E c \in Creates : ApplyNamespace(c)
  <2>1. PICK c \in Creates : ApplyNamespace(c)
    BY <1>8
  <2>2. /\ phase # "none" /\ "main" \in labelOwners /\ Len(label) > 1
    BY <1>0, <2>1 DEF ApplyNamespace
  <2>3. label # <<createVersion[c]>>
    BY <2>2, NotPlain
  <2>4. LabelConflict(createVersion[c])
    BY <2>2, <2>3 DEF LabelConflict
  <2> QED
    BY <2>1, <2>4 DEF ApplyNamespace
<1>9. CASE NamespaceFinalized
  BY <1>9 DEF NamespaceFinalized
<1>10. CASE AsideStep
  BY <1>0, <1>10, AsideFrame DEF nsVars, localVars
<1> QED
  BY <1>1, <1>2, <1>3, <1>4, <1>5, <1>6, <1>7, <1>8, <1>9, <1>10, ManagedCases

\* The mark of an upgrade at work stands at the end of the label.
LEMMA MarkInvariant == ManagedSpec => [](ManagedTypeOK /\ SeenInv /\ MarkInv)
<1>1. ManagedInit => ManagedTypeOK /\ SeenInv /\ MarkInv
  <2> SUFFICES ASSUME ManagedInit
               PROVE  ManagedTypeOK /\ SeenInv /\ MarkInv
    OBVIOUS
  <2>1. SeenInv
    BY DEF ManagedInit, Init, SeenInv
  <2>2. MarkInv
    BY DEF ManagedInit, Init, MarkInv, Working
  <2> QED
    BY <2>1, <2>2, ManagedInitial
<1> QED
  BY <1>1, ManagedTypeStep, SeenKept, MarkKept, PTL DEF ManagedSpec, ManagedStep

\* The mark of an upgrade at work stands, whatever creates ask for.
THEOREM MarkIsKept == ManagedSpec => []MarkStands
<1>1. ManagedTypeOK /\ MarkInv => MarkStands
  BY DEF ManagedTypeOK, TypeOK, MarkInv, MarkStands, StageOf, Marked
<1> QED
  BY <1>1, MarkInvariant, PTL

-----------------------------------------------------------------------------
(* Replicas, through every life of a workload.                             *)

\* What is enlarged is owned by the manager of the patches, so that an apply
\* with one replica is refused.
EnlargedInv ==
  \A c \in Component : /\ replicas[c] <= HAReplicas(c)
                       /\ replicas[c] > 1 => "main" \in owners[c]

\* Steps that leave the workloads alone, or take some away.
LEMMA NotEnlarging ==
  ASSUME ManagedTypeOK, ManagedStep, EnlargedInv,
         ~\E u \in Upgrades : ApplyWorkload(u),
         ~\E c \in Creates : CreateWorkload(c),
         ~\E h \in HARequests : RequestHA(h) \/ PatchWorkload(h)
  PROVE  \A c \in Component :
           \/ replicas'[c] = replicas[c] /\ owners'[c] = owners[c]
           \/ replicas'[c] = 0 /\ c \notin workloads'
<1> USE DEF otherVars
<1>1. ASSUME NEW u \in Upgrades,
             \/ MoveOn(u) \/ MarkNamespace(u)
             \/ UnmarkNamespace(u) \/ UnmarkInVain(u)
      PROVE  UNCHANGED <<replicas, owners>>
  BY <1>1 DEF MoveOn, GetNamespace, SelectVersion, WaitEnds, InstallCharts,
     MarkNamespace, MarkLabels, UnmarkNamespace, FinishLabel, UnmarkInVain,
     workloadVars
<1>2. CASE \/ RequestUpgrade \/ KokGoes
           \/ \E c \in Creates : ApplyNamespace(c)
  BY <1>2, KokGoesFrame DEF RequestUpgrade, ClusterUpgrade, ProcessDies,
     ApplyNamespace, workloadVars
<1>3. CASE NamespaceFinalized
  BY <1>3 DEF NamespaceFinalized, Removed
<1>4. ASSUME NEW d \in Deletes, DeleteWorkload(d)
      PROVE  \A c \in Component :
               \/ replicas'[c] = replicas[c] /\ owners'[c] = owners[c]
               \/ replicas'[c] = 0 /\ c \notin workloads'
  BY <1>4 DEF DeleteWorkload, Removed
<1>5. CASE \/ \E c \in Creates : RequestCreate(c) \/ QuietCreate(c)
           \/ \E d \in Deletes : RequestDelete(d) \/ QuietDelete(d)
           \/ AddressAssigned \/ KokRestarts \/ UNCHANGED allVars
  <2>1. UNCHANGED workloadVars
    BY <1>5, QuietCreateFrame, QuietDeleteFrame DEF RequestCreate,
       RequestDelete, AddressAssigned, KokRestarts, Restart, allVars, vars,
       workloadVars
  <2> QED
    BY <2>1 DEF workloadVars
<1> QED
  BY <1>1, <1>2, <1>3, <1>4, <1>5, ManagedCases DEF AsideStep

\* An accepted apply with one replica takes none away.
LEMMA ApplyKeepsEnlarged ==
  ASSUME ManagedTypeOK, EnlargedInv, NEW c \in Component, NEW tag,
         ApplyAccepted(c, 1), ServerSideApply(c, tag, 1)
  PROVE  /\ EnlargedInv'
         /\ \A x \in Component : replicas'[x] >= replicas[x]
<1>1. replicas[c] \in Nat /\ replicas[c] <= 1
  <2>1. replicas[c] \in Nat
    BY DEF ManagedTypeOK, TypeOK
  <2>2. "main" \in owners[c] => replicas[c] = 1
    BY DEF ApplyAccepted
  <2>3. replicas[c] > 1 => "main" \in owners[c]
    BY DEF EnlargedInv
  <2> QED
    BY <2>1, <2>2, <2>3
<1>2. /\ replicas \in [Component -> Nat]
      /\ owners \in [Component -> SUBSET {"kok", "main"}]
  BY DEF ManagedTypeOK, TypeOK
<1>3. /\ replicas'[c] = 1
      /\ \A x \in Component \ {c} :
           replicas'[x] = replicas[x] /\ owners'[x] = owners[x]
  BY <1>2 DEF ServerSideApply
<1>4. 1 <= HAReplicas(c)
  BY DEF HAReplicas
<1> QED
  BY <1>1, <1>2, <1>3, <1>4 DEF EnlargedInv

\* A step keeps the ownership, and with it the replicas of what stays.
LEMMA EnlargedKept ==
  ASSUME ManagedTypeOK, EnlargedInv, ManagedStep
  PROVE  /\ EnlargedInv'
         /\ \A c \in workloads \cap workloads' : replicas'[c] >= replicas[c]
<1>0. /\ replicas \in [Component -> Nat]
      /\ owners \in [Component -> SUBSET {"kok", "main"}]
      /\ workloads \subseteq Component
  BY DEF ManagedTypeOK, TypeOK
<1>1. ASSUME NEW u \in Upgrades, ApplyWorkload(u)
      PROVE  /\ EnlargedInv'
             /\ \A x \in Component : replicas'[x] >= replicas[x]
  <2>1. PICK c \in Component, next \in Marked : Apply(u, c, TagOf(u, c), next)
    BY <1>1, AppliesOne
  <2> QED
    BY <2>1, ApplyKeepsEnlarged DEF Apply
<1>2. ASSUME NEW c \in Creates, CreateWorkload(c)
      PROVE  /\ EnlargedInv'
             /\ \A x \in Component : replicas'[x] >= replicas[x]
  BY <1>2, ApplyKeepsEnlarged DEF CreateWorkload
<1>3. ASSUME NEW h \in HARequests, RequestHA(h) \/ PatchWorkload(h)
      PROVE  /\ EnlargedInv'
             /\ \A x \in Component : replicas'[x] >= replicas[x]
  <2>1. CASE UNCHANGED <<replicas, owners>>
    <3>1. \A x \in Component : replicas[x] >= replicas[x]
      BY <1>0
    <3> QED
      BY <2>1, <3>1 DEF EnlargedInv
  <2>2. CASE PatchReplicas(h)
    <3>1. PICK c \in Component : MergePatch(c, HAReplicas(c))
      BY <2>2 DEF PatchReplicas, HAWorking, Component
    <3>2. HAReplicas(c) \in Nat /\ HAReplicas(c) > 1
      BY DEF HAReplicas
    <3>3. /\ replicas'[c] = HAReplicas(c)
          /\ replicas[c] = HAReplicas(c) => owners'[c] = owners[c]
          /\ replicas[c] # HAReplicas(c) => owners'[c] = {"main"}
          /\ \A x \in Component \ {c} :
               replicas'[x] = replicas[x] /\ owners'[x] = owners[x]
      BY <1>0, <3>1 DEF MergePatch
    <3>4. "main" \in owners'[c]
      BY <3>2, <3>3 DEF EnlargedInv
    <3>5. replicas'[c] >= replicas[c] /\ replicas'[c] <= HAReplicas(c)
      BY <1>0, <3>2, <3>3 DEF EnlargedInv
    <3> QED
      BY <1>0, <3>3, <3>4, <3>5 DEF EnlargedInv
  <2> QED
    BY <1>3, <2>1, <2>2 DEF RequestHA, ClusterEnableHA, PatchWorkload,
       PatchFails, workloadVars
<1>4. CASE /\ ~\E u \in Upgrades : ApplyWorkload(u)
           /\ ~\E c \in Creates : CreateWorkload(c)
           /\ ~\E h \in HARequests : RequestHA(h) \/ PatchWorkload(h)
  <2>1. \A c \in Component : 0 <= HAReplicas(c)
    BY DEF HAReplicas
  <2>2. \A c \in Component :
          \/ replicas'[c] = replicas[c] /\ owners'[c] = owners[c]
          \/ replicas'[c] = 0 /\ c \notin workloads'
    BY <1>4, NotEnlarging
  <2> QED
    BY <1>0, <2>1, <2>2 DEF EnlargedInv
<1> QED
  BY <1>0, <1>1, <1>2, <1>3, <1>4

\* Only a delete takes replicas away.
THEOREM EnlargedIsKept == ManagedSpec => EnlargedStaysEnlarged
<1>1. ManagedInit => EnlargedInv
  BY DEF ManagedInit, Init, EnlargedInv, HAReplicas
<1>2. ManagedTypeOK /\ EnlargedInv /\ [ManagedNext]_allVars
        => /\ EnlargedInv'
           /\ [\A c \in workloads \cap workloads' :
                 replicas'[c] >= replicas[c]]_allVars
  BY EnlargedKept DEF ManagedStep
<1> QED
  BY <1>1, <1>2, ManagedTypeCorrect, PTL
     DEF ManagedSpec, EnlargedStaysEnlarged

-----------------------------------------------------------------------------
(* Orderly requests.                                                       *)

\* What a create has put up before this step.
CreatedBefore(step) ==
  CASE step \in {"namespace", "service", "await", "waiting", "config", "etcd"}
         -> {}
    [] step = "kube-apiserver" -> {"etcd"}
    [] step = "kube-controller-manager" -> {"etcd", "kube-apiserver"}
    [] step = "kube-scheduler" -> Component \ {"kube-scheduler"}

\* The workloads go with the namespace, and nobody here deletes rows.
HostInv ==
  /\ phase = "none" => workloads = {}
  /\ rows = Versions

Orderly ==
  Serial /\ crashes + failures = 0 /\ turn # "lost" /\ NobodyEnlarged

\* The cluster is whole, for as long as upgrades and creates need it.
Standing ==
  /\ Whole
  /\ ~DeleteAtWork
  /\ \A c \in Creates : createPc[c] # "waiting"

\* A create that started from nothing, with nobody else at work.
BuildsAlone(c) ==
  /\ ~DeleteAtWork
  /\ \A b \in Creates : createPc[b] \in CreateSteps => b = c
  /\ workloads \subseteq CreatedBefore(createPc[c])
  /\ createPc[c] = "namespace" => phase = "none"
  /\ createPc[c] \in {"service", "await", "waiting"} => phase = "active"
  /\ createPc[c] \in {"await", "waiting"} => service # "none"

\* The cluster is going up, coming down, or left as it is.
Building ==
  /\ ~UpgradeAtWork
  /\ \A c \in Creates : createPc[c] \in CreateSteps => BuildsAlone(c)

\* What the steps of an orderly upgrade find.
UpgradeFinds ==
  /\ \A u \in Upgrades :
       /\ pc[u] \in Marked => mounts[u] = Component
       /\ pc[u] \in {"select", "mark"} => Len(seen[u].kubernetes) = 1
  /\ (\A u \in Upgrades : pc[u] \notin Marked) => Len(label) = 1

OrderlyBody ==
  /\ up
  /\ \A c \in Component : owners[c] \subseteq {"kok"}
  /\ Standing \/ Building
  /\ UpgradeFinds

OrderlyInv == Orderly => OrderlyBody

InTurn == Serial /\ turn = "kept"

UpgradeInTurn(u) ==
  /\ pc[u] \in {"mark"} \cup Marked => row[u] = target[u]
  /\ pc[u] \in Marked => u \in marked
  /\ \A c \in Applied(pc[u]) : image[c] = target[u]

CreateInTurn(c) ==
  createPc[c] \in CreateSteps =>
    /\ workloads \subseteq CreatedBefore(createPc[c])
    /\ createPc[c] = "namespace" => phase = "none"
    /\ createPc[c] # "namespace" => label = <<createVersion[c]>>

InTurnBody ==
  /\ UpgradeAtWork => Whole /\ ~DeleteAtWork /\ ~CreateAtWork
  /\ \A b, c \in Creates :
       createPc[b] \in CreateSteps /\ createPc[c] \in CreateSteps => b = c
  /\ \A c \in Creates : CreateInTurn(c)
  /\ \A u \in Upgrades : UpgradeInTurn(u)
  /\ Len(label) = 1 => \A c \in workloads : image[c] = label[1]

InTurnInv == InTurn => InTurnBody

-----------------------------------------------------------------------------
(* What is not forgotten.                                                  *)

\* The steps of the upgrade that go on leave these alone.
LEMMA UpgradeFrame ==
  ASSUME ManagedTypeOK, NEW u \in Upgrades,
         \/ MoveOn(u) \/ MarkNamespace(u) \/ ApplyWorkload(u)
         \/ UnmarkNamespace(u) \/ UnmarkInVain(u)
  PROVE  /\ UNCHANGED <<up, crashes, haPc, rows, turn, phase, service, config,
                        createPc, createVersion, deletePc>>
         /\ workloads \subseteq workloads'
         /\ NoCallFails \/ CallFails
         /\ pc[u] \in Working
         /\ \A w \in Upgrades \ {u} : pc'[w] = pc[w]
         /\ target' = target
<1> USE DEF Goto, clusterVars, historyVars, otherVars, NoCallFails, localVars
<1>0. DOMAIN pc = Upgrades
  BY DEF ManagedTypeOK, TypeOK
<1>1. CASE MoveOn(u)
  BY <1>0, <1>1 DEF MoveOn, GetNamespace, SelectVersion, WaitEnds,
     InstallCharts, Working
<1>2. CASE MarkNamespace(u) \/ UnmarkNamespace(u) \/ UnmarkInVain(u)
  BY <1>0, <1>2 DEF MarkNamespace, MarkLabels, UnmarkNamespace, FinishLabel,
     UnmarkInVain, Working
<1>3. CASE ApplyWorkload(u)
  BY <1>0, <1>3, AppliesOne DEF Apply, Marked, Working
<1> QED
  BY <1>1, <1>2, <1>3

\* Kills and failing calls are counted, requests out of turn remembered.
LEMMA HistoryGrows ==
  ASSUME ManagedTypeOK, ManagedStep
  PROVE  /\ crashes' \in {crashes, crashes + 1}
         /\ failures' \in {failures, failures + 1}
         /\ turn' # "lost" => turn # "lost"
         /\ turn' = "kept" => turn = "kept"
<1> USE DEF clusterVars, historyVars, otherVars
<1>0. ASSUME NoCallFails \/ CallFails
      PROVE  failures' \in {failures, failures + 1}
  BY <1>0 DEF NoCallFails, CallFails
<1>1. ASSUME NEW u \in Upgrades,
             \/ MoveOn(u) \/ MarkNamespace(u) \/ ApplyWorkload(u)
             \/ UnmarkNamespace(u) \/ UnmarkInVain(u)
      PROVE  UNCHANGED <<crashes, turn>> /\ (NoCallFails \/ CallFails)
  BY <1>1, UpgradeFrame
<1>2. CASE KokGoes
  BY <1>0, <1>2, KokGoesFrame
<1>3. CASE RequestUpgrade
  BY <1>3 DEF RequestUpgrade, ClusterUpgrade
<1>4. CASE NamespaceFinalized \/ \E c \in Creates : ApplyNamespace(c)
  BY <1>4 DEF NamespaceFinalized, ApplyNamespace
<1>5. ASSUME NEW c \in Creates, RequestCreate(c) \/ CreateWorkload(c)
      PROVE  /\ UNCHANGED <<crashes, failures>>
             /\ turn' # "lost" => turn # "lost"
             /\ turn' = "kept" => turn = "kept"
  BY <1>5 DEF RequestCreate, CreateWorkload, vars
<1>6. ASSUME NEW d \in Deletes, RequestDelete(d) \/ DeleteWorkload(d)
      PROVE  /\ UNCHANGED <<crashes, failures>>
             /\ turn' # "lost" => turn # "lost"
             /\ turn' = "kept" => turn = "kept"
  BY <1>6 DEF RequestDelete, DeleteWorkload, vars
<1>7. CASE \/ \E c \in Creates : QuietCreate(c)
           \/ \E d \in Deletes : QuietDelete(d)
           \/ \E h \in HARequests : RequestHA(h) \/ PatchWorkload(h)
  <2>1. UNCHANGED <<crashes, turn>> /\ (NoCallFails \/ CallFails)
    BY <1>7, QuietCreateFrame, QuietDeleteFrame, HAFrame DEF vars
  <2> QED
    BY <1>0, <2>1
<1>8. CASE AddressAssigned \/ KokRestarts \/ UNCHANGED allVars
  BY <1>8 DEF AddressAssigned, KokRestarts, Restart, allVars, vars
<1> QED
  BY <1>0, <1>1, <1>2, <1>3, <1>4, <1>5, <1>6, <1>7, <1>8, ManagedCases
     DEF AsideStep

\* An HA request that was sent is not taken back.
LEMMA EnlargementStays ==
  ASSUME ManagedTypeOK, ManagedStep, NobodyEnlarged'
  PROVE  /\ NobodyEnlarged
         /\ \A h \in HARequests : ~RequestHA(h) /\ ~PatchWorkload(h)
<1> USE DEF NobodyEnlarged, clusterVars, historyVars, otherVars
<1>1. \A h \in HARequests : ~RequestHA(h) /\ ~PatchWorkload(h)
  <2> SUFFICES ASSUME NEW h \in HARequests, RequestHA(h) \/ PatchWorkload(h)
               PROVE  haPc'[h] # "idle"
    OBVIOUS
  <2>1. h \in DOMAIN haPc
    BY DEF ManagedTypeOK, TypeOK
  <2>2. CASE RequestHA(h)
    BY <2>1, <2>2 DEF RequestHA, ClusterEnableHA
  <2>3. CASE PatchWorkload(h)
    BY <2>1, <2>3 DEF PatchWorkload, PatchReplicas, PatchFails, HAWorking,
       AfterPatch
  <2> QED
    BY <2>2, <2>3
<1>2. CASE KokGoes
  <2>1. \A h \in HARequests : haPc'[h] = "idle" => haPc[h] = "idle"
    BY <1>2, KokGoesFrame DEF ProcessDies
  <2> QED
    BY <1>1, <2>1
<1>3. CASE ~KokGoes
  <2>1. ASSUME NEW u \in Upgrades,
               \/ MoveOn(u) \/ MarkNamespace(u) \/ ApplyWorkload(u)
               \/ UnmarkNamespace(u) \/ UnmarkInVain(u)
        PROVE  haPc' = haPc
    BY <2>1, UpgradeFrame
  <2>2. ASSUME \/ RequestUpgrade \/ NamespaceFinalized
               \/ \E c \in Creates : ApplyNamespace(c)
        PROVE  haPc' = haPc
    BY <2>2 DEF RequestUpgrade, ClusterUpgrade, NamespaceFinalized,
       ApplyNamespace
  <2>3. ASSUME AsideStep
        PROVE  haPc' = haPc
    <3>1. ASSUME \/ \E c \in Creates : QuietCreate(c)
                 \/ \E d \in Deletes : QuietDelete(d)
          PROVE  haPc' = haPc
      BY <3>1, QuietCreateFrame, QuietDeleteFrame DEF vars
    <3>2. ASSUME \/ \E c \in Creates : RequestCreate(c) \/ CreateWorkload(c)
                 \/ \E d \in Deletes : RequestDelete(d) \/ DeleteWorkload(d)
                 \/ AddressAssigned \/ KokRestarts \/ UNCHANGED allVars
          PROVE  haPc' = haPc
      BY <3>2 DEF RequestCreate, CreateWorkload, RequestDelete, DeleteWorkload,
         AddressAssigned, KokRestarts, Restart, allVars, vars
    <3> QED
      BY <1>1, <2>3, <3>1, <3>2 DEF AsideStep
  <2>4. haPc' = haPc
    BY <1>3, <2>1, <2>2, <2>3, ManagedCases
  <2> QED
    BY <1>1, <2>4
<1> QED
  BY <1>2, <1>3

\* What is orderly now has been so all along: no call fails, nobody kills.
LEMMA OrderlyAllAlong ==
  ASSUME ManagedTypeOK, ManagedStep, Orderly'
  PROVE  /\ Orderly
         /\ ~CallFails
         /\ crashes' = crashes
         /\ \A h \in HARequests : ~RequestHA(h) /\ ~PatchWorkload(h)
<1>1. /\ crashes \in Nat /\ failures \in Nat
      /\ crashes' \in Nat /\ failures' \in Nat
  BY ManagedTypeStep DEF ManagedTypeOK, TypeOK
<1>2. /\ crashes' \in {crashes, crashes + 1}
      /\ failures' \in {failures, failures + 1}
  BY HistoryGrows
<1>3. crashes' + failures' = 0
  BY DEF Orderly
<1>4. crashes = 0 /\ failures = 0 /\ crashes' = 0 /\ failures' = 0
  <2>1. \A m, n \in Nat : m + n = 0 => m = 0 /\ n = 0
    OBVIOUS
  <2>2. crashes' = 0 /\ failures' = 0
    BY <1>1, <1>3, <2>1
  <2>3. \A m \in Nat : m + 1 # 0
    OBVIOUS
  <2> QED
    BY <1>1, <1>2, <2>2, <2>3
<1>5. crashes + failures = 0 /\ ~CallFails /\ crashes' = crashes
  BY <1>4 DEF CallFails
<1> QED
  BY <1>5, HistoryGrows, EnlargementStays DEF Orderly

-----------------------------------------------------------------------------
(* The host.                                                               *)

\* A namespace that is gone has no workloads.
LEMMA HostKept ==
  ASSUME ManagedTypeOK, HostInv, ManagedStep
  PROVE  HostInv'
<1> USE DEF clusterVars, historyVars, otherVars
<1>1. ASSUME NEW u \in Upgrades,
             \/ MoveOn(u) \/ MarkNamespace(u)
             \/ UnmarkNamespace(u) \/ UnmarkInVain(u)
      PROVE  UNCHANGED <<rows, phase, workloads>>
  BY <1>1, UpgradeFrame
     DEF MoveOn, MarkNamespace, UnmarkNamespace, UnmarkInVain
<1>2. ASSUME NEW u \in Upgrades, ApplyWorkload(u)
      PROVE  HostInv'
  <2>1. PICK c \in Component :
          OnHost(c \in workloads) /\ workloads' = workloads \cup {c}
    BY <1>2, AppliesOne
  <2> QED
    BY <1>2, <2>1, UpgradeFrame DEF OnHost, HostInv
<1>3. ASSUME NEW c \in Creates, CreateWorkload(c)
      PROVE  HostInv'
  BY <1>3 DEF CreateWorkload, OnHost, HostInv
<1>4. CASE NamespaceFinalized
  BY <1>4 DEF NamespaceFinalized, Removed, HostInv, ManagedTypeOK
<1>5. ASSUME NEW d \in Deletes, DeleteWorkload(d)
      PROVE  HostInv'
  BY <1>5 DEF DeleteWorkload, Removed, HostInv
<1>6. CASE KokRestarts
  BY <1>6 DEF KokRestarts, Restart, HostInv
<1>7. CASE \/ RequestUpgrade \/ KokGoes
           \/ \E c \in Creates : ApplyNamespace(c) \/ RequestCreate(c)
           \/ \E d \in Deletes : RequestDelete(d)
           \/ AddressAssigned \/ UNCHANGED allVars
  <2>1. UNCHANGED <<rows, workloads>> /\ (phase' = "none" => phase = "none")
    BY <1>7, KokGoesFrame DEF RequestUpgrade, ClusterUpgrade, ProcessDies,
       ApplyNamespace, RequestCreate, RequestDelete, AddressAssigned, allVars,
       vars
  <2> QED
    BY <2>1 DEF HostInv
<1>8. CASE \/ \E c \in Creates : QuietCreate(c)
           \/ \E d \in Deletes : QuietDelete(d)
           \/ \E h \in HARequests : RequestHA(h) \/ PatchWorkload(h)
  <2>1. UNCHANGED <<rows, workloads>> /\ (phase' = "none" => phase = "none")
    BY <1>8, QuietCreateFrame, QuietDeleteFrame, HAFrame DEF vars
  <2> QED
    BY <2>1 DEF HostInv
<1> QED
  BY <1>1, <1>2, <1>3, <1>4, <1>5, <1>6, <1>7, <1>8, ManagedCases
     DEF AsideStep, HostInv

-----------------------------------------------------------------------------
(* Orderly requests, kept.                                                 *)

\* A whole cluster that nobody deletes stands: a create that builds has not
\* come so far.
LEMMA WholeStands ==
  ASSUME Standing \/ Building, Whole, ~DeleteAtWork
  PROVE  Standing
<1> SUFFICES ASSUME Building, NEW c \in Creates, createPc[c] = "waiting"
             PROVE  FALSE
  BY DEF Standing
<1>1. workloads \subseteq {}
  BY DEF Building, BuildsAlone, CreatedBefore, CreateSteps
<1> QED
  BY <1>1 DEF Whole, Component

\* In a whole cluster no create has anything left to build.
LEMMA WholeIsBuilt ==
  ASSUME Whole, NEW c \in Creates,
         workloads \subseteq CreatedBefore(createPc[c])
  PROVE  createPc[c] \notin CreateSteps
BY DEF Whole, CreatedBefore, CreateSteps, Component

\* An upgrade at work finds a standing cluster and none of the refusals.
LEMMA NoRefusal ==
  ASSUME ManagedTypeOK, OrderlyBody, MaxLabelParts >= 2,
         NEW u \in Upgrades, pc[u] \in Working
  PROVE  Standing /\ ~UpgradeRefused(u)
<1>1. Standing
  BY DEF OrderlyBody, Building, UpgradeAtWork
<1>2. pc[u] = "mark" => LabelFits(Append(seen[u].kubernetes, target[u]))
  <2> SUFFICES ASSUME pc[u] = "mark"
               PROVE  LabelFits(Append(seen[u].kubernetes, target[u]))
    OBVIOUS
  <2>1. /\ seen[u].kubernetes \in Seq(Versions)
        /\ target[u] \in Versions
        /\ Len(seen[u].kubernetes) = 1
    BY DEF ManagedTypeOK, TypeOK, Snapshot, OrderlyBody, UpgradeFinds
  <2>2. Len(Append(seen[u].kubernetes, target[u])) =
          Len(seen[u].kubernetes) + 1
    BY <2>1, PartsAppend
  <2>3. Len(Append(seen[u].kubernetes, target[u])) = 2
    BY <2>1, <2>2
  <2> QED
    BY <2>3, BoundsAssumption DEF LabelFits
<1>3. pc[u] \in DOMAIN Applying => Takes(u)
  <2> SUFFICES ASSUME pc[u] \in DOMAIN Applying
               PROVE  Takes(u)
    OBVIOUS
  <2>1. Applying[pc[u]] \in Component /\ pc[u] \in Marked
    BY DEF Applying, Component, Marked
  <2>2. mounts[u] = Component /\ owners[Applying[pc[u]]] \subseteq {"kok"}
    BY <2>1 DEF OrderlyBody, UpgradeFinds
  <2>3. phase = "active"
    BY <1>1 DEF Standing, Whole
  <2> QED
    BY <2>1, <2>2, <2>3 DEF Takes, Named, OnHost, ApplyAccepted
<1>4. phase # "none"
  BY <1>1 DEF Standing, Whole
<1> QED
  BY <1>1, <1>2, <1>3, <1>4 DEF UpgradeRefused

\* So the process does not go down.
LEMMA KokStays ==
  ASSUME ManagedTypeOK, Orderly, OrderlyBody, MaxLabelParts >= 2, ~CallFails,
         crashes' = crashes, ManagedStep
  PROVE  ~KokGoes /\ \A u \in Upgrades : ~UnmarkInVain(u)
<1>1. ~KokCrashes
  BY DEF KokCrashes, Crash, ManagedTypeOK, TypeOK
<1>2. ASSUME NEW u \in Upgrades, UpgradePanics(u) \/ UnmarkInVain(u)
      PROVE  FALSE
  <2>1. pc[u] \in Working
    BY <1>2 DEF UpgradePanics, UpgradeRefused, UnmarkInVain, Applying, Working
  <2>2. Standing /\ ~UpgradeRefused(u)
    BY <2>1, NoRefusal
  <2> QED
    BY <1>2, <2>2 DEF UpgradePanics, UnmarkInVain, Standing, Whole
<1>3. ASSUME NEW c \in Creates, PollFails(c)
      PROVE  FALSE
  <2>1. service = "none" /\ createPc[c] \in {"await", "waiting"}
    BY <1>3 DEF PollFails
  <2>2. Building
    BY <2>1 DEF OrderlyBody, Standing, Whole
  <2> QED
    BY <2>1, <2>2 DEF Building, BuildsAlone, CreateSteps
<1> QED
  BY <1>1, <1>2, <1>3 DEF KokGoes

\* A create of the name of a standing cluster leaves it standing.
LEMMA CreateKeepsStanding ==
  ASSUME ManagedTypeOK, Standing, ~CallFails, NEW c \in Creates,
         \/ RequestCreate(c) \/ ApplyNamespace(c) \/ QuietCreate(c)
         \/ CreateWorkload(c)
  PROVE  Standing'
<1> USE DEF clusterVars, historyVars, GotoCreate
<1>0. /\ phase = "active" /\ workloads = Component /\ service = "ready"
      /\ config = TRUE /\ createPc[c] # "waiting" /\ DOMAIN createPc = Creates
  BY DEF Standing, Whole, ManagedTypeOK
<1>1. /\ phase' = "active" /\ service' = "ready" /\ config' = TRUE
      /\ createPc'[c] # "waiting"
  <2>1. CASE RequestCreate(c) \/ ApplyNamespace(c)
    BY <1>0, <2>1 DEF RequestCreate, ApplyNamespace
  <2>2. CASE QuietCreate(c)
    BY <1>0, <2>2 DEF QuietCreate, ApplyService, PollAddress, PollTimesOut,
       ApplyConfig, CreateFails
  <2>3. CASE CreateWorkload(c)
    BY <1>0, <2>3 DEF CreateWorkload, AfterCreated, Component
  <2> QED
    BY <2>1, <2>2, <2>3
<1>2. /\ workloads' = Component
      /\ deletePc' = deletePc
      /\ \A b \in Creates \ {c} : createPc'[b] = createPc[b]
  BY <1>0, QuietCreateFrame DEF RequestCreate, ApplyNamespace, CreateWorkload
<1> QED
  BY <1>1, <1>2 DEF Standing, Whole, DeleteAtWork

\* A create that builds alone goes on building alone.
LEMMA CreateBuilds ==
  ASSUME ManagedTypeOK, Building, ~CallFails, NEW c \in Creates,
         ApplyNamespace(c) \/ QuietCreate(c) \/ CreateWorkload(c)
  PROVE  Building'
<1> USE DEF clusterVars, historyVars, GotoCreate
<1>0. DOMAIN createPc = Creates
  BY DEF ManagedTypeOK
<1>1. createPc[c] \in CreateSteps
  BY QuietCreateFrame DEF ApplyNamespace, CreateWorkload, CreateSteps
<1>2. BuildsAlone(c)
  BY <1>1 DEF Building
<1>3. /\ \A b \in Creates \ {c} : createPc'[b] \notin CreateSteps
      /\ ~DeleteAtWork'
      /\ ~UpgradeAtWork'
  <2>1. \A b \in Creates \ {c} : createPc'[b] = createPc[b]
    BY <1>0, QuietCreateFrame DEF ApplyNamespace, CreateWorkload
  <2>2. deletePc' = deletePc /\ pc' = pc
    BY QuietCreateFrame DEF ApplyNamespace, CreateWorkload, vars
  <2> QED
    BY <1>2, <2>1, <2>2 DEF Building, BuildsAlone, DeleteAtWork, UpgradeAtWork
<1>5. createPc'[c] \in CreateSteps =>
        /\ workloads' \subseteq CreatedBefore(createPc'[c])
        /\ createPc'[c] = "namespace" => phase' = "none"
        /\ createPc'[c] \in {"service", "await", "waiting"} =>
             phase' = "active"
        /\ createPc'[c] \in {"await", "waiting"} => service' # "none"
  <2>1. CASE ApplyNamespace(c)
    BY <1>0, <1>2, <2>1 DEF ApplyNamespace, BuildsAlone, CreatedBefore
  <2>2. CASE ApplyService(c)
    BY <1>0, <1>2, <2>2 DEF ApplyService, BuildsAlone, CreatedBefore
  <2>3. CASE PollAddress(c)
    BY <1>0, <1>2, <2>3 DEF PollAddress, BuildsAlone, CreatedBefore
  <2>4. CASE \E s, n \in BOOLEAN : PollTimesOut(c, s, n)
    BY <1>0, <1>2, <2>4 DEF PollTimesOut, BuildsAlone, CreatedBefore
  <2>5. CASE ApplyConfig(c)
    BY <1>0, <1>2, <2>5 DEF ApplyConfig, BuildsAlone, CreatedBefore
  <2>6. CASE CreateFails(c)
    BY <1>0, <2>6 DEF CreateFails, CreateSteps, Component
  <2>7. CASE CreateWorkload(c)
    <3>1. PICK x \in Component :
            /\ createPc[c] = x /\ createPc'[c] = AfterCreated(x)
            /\ workloads' = workloads \cup {x}
      BY <1>0, <2>7 DEF CreateWorkload
    <3>2. AfterCreated(x) \in CreateSteps =>
            /\ CreatedBefore(AfterCreated(x)) = CreatedBefore(x) \cup {x}
            /\ AfterCreated(x) \notin {"namespace", "service", "await",
                                       "waiting"}
      BY DEF AfterCreated, CreatedBefore, CreateSteps, Component
    <3> QED
      BY <1>2, <3>1, <3>2 DEF BuildsAlone
  <2> QED
    BY <2>1, <2>2, <2>3, <2>4, <2>5, <2>6, <2>7 DEF QuietCreate
<1> QED
  BY <1>3, <1>5 DEF Building, BuildsAlone

\* A create that is sent in turn.
LEMMA CreateComesInTurn ==
  ASSUME ManagedTypeOK, HostInv, Standing \/ Building, turn' # "lost",
         NEW c \in Creates, RequestCreate(c)
  PROVE  Standing' \/ Building'
<1> USE DEF clusterVars, historyVars, GotoCreate
<1>1. \/ phase = "none" /\ ~CreateAtWork /\ ~DeleteAtWork
      \/ Whole /\ ~DeleteAtWork
  BY DEF RequestCreate
<1>2. CASE Whole /\ ~DeleteAtWork
  <2>1. Standing
    BY <1>2, WholeStands
  <2>2. /\ UNCHANGED <<phase, workloads, service, config, deletePc>>
        /\ createPc' = [createPc EXCEPT ![c] = "namespace"]
    BY DEF RequestCreate
  <2>3. \A b \in Creates : createPc'[b] # "waiting"
    BY <2>1, <2>2 DEF Standing, ManagedTypeOK
  <2> QED
    BY <2>1, <2>2, <2>3 DEF Standing, Whole, DeleteAtWork
<1>3. CASE phase = "none" /\ ~CreateAtWork /\ ~DeleteAtWork
  <2>1. Building /\ workloads = {}
    BY <1>3 DEF Standing, Whole, HostInv
  <2>2. /\ UNCHANGED <<phase, workloads, deletePc, pc>>
        /\ createPc' = [createPc EXCEPT ![c] = "namespace"]
    BY DEF RequestCreate, vars
  <2>3. /\ createPc'[c] = "namespace"
        /\ \A b \in Creates \ {c} : createPc'[b] \notin CreateSteps
    BY <1>3, <2>2 DEF ManagedTypeOK, CreateAtWork
  <2>4. ~DeleteAtWork' /\ ~UpgradeAtWork'
    BY <1>3, <2>1, <2>2 DEF DeleteAtWork, Building, UpgradeAtWork
  <2> QED
    BY <1>3, <2>1, <2>2, <2>3, <2>4 DEF Building, BuildsAlone
<1> QED
  BY <1>1, <1>2, <1>3

\* A delete, and the end of the namespace, come when nothing is built or
\* upgraded.
LEMMA DeleteInPeace ==
  ASSUME ManagedTypeOK, Standing \/ Building, turn' # "lost", NEW d \in Deletes,
         RequestDelete(d) \/ QuietDelete(d) \/ DeleteWorkload(d)
  PROVE  Building'
<1> USE DEF clusterVars, historyVars
<1>1. ~UpgradeAtWork /\ ~CreateAtWork
  <2>1. CASE RequestDelete(d)
    BY <2>1 DEF RequestDelete
  <2>2. CASE QuietDelete(d) \/ DeleteWorkload(d)
    <3>1. DeleteAtWork
      BY <2>2, QuietDeleteFrame DEF DeleteWorkload, DeleteAtWork, DeleteSteps
    <3> QED
      BY <3>1 DEF Standing, Building, BuildsAlone, CreateAtWork
  <2> QED
    BY <2>1, <2>2
<1>2. pc' = pc /\ createPc' = createPc
  BY QuietDeleteFrame DEF RequestDelete, DeleteWorkload, vars
<1> QED
  BY <1>1, <1>2 DEF Building, UpgradeAtWork, CreateAtWork

\* The cluster stands, or is left to whoever builds or takes it away.
LEMMA StandsOrBuilds ==
  ASSUME ManagedTypeOK, MarkInv, HostInv, Orderly, OrderlyBody, Orderly',
         MaxLabelParts >= 2, ManagedStep
  PROVE  Standing' \/ Building'
<1> USE DEF clusterVars, historyVars, otherVars
<1>0. /\ ~CallFails /\ crashes' = crashes /\ turn' # "lost"
      /\ \A h \in HARequests : ~RequestHA(h) /\ ~PatchWorkload(h)
  BY OrderlyAllAlong DEF Orderly
<1>1. ASSUME NEW u \in Upgrades,
             \/ MoveOn(u) \/ MarkNamespace(u) \/ ApplyWorkload(u)
             \/ UnmarkNamespace(u) \/ UnmarkInVain(u)
      PROVE  Standing'
  <2>1. Standing
    BY <1>1, UpgradeFrame, NoRefusal
  <2>2. /\ UNCHANGED <<phase, service, config, createPc, deletePc>>
        /\ workloads \subseteq workloads'
    BY <1>1, UpgradeFrame
  <2>3. workloads' \subseteq Component
    BY ManagedTypeStep DEF ManagedTypeOK
  <2> QED
    BY <2>1, <2>2, <2>3 DEF Standing, Whole, DeleteAtWork
<1>2. CASE RequestUpgrade
  <2>1. Whole /\ ~DeleteAtWork
    BY <1>0, <1>2 DEF RequestUpgrade
  <2>2. Standing
    BY <2>1, WholeStands DEF OrderlyBody
  <2> QED
    BY <1>2, <2>2 DEF RequestUpgrade, Standing, Whole, DeleteAtWork
<1>3. CASE \E c \in Creates : RequestCreate(c)
  BY <1>0, <1>3, CreateComesInTurn DEF OrderlyBody
<1>4. CASE \E c \in Creates :
             ApplyNamespace(c) \/ QuietCreate(c) \/ CreateWorkload(c)
  BY <1>0, <1>4, CreateKeepsStanding, CreateBuilds DEF OrderlyBody
<1>5. CASE \E d \in Deletes :
             RequestDelete(d) \/ QuietDelete(d) \/ DeleteWorkload(d)
  BY <1>0, <1>5, DeleteInPeace DEF OrderlyBody
<1>6. CASE NamespaceFinalized
  <2>1. Building /\ phase = "terminating"
    BY <1>6 DEF NamespaceFinalized, OrderlyBody, Standing, Whole
  <2>2. /\ phase' = "none" /\ UNCHANGED <<createPc, deletePc, pc>>
        /\ workloads' = {}
    BY <1>6 DEF NamespaceFinalized, Removed, ManagedTypeOK
  <2> QED
    BY <2>1, <2>2 DEF Building, BuildsAlone, UpgradeAtWork, DeleteAtWork
<1>7. CASE AddressAssigned
  <2>1. Building
    BY <1>7 DEF AddressAssigned, OrderlyBody, Standing, Whole
  <2>2. /\ UNCHANGED <<phase, workloads, createPc, deletePc, pc>>
        /\ service' = "ready"
    BY <1>7 DEF AddressAssigned, vars
  <2> QED
    BY <2>1, <2>2 DEF Building, BuildsAlone, UpgradeAtWork, DeleteAtWork
<1>8. CASE KokRestarts \/ UNCHANGED allVars
  <2>1. UNCHANGED <<phase, workloads, service, config, createPc, deletePc, pc>>
    BY <1>8 DEF KokRestarts, Restart, allVars, vars
  <2> QED
    BY <2>1 DEF OrderlyBody, Standing, Whole, Building, BuildsAlone,
       UpgradeAtWork, DeleteAtWork
<1> QED
  BY <1>0, <1>1, <1>2, <1>3, <1>4, <1>5, <1>6, <1>7, <1>8, KokStays,
     ManagedCases DEF AsideStep

\* Without HA requests no workload has another owner than the creates.
LEMMA OwnersKept ==
  ASSUME ManagedTypeOK, ManagedStep,
         \A c \in Component : owners[c] \subseteq {"kok"},
         \A h \in HARequests : ~RequestHA(h) /\ ~PatchWorkload(h)
  PROVE  \A c \in Component : owners'[c] \subseteq {"kok"}
<1> USE DEF otherVars
<1>1. ASSUME NEW x \in Component, NEW tag, ServerSideApply(x, tag, 1)
      PROVE  \A c \in Component : owners'[c] \subseteq {"kok"}
  BY <1>1 DEF ServerSideApply, ManagedTypeOK, TypeOK
<1>2. CASE \E u \in Upgrades : ApplyWorkload(u)
  BY <1>1, <1>2, AppliesOne DEF Apply
<1>3. CASE \E c \in Creates : CreateWorkload(c)
  BY <1>1, <1>3 DEF CreateWorkload
<1>4. CASE NamespaceFinalized \/ \E d \in Deletes : DeleteWorkload(d)
  BY <1>4 DEF NamespaceFinalized, DeleteWorkload, Removed
<1>5. ASSUME NEW u \in Upgrades,
             \/ MoveOn(u) \/ MarkNamespace(u)
             \/ UnmarkNamespace(u) \/ UnmarkInVain(u)
      PROVE  owners' = owners
  BY <1>5 DEF MoveOn, GetNamespace, SelectVersion, WaitEnds, InstallCharts,
     MarkNamespace, MarkLabels, UnmarkNamespace, FinishLabel, UnmarkInVain,
     workloadVars
<1>6. ASSUME \/ RequestUpgrade \/ KokGoes
             \/ \E c \in Creates : ApplyNamespace(c)
      PROVE  owners' = owners
  BY <1>6, KokGoesFrame DEF RequestUpgrade, ClusterUpgrade, ProcessDies,
     ApplyNamespace, workloadVars
<1>7. ASSUME \/ \E c \in Creates : RequestCreate(c) \/ QuietCreate(c)
             \/ \E d \in Deletes : RequestDelete(d) \/ QuietDelete(d)
             \/ AddressAssigned \/ KokRestarts \/ UNCHANGED allVars
      PROVE  owners' = owners
  BY <1>7, QuietCreateFrame, QuietDeleteFrame DEF RequestCreate, RequestDelete,
     AddressAssigned, KokRestarts, Restart, allVars, vars, workloadVars
<1> QED
  BY <1>2, <1>3, <1>4, <1>5, <1>6, <1>7, ManagedCases DEF AsideStep

\* Upgrades find the label plain, and the namespace with all they mount.
LEMMA FindsKept ==
  ASSUME ManagedTypeOK, MarkInv, Orderly, OrderlyBody, ~CallFails, ~KokGoes,
         \A u \in Upgrades : ~UnmarkInVain(u), ManagedStep, MaxLabelParts >= 2
  PROVE  UpgradeFinds'
<1> USE DEF Goto, clusterVars, historyVars, otherVars
<1>1. /\ pc \in [Upgrades -> Resting \cup Working]
      /\ DOMAIN mounts = Upgrades
      /\ DOMAIN seen = Upgrades
      /\ Marked \cup {"get", "select", "mark"} = Working
      /\ Resting \cap Working = {}
  BY DEF ManagedTypeOK, TypeOK, Resting, Working, Marked
<1>2. /\ \A u, w \in Upgrades : pc[u] \in Working /\ pc[w] \in Working => u = w
      /\ UpgradeFinds
  BY DEF MarkInv, Orderly, OrderlyBody
<1>3. CASE RequestUpgrade
  <2>1. PICK u \in Upgrades, v \in Versions : ClusterUpgrade(u, v, NoUpgrade)
    BY <1>3 DEF RequestUpgrade
  <2>2. \A w \in Upgrades : pc[w] \in Resting
    BY <2>1 DEF ClusterUpgrade, Orderly
  <2>3. \A w \in Upgrades : pc'[w] \in Resting \cup {"get"}
    BY <1>1, <2>1, <2>2 DEF ClusterUpgrade
  <2>4. Len(label) = 1 /\ label' = label
    BY <1>1, <1>2, <2>1, <2>2 DEF UpgradeFinds, ClusterUpgrade, nsVars
  <2> QED
    BY <2>3, <2>4 DEF UpgradeFinds, Marked, Resting
<1>4. ASSUME NEW u \in Upgrades, MoveOn(u)
      PROVE  UpgradeFinds'
  <2>1. pc[u] \in Working /\ \A w \in Upgrades \ {u} :
          pc[w] \in Resting /\ pc'[w] = pc[w]
    BY <1>1, <1>2, <1>4, UpgradeFrame
  <2>2. CASE GetNamespace(u)
    <3>1. Len(label) = 1
      BY <1>1, <1>2, <2>1, <2>2 DEF UpgradeFinds, GetNamespace, Marked
    <3> QED
      BY <1>1, <1>2, <1>4, <2>1, <2>2, <3>1
         DEF UpgradeFinds, GetNamespace, Marked, nsVars, MoveOn
  <2>3. CASE SelectVersion(u) \/ WaitEnds(u)
             \/ \E installed \in SUBSET Addons, ok \in BOOLEAN :
                  InstallCharts(u, installed, ok)
    <3>1. UNCHANGED <<label, seen, mounts>>
      BY <1>4, <2>3 DEF SelectVersion, WaitEnds, InstallCharts, nsVars,
         localVars, MoveOn
    <3>2. \/ pc[u] = "select" /\ pc'[u] = "mark"
          \/ pc[u] \in Marked /\ pc'[u] \in Marked
      BY <1>1, <2>3 DEF SelectVersion, WaitEnds, AfterWait, InstallCharts,
         Marked
    <3> QED
      BY <1>1, <1>2, <2>1, <3>1, <3>2 DEF UpgradeFinds, Marked
  <2> QED
    BY <1>4, <2>2, <2>3 DEF MoveOn
<1>5. ASSUME NEW u \in Upgrades, MarkNamespace(u)
      PROVE  UpgradeFinds'
  <2>1. pc[u] \in Working /\ \A w \in Upgrades \ {u} :
          pc[w] \in Resting /\ pc'[w] = pc[w]
    BY <1>1, <1>2, <1>5, UpgradeFrame
  <2>2. config = TRUE
    BY <2>1, NoRefusal DEF Standing, Whole, ManagedTypeOK
  <2>3. pc'[u] = "apply-etcd" /\ mounts'[u] = Component
    BY <1>1, <1>5, <2>2 DEF MarkNamespace, MarkLabels
  <2> QED
    BY <1>1, <1>2, <2>1, <2>3 DEF UpgradeFinds, Marked, Resting
<1>6. ASSUME NEW u \in Upgrades, ApplyWorkload(u)
      PROVE  UpgradeFinds'
  <2>1. PICK c \in Component, next \in Marked :
          /\ pc[u] \in Marked
          /\ pc' = [pc EXCEPT ![u] = next]
          /\ UNCHANGED <<label, seen, mounts>>
    BY <1>6, AppliesOne DEF Apply, nsVars, localVars
  <2> QED
    BY <1>1, <1>2, <2>1 DEF UpgradeFinds, Marked
<1>7. ASSUME NEW u \in Upgrades, UnmarkNamespace(u)
      PROVE  UpgradeFinds'
  <2>1. \A w \in Upgrades \ {u} : pc[w] \in Resting /\ pc'[w] = pc[w]
    BY <1>1, <1>2, <1>7, UpgradeFrame
  <2>2. pc'[u] = "done" /\ label' = <<target[u]>>
    BY <1>1, <1>7 DEF UnmarkNamespace, FinishLabel
  <2>3. Len(label') = 1
    BY <2>2
  <2>4. \A w \in Upgrades : pc'[w] \in Resting
    BY <2>1, <2>2 DEF Resting
  <2> QED
    BY <2>3, <2>4 DEF UpgradeFinds, Marked, Resting
<1>8. CASE \E c \in Creates : ApplyNamespace(c)
  <2>1. PICK c \in Creates : ApplyNamespace(c)
    BY <1>8
  <2>2. UNCHANGED <<pc, mounts, seen>> /\ label' = <<createVersion[c]>>
    BY <2>1 DEF ApplyNamespace, localVars
  <2>3. Len(label') = 1
    BY <2>2
  <2> QED
    BY <1>2, <2>2, <2>3 DEF UpgradeFinds
<1>9. CASE NamespaceFinalized \/ AsideStep
  <2>1. UNCHANGED <<pc, mounts, seen, label>>
    BY <1>9, AsideFrame DEF NamespaceFinalized, nsVars, localVars
  <2> QED
    BY <1>2, <2>1 DEF UpgradeFinds
<1> QED
  BY <1>3, <1>4, <1>5, <1>6, <1>7, <1>8, <1>9, ManagedCases

\* What is orderly finds, at every step, what it needs.
LEMMA OrderlyKept ==
  ASSUME ManagedTypeOK, MarkInv, HostInv, OrderlyInv, ManagedStep,
         MaxLabelParts >= 2
  PROVE  OrderlyInv'
<1> SUFFICES ASSUME Orderly'
             PROVE  OrderlyBody'
  BY DEF OrderlyInv
<1>1. /\ Orderly /\ OrderlyBody /\ ~CallFails /\ crashes' = crashes
      /\ \A h \in HARequests : ~RequestHA(h) /\ ~PatchWorkload(h)
  BY OrderlyAllAlong DEF OrderlyInv
<1>2. ~KokGoes /\ \A u \in Upgrades : ~UnmarkInVain(u)
  BY <1>1, KokStays
<1>3. up'
  <2>1. ASSUME NEW u \in Upgrades,
               \/ MoveOn(u) \/ MarkNamespace(u) \/ ApplyWorkload(u)
               \/ UnmarkNamespace(u) \/ UnmarkInVain(u)
        PROVE  up' = up
    BY <2>1, UpgradeFrame
  <2>2. CASE \/ RequestUpgrade \/ NamespaceFinalized
             \/ \E c \in Creates : ApplyNamespace(c)
    BY <1>1, <2>2 DEF RequestUpgrade, ClusterUpgrade, NamespaceFinalized,
       ApplyNamespace, OrderlyBody
  <2>3. CASE \/ \E c \in Creates : QuietCreate(c)
             \/ \E d \in Deletes : QuietDelete(d)
    BY <1>1, <2>3, QuietCreateFrame, QuietDeleteFrame DEF vars, OrderlyBody
  <2>4. CASE \/ \E c \in Creates : RequestCreate(c) \/ CreateWorkload(c)
             \/ \E d \in Deletes : RequestDelete(d) \/ DeleteWorkload(d)
             \/ AddressAssigned \/ KokRestarts \/ UNCHANGED allVars
    BY <1>1, <2>4 DEF RequestCreate, CreateWorkload, RequestDelete,
       DeleteWorkload, AddressAssigned, KokRestarts, Restart, allVars, vars,
       OrderlyBody
  <2> QED
    BY <1>1, <1>2, <2>1, <2>2, <2>3, <2>4, ManagedCases
       DEF AsideStep, OrderlyBody
<1>4. \A c \in Component : owners'[c] \subseteq {"kok"}
  BY <1>1, OwnersKept DEF OrderlyBody
<1>5. Standing' \/ Building'
  BY <1>1, StandsOrBuilds
<1>6. UpgradeFinds'
  BY <1>1, <1>2, FindsKept
<1> QED
  BY <1>3, <1>4, <1>5, <1>6 DEF OrderlyBody

\* The namespace and its workloads, at every moment.
LEMMA HostInvariant == ManagedSpec => []HostInv
<1>1. ManagedInit => HostInv
  BY DEF ManagedInit, Init, HostInv
<1> QED
  BY <1>1, HostKept, ManagedTypeCorrect, PTL DEF ManagedSpec, ManagedStep

\* With operators who wait for upgrades to end and labels that hold at least
\* two versions, requests in turn, and creates over a whole cluster, never end
\* the process: only a kill, a failing call or HA makes a goroutine panic.
THEOREM OrderlyKeepsUp ==
  ASSUME Serial, MaxLabelParts >= 2
  PROVE  ManagedSpec => []OrderlyRequestsKeepKokUp
<1>1. ManagedInit => OrderlyInv
  <2> SUFFICES ASSUME ManagedInit
               PROVE  OrderlyBody
    BY DEF OrderlyInv
  <2>1. /\ up /\ pc = [u \in Upgrades |-> "idle"]
        /\ owners = [c \in Component |-> {"kok"}]
        /\ label = <<FirstVersion>>
    BY DEF ManagedInit, Init
  <2>2. Len(label) = 1
    BY <2>1
  <2>3. Standing
    BY DEF ManagedInit, Standing, Whole, DeleteAtWork, DeleteSteps, Component
  <2>4. UpgradeFinds
    BY <2>1, <2>2 DEF UpgradeFinds, Marked
  <2> QED
    BY <2>1, <2>3, <2>4 DEF OrderlyBody
<1>2. /\ ManagedTypeOK /\ MarkInv /\ HostInv /\ OrderlyInv /\ ManagedStep
      => OrderlyInv'
  BY OrderlyKept
<1>3. OrderlyInv => OrderlyRequestsKeepKokUp
  BY DEF OrderlyInv, OrderlyBody, Orderly, OrderlyRequestsKeepKokUp
<1> QED
  BY <1>1, <1>2, <1>3, MarkInvariant, HostInvariant, PTL
     DEF ManagedSpec, ManagedStep

-----------------------------------------------------------------------------
(* Requests in turn, with failing calls and kills.                         *)

\* Nothing is said of upgrades that rest.
LEMMA RestingInTurn ==
  ASSUME \A u \in Upgrades : pc'[u] \in Resting
  PROVE  ~UpgradeAtWork' /\ \A u \in Upgrades : UpgradeInTurn(u)'
BY DEF UpgradeAtWork, UpgradeInTurn, Resting, Working, Marked, Applied

\* A step of an upgrade that has the cluster for itself.
LEMMA UpgradeKeepsTurn ==
  ASSUME ManagedTypeOK, SeenInv, MarkInv, MarkInv', HostInv, InTurnBody,
         ManagedStep, Serial, NEW u \in Upgrades,
         \/ MoveOn(u) \/ MarkNamespace(u) \/ ApplyWorkload(u)
         \/ UnmarkNamespace(u) \/ UnmarkInVain(u)
  PROVE  InTurnBody'
<1> USE DEF Goto, clusterVars, historyVars, otherVars
<1>1. /\ pc \in [Upgrades -> Resting \cup Working]
      /\ row \in [Upgrades -> Versions \cup {NoVersion}]
      /\ target \in [Upgrades -> Versions]
      /\ image \in [Component -> Versions \cup {NoVersion}]
      /\ Marked \cup {"get", "select", "mark"} = Working
      /\ Resting \cap Working = {}
  BY DEF ManagedTypeOK, TypeOK, Resting, Working, Marked
<1>2. /\ pc[u] \in Working
      /\ \A w \in Upgrades \ {u} : pc'[w] = pc[w]
      /\ UNCHANGED <<target, phase, service, config, createPc, createVersion,
                     deletePc>>
      /\ workloads \subseteq workloads'
  BY UpgradeFrame
<1>3. /\ \A w \in Upgrades \ {u} : pc[w] \in Resting
      /\ Whole /\ ~DeleteAtWork /\ ~CreateAtWork
      /\ UpgradeInTurn(u)
  BY <1>1, <1>2 DEF MarkInv, InTurnBody, UpgradeAtWork
<1>4. workloads' = Component
  BY <1>2, <1>3, ManagedTypeStep DEF Whole, ManagedTypeOK
<1>5. /\ UpgradeAtWork' => Whole' /\ ~DeleteAtWork' /\ ~CreateAtWork'
      /\ \A b, c \in Creates : createPc'[b] \in CreateSteps
                               /\ createPc'[c] \in CreateSteps => b = c
      /\ \A c \in Creates : CreateInTurn(c)'
  BY <1>2, <1>3, <1>4 DEF Whole, DeleteAtWork, CreateAtWork, CreateInTurn
<1>6. \A w \in Upgrades \ {u} : UpgradeInTurn(w)'
  BY <1>2, <1>3 DEF UpgradeInTurn, Resting, Marked, Applied
<1>7. UpgradeInTurn(u)' /\ (Len(label') = 1 =>
                             \A c \in Component : image'[c] = label'[1])
  <2>1. Len(label) = 1 => \A c \in Component : image[c] = label[1]
    BY <1>3 DEF InTurnBody, Whole
  <2>2. CASE MoveOn(u)
    <3>1. UNCHANGED <<label, image, marked>>
      BY <2>2 DEF MoveOn, GetNamespace, SelectVersion, WaitEnds, InstallCharts,
         nsVars, workloadVars
    <3>2. CASE GetNamespace(u)
      BY <1>1, <2>1, <3>1, <3>2
         DEF GetNamespace, UpgradeInTurn, Marked, Applied
    <3>3. CASE SelectVersion(u)
      <4>1. pc'[u] = "mark" /\ row'[u] = target[u]
        BY <1>1, <3>3 DEF SelectVersion, HostInv
      <4> QED
        BY <1>2, <2>1, <3>1, <4>1 DEF UpgradeInTurn, Marked, Applied
    <3>4. CASE WaitEnds(u) \/ \E installed \in SUBSET Addons, ok \in BOOLEAN :
                                InstallCharts(u, installed, ok)
      <4>1. /\ pc[u] \in Marked /\ pc'[u] \in Marked
            /\ Applied(pc'[u]) = Applied(pc[u])
            /\ row' = row
        BY <1>1, <3>4 DEF WaitEnds, AfterWait, InstallCharts, Marked, Applied,
           localVars
      <4> QED
        BY <1>2, <1>3, <2>1, <3>1, <4>1 DEF UpgradeInTurn
    <3> QED
      BY <2>2, <3>2, <3>3, <3>4 DEF MoveOn
  <2>3. CASE MarkNamespace(u)
    <3>1. /\ pc[u] = "mark" /\ pc'[u] = "apply-etcd" /\ row' = row
          /\ u \in marked'
      BY <1>1, <2>3 DEF MarkNamespace, MarkLabels, localVars
    <3>2. Len(label') # 1
      <4>1. Len(label') > 1
        BY <3>1 DEF MarkInv, Marked
      <4> QED
        BY <4>1, NotPlain
    <3>3. Applied("apply-etcd") = {}
      BY DEF Applied, Marked
    <3>4. row[u] = target[u]
      BY <1>3, <3>1 DEF UpgradeInTurn
    <3> QED
      BY <1>2, <3>1, <3>2, <3>3, <3>4 DEF UpgradeInTurn
  <2>4. CASE ApplyWorkload(u)
    <3>1. PICK c \in Component, next \in Marked :
            /\ pc[u] \in Marked
            /\ Apply(u, c, TagOf(u, c), next)
            /\ Applied(next) = Applied(pc[u]) \cup {c}
            /\ marked' = marked
      BY <2>4, AppliesOne
    <3>2. /\ pc'[u] = next /\ UNCHANGED <<label, row>>
          /\ image' = [image EXCEPT ![c] = TagOf(u, c)]
      BY <1>1, <3>1 DEF Apply, ServerSideApply, nsVars, localVars
    <3>3. TagOf(u, c) = target[u]
      BY <1>3, <3>1 DEF TagOf, UpgradeInTurn
    <3>4. Len(label) # 1
      <4>1. Len(label) > 1
        BY <1>3, <3>1 DEF MarkInv, UpgradeInTurn
      <4> QED
        BY <4>1, NotPlain
    <3>5. row[u] = target[u] /\ u \in marked
      BY <1>3, <3>1 DEF UpgradeInTurn
    <3>6. \A x \in Applied(next) : image'[x] = target[u]
      BY <1>1, <1>3, <3>1, <3>2, <3>3 DEF UpgradeInTurn, Applied
    <3> QED
      BY <1>2, <3>1, <3>2, <3>4, <3>5, <3>6 DEF UpgradeInTurn
  <2>5. CASE UnmarkNamespace(u)
    <3>1. Applied("finish") = Component
      BY DEF Applied, Marked, Component
    <3>2. /\ pc[u] = "finish" /\ pc'[u] = "done"
          /\ label' = <<target[u]>> /\ image' = image
      BY <1>1, <2>5 DEF UnmarkNamespace, FinishLabel, workloadVars
    <3>3. UpgradeInTurn(u)'
      BY <3>2 DEF UpgradeInTurn, Marked, Applied
    <3> QED
      BY <1>3, <3>1, <3>2, <3>3 DEF UpgradeInTurn
  <2>6. CASE UnmarkInVain(u)
    <3>1. pc'[u] = "done" /\ UNCHANGED <<label, image>>
      BY <1>1, <2>6 DEF UnmarkInVain, nsVars, workloadVars
    <3> QED
      BY <2>1, <3>1 DEF UpgradeInTurn, Marked, Applied
  <2> QED
    BY <2>2, <2>3, <2>4, <2>5, <2>6
<1> QED
  BY <1>4, <1>5, <1>6, <1>7 DEF InTurnBody

\* A step of a create: upgrades rest, and what is there is of its version.
LEMMA CreateKeepsTurn ==
  ASSUME ManagedTypeOK, HostInv, InTurnBody, turn' = "kept", NEW c \in Creates,
         \/ RequestCreate(c) \/ ApplyNamespace(c) \/ QuietCreate(c)
         \/ CreateWorkload(c)
  PROVE  InTurnBody'
<1> USE DEF GotoCreate, clusterVars, historyVars
<1>1. /\ createPc \in [Creates -> Over \cup CreateSteps]
      /\ createVersion \in [Creates -> Versions]
      /\ image \in [Component -> Versions \cup {NoVersion}]
      /\ pc \in [Upgrades -> Resting \cup Working]
      /\ Over \cap CreateSteps = {}
  BY DEF ManagedTypeOK, TypeOK, Over, CreateSteps, Component
<1>2. CASE RequestCreate(c)
  <2>1. phase = "none" /\ ~CreateAtWork
    BY <1>2 DEF RequestCreate, CreateAtWork
  <2>2. /\ \A b \in Creates \ {c} : createPc'[b] \notin CreateSteps
        /\ createPc'[c] = "namespace"
    BY <1>1, <1>2, <2>1 DEF RequestCreate, CreateAtWork
  <2>3. ~UpgradeAtWork /\ workloads = {}
    BY <2>1 DEF InTurnBody, Whole, HostInv
  <2>4. /\ \A u \in Upgrades : pc'[u] \in Resting
        /\ workloads' = {} /\ phase' = "none"
    BY <1>1, <1>2, <2>1, <2>3 DEF RequestCreate, UpgradeAtWork, vars
  <2> QED
    BY <2>2, <2>4, RestingInTurn DEF InTurnBody, CreateInTurn
<1>3. CASE ApplyNamespace(c) \/ QuietCreate(c) \/ CreateWorkload(c)
  <2>1. createPc[c] \in CreateSteps
    BY <1>3, QuietCreateFrame DEF ApplyNamespace, CreateWorkload, CreateSteps
  <2>2. /\ \A b \in Creates \ {c} : createPc[b] \notin CreateSteps
        /\ CreateInTurn(c)
        /\ ~UpgradeAtWork
    BY <2>1 DEF InTurnBody, CreateAtWork
  <2>3. /\ \A b \in Creates \ {c} : createPc'[b] = createPc[b]
        /\ createVersion' = createVersion
    BY <1>1, <1>3, QuietCreateFrame DEF ApplyNamespace, CreateWorkload
  <2>4. /\ ~UpgradeAtWork'
        /\ \A u \in Upgrades : UpgradeInTurn(u)'
    <3>1. pc' = pc
      BY <1>3, QuietCreateFrame DEF ApplyNamespace, CreateWorkload, vars
    <3> QED
      BY <1>1, <2>2, <3>1, RestingInTurn DEF UpgradeAtWork
  <2>5. /\ CreateInTurn(c)'
        /\ Len(label') = 1 => \A x \in workloads' : image'[x] = label'[1]
    <3>1. CASE ApplyNamespace(c)
      <4>1. /\ createPc[c] = "namespace" /\ createPc'[c] = "service"
            /\ label' = <<createVersion[c]>> /\ workloads' = workloads
        BY <1>1, <3>1 DEF ApplyNamespace
      <4>2. workloads = {}
        BY <2>1, <2>2, <4>1 DEF CreateInTurn, HostInv
      <4> QED
        BY <2>3, <4>1, <4>2 DEF CreateInTurn
    <3>2. CASE QuietCreate(c)
      <4>1. UNCHANGED <<label, image, workloads>>
        BY <3>2, QuietCreateFrame DEF vars
      <4>2. \/ /\ createPc[c] \in {"service", "await", "waiting", "config"}
               /\ createPc'[c] \in {"await", "waiting", "config", "etcd"}
            \/ createPc'[c] = "failed"
        BY <1>1, <3>2 DEF QuietCreate, ApplyService, PollAddress, PollTimesOut,
           ApplyConfig, CreateFails
      <4>3. "failed" \notin CreateSteps
        BY DEF CreateSteps, Component
      <4>4. \A step \in {"service", "await", "waiting", "config", "etcd"} :
              CreatedBefore(step) = {}
        BY DEF CreatedBefore
      <4> QED
        BY <2>1, <2>2, <2>3, <4>1, <4>2, <4>3, <4>4
           DEF CreateInTurn, InTurnBody
    <3>3. CASE CreateWorkload(c)
      <4>1. PICK x \in Component :
              /\ createPc[c] = x /\ createPc'[c] = AfterCreated(x)
              /\ label' = label /\ workloads' = workloads \cup {x}
              /\ image' = [image EXCEPT ![x] = createVersion[c]]
        BY <1>1, <3>3 DEF CreateWorkload, ServerSideApply, nsVars
      <4>2. label = <<createVersion[c]>> /\ workloads \subseteq CreatedBefore(x)
        BY <2>1, <2>2, <4>1 DEF CreateInTurn, Component
      <4>3. AfterCreated(x) \in CreateSteps =>
              CreatedBefore(AfterCreated(x)) = CreatedBefore(x) \cup {x}
        BY DEF AfterCreated, CreatedBefore, CreateSteps, Component
      <4>4. AfterCreated(x) # "namespace"
        BY DEF AfterCreated, Component
      <4>5. CreateInTurn(c)'
        BY <2>3, <4>1, <4>2, <4>3, <4>4 DEF CreateInTurn
      <4>6. Len(label) = 1 /\ label[1] = createVersion[c]
        BY <4>2
      <4>7. \A y \in workloads' : image'[y] = label'[1]
        BY <1>1, <4>1, <4>6 DEF InTurnBody
      <4> QED
        BY <4>5, <4>7
    <3> QED
      BY <1>3, <3>1, <3>2, <3>3
  <2>6. \A b \in Creates \ {c} : CreateInTurn(b)'
    BY <2>2, <2>3 DEF CreateInTurn
  <2>7. \A a, b \in Creates :
          createPc'[a] \in CreateSteps /\ createPc'[b] \in CreateSteps => a = b
    BY <2>2, <2>3
  <2> QED
    BY <2>4, <2>5, <2>6, <2>7 DEF InTurnBody
<1> QED
  BY <1>2, <1>3

\* What takes workloads away leaves nothing that was not there.
LEMMA RemovalKeepsTurn ==
  ASSUME InTurnBody,
         \A u \in Upgrades : pc'[u] \in Resting,
         \A c \in Creates : createPc'[c] \in CreateSteps =>
                              createPc'[c] = createPc[c],
         phase = "none" => phase' = "none",
         workloads' \subseteq workloads,
         \A x \in workloads' : image'[x] = image[x],
         label' = label, createVersion' = createVersion
  PROVE  InTurnBody'
<1>1. ~UpgradeAtWork' /\ \A u \in Upgrades : UpgradeInTurn(u)'
  BY RestingInTurn
<1>2. \A c \in Creates : CreateInTurn(c)'
  BY DEF InTurnBody, CreateInTurn, CreateSteps
<1>3. \A b, c \in Creates :
        createPc'[b] \in CreateSteps /\ createPc'[c] \in CreateSteps => b = c
  BY DEF InTurnBody
<1>4. Len(label') = 1 => \A x \in workloads' : image'[x] = label'[1]
  BY DEF InTurnBody
<1> QED
  BY <1>1, <1>2, <1>3, <1>4 DEF InTurnBody

\* A step of a delete: upgrades rest.
LEMMA DeleteKeepsTurn ==
  ASSUME ManagedTypeOK, InTurnBody, turn' = "kept", NEW d \in Deletes,
         RequestDelete(d) \/ QuietDelete(d) \/ DeleteWorkload(d)
  PROVE  InTurnBody'
<1> USE DEF clusterVars, historyVars
<1>1. ~UpgradeAtWork
  <2>1. CASE RequestDelete(d)
    BY <2>1 DEF RequestDelete
  <2>2. CASE QuietDelete(d) \/ DeleteWorkload(d)
    <3>1. DeleteAtWork
      BY <2>2, QuietDeleteFrame DEF DeleteWorkload, DeleteAtWork, DeleteSteps
    <3> QED
      BY <3>1 DEF InTurnBody
  <2> QED
    BY <2>1, <2>2
<1>2. /\ UNCHANGED <<pc, createPc, createVersion, label>>
      /\ phase = "none" => phase' = "none"
  BY QuietDeleteFrame DEF RequestDelete, DeleteWorkload, vars, nsVars
<1>3. /\ workloads' \subseteq workloads
      /\ \A x \in workloads' : image'[x] = image[x]
  <2>1. CASE DeleteWorkload(d)
    BY <2>1 DEF DeleteWorkload, Removed, ManagedTypeOK
  <2>2. CASE RequestDelete(d) \/ QuietDelete(d)
    BY <2>2, QuietDeleteFrame DEF RequestDelete, vars
  <2> QED
    BY <2>1, <2>2
<1>4. \A u \in Upgrades : pc'[u] \in Resting
  BY <1>1, <1>2 DEF UpgradeAtWork, ManagedTypeOK, TypeOK
<1> QED
  BY <1>2, <1>3, <1>4, RemovalKeepsTurn

\* Requests in turn do not meet.
LEMMA InTurnKept ==
  ASSUME ManagedTypeOK, SeenInv, MarkInv, MarkInv', HostInv, InTurnInv,
         ManagedStep
  PROVE  InTurnInv'
<1> SUFFICES ASSUME InTurn'
             PROVE  InTurnBody'
  BY DEF InTurnInv
<1>1. InTurn /\ InTurnBody
  BY HistoryGrows DEF InTurn, InTurnInv
<1>2. pc \in [Upgrades -> Resting \cup Working] /\ Resting \cap Working = {}
  BY DEF ManagedTypeOK, TypeOK, Resting, Working, Marked
<1> USE DEF InTurn, clusterVars, historyVars, otherVars
<1>3. CASE RequestUpgrade
  <2>1. PICK u \in Upgrades, v \in Versions : ClusterUpgrade(u, v, NoUpgrade)
    BY <1>3 DEF RequestUpgrade
  <2>2. Whole /\ ~DeleteAtWork
    BY <1>1, <1>3 DEF RequestUpgrade
  <2>3. ~CreateAtWork
    BY <1>1, <2>2, WholeIsBuilt DEF CreateAtWork, InTurnBody, CreateInTurn
  <2>4. \A w \in Upgrades : pc[w] \in Resting
    BY <1>1, <2>1 DEF ClusterUpgrade
  <2>5. \A w \in Upgrades : pc'[w] \in Resting \cup {"get"}
    BY <1>2, <2>1, <2>4 DEF ClusterUpgrade, Goto
  <2>6. UNCHANGED <<label, image, clusterVars, createPc, createVersion,
                    deletePc, marked>>
    BY <1>3, <2>1
       DEF RequestUpgrade, ClusterUpgrade, nsVars, workloadVars
  <2>7. \A w \in Upgrades : UpgradeInTurn(w)'
    BY <2>5 DEF UpgradeInTurn, Resting, Marked, Applied
  <2>8. \A c \in Creates : CreateInTurn(c)'
    BY <2>3, <2>6 DEF CreateInTurn, CreateAtWork
  <2> QED
    BY <1>1, <2>2, <2>3, <2>6, <2>7, <2>8
       DEF InTurnBody, Whole, DeleteAtWork, CreateAtWork
<1>4. CASE \E c \in Creates : \/ RequestCreate(c) \/ ApplyNamespace(c)
                              \/ QuietCreate(c) \/ CreateWorkload(c)
  BY <1>1, <1>4, CreateKeepsTurn
<1>5. CASE \E d \in Deletes :
             RequestDelete(d) \/ QuietDelete(d) \/ DeleteWorkload(d)
  BY <1>1, <1>5, DeleteKeepsTurn
<1>6. CASE \E u \in Upgrades :
             \/ MoveOn(u) \/ MarkNamespace(u) \/ ApplyWorkload(u)
             \/ UnmarkNamespace(u) \/ UnmarkInVain(u)
  BY <1>1, <1>6, UpgradeKeepsTurn
<1>7. CASE KokGoes
  <2>1. /\ \A u \in Upgrades : pc'[u] \in Resting
        /\ \A c \in Creates : createPc'[c] \in Over
    BY <1>7, KokGoesType
  <2>2. UNCHANGED <<phase, workloads, image, label, createVersion>>
    BY <1>7, KokGoesFrame DEF ProcessDies, nsVars, workloadVars
  <2>3. Over \cap CreateSteps = {}
    BY DEF Over, CreateSteps, Component
  <2> QED
    BY <1>1, <2>1, <2>2, <2>3, RemovalKeepsTurn
<1>8. CASE NamespaceFinalized
  <2>1. \A u \in Upgrades : pc'[u] \in Resting
    BY <1>1, <1>2, <1>8 DEF NamespaceFinalized, InTurnBody, UpgradeAtWork, Whole
  <2>2. /\ workloads' = {} /\ phase' = "none"
        /\ UNCHANGED <<label, createPc, createVersion>>
    BY <1>8 DEF NamespaceFinalized, Removed, ManagedTypeOK, nsVars
  <2> QED
    BY <1>1, <2>1, <2>2, RemovalKeepsTurn
<1>9. CASE AddressAssigned
  <2>1. /\ ~UpgradeAtWork
        /\ UNCHANGED <<vars, phase, workloads, createPc, createVersion>>
    BY <1>1, <1>9 DEF AddressAssigned, InTurnBody, Whole
  <2>2. \A u \in Upgrades : pc'[u] \in Resting
    BY <1>2, <2>1 DEF UpgradeAtWork, vars
  <2>3. UNCHANGED <<image, label>>
    BY <2>1 DEF vars
  <2> QED
    BY <1>1, <2>1, <2>2, <2>3, RemovalKeepsTurn
<1>10. CASE \/ KokRestarts \/ UNCHANGED allVars
            \/ \E h \in HARequests : RequestHA(h) \/ PatchWorkload(h)
  <2>1. UNCHANGED <<pc, row, target, image, label, phase, workloads, service,
                    config, createPc, createVersion, deletePc, marked>>
    BY <1>10, HAFrame DEF KokRestarts, Restart, allVars, vars, nsVars,
       workloadVars, localVars
  <2> QED
    BY <1>1, <2>1 DEF InTurnBody, UpgradeAtWork, DeleteAtWork, CreateAtWork,
       Whole, CreateInTurn, UpgradeInTurn
<1> QED
  BY <1>3, <1>4, <1>5, <1>6, <1>7, <1>8, <1>9, <1>10, ManagedCases
     DEF AsideStep

\* In turn, the plain label of a whole cluster is the version of its workloads.
THEOREM WholeClustersAreTrue == ManagedSpec => []WholeClusterLabelIsTrue
<1>1. ManagedInit => InTurnInv
  <2> SUFFICES ASSUME ManagedInit
               PROVE  InTurnBody
    BY DEF InTurnInv
  <2>1. /\ pc = [u \in Upgrades |-> "idle"]
        /\ createPc = [c \in Creates |-> "idle"]
        /\ image = [c \in Component |-> FirstVersion]
        /\ label = <<FirstVersion>>
        /\ workloads = Component
    BY DEF ManagedInit, Init
  <2>2. /\ ~UpgradeAtWork /\ \A u \in Upgrades : UpgradeInTurn(u)
    BY <2>1 DEF UpgradeAtWork, UpgradeInTurn, Working, Marked, Applied
  <2>3. \A c \in Creates : createPc[c] \notin CreateSteps
    BY <2>1 DEF CreateSteps, Component
  <2>4. label[1] = FirstVersion
    BY <2>1
  <2> QED
    BY <2>1, <2>2, <2>3, <2>4 DEF InTurnBody, CreateInTurn
<1>2. /\ ManagedTypeOK /\ SeenInv /\ MarkInv /\ HostInv /\ InTurnInv
      /\ MarkInv' /\ ManagedStep
      => InTurnInv'
  BY InTurnKept
<1>3. InTurnInv => WholeClusterLabelIsTrue
  BY DEF InTurnInv, InTurn, InTurnBody, WholeClusterLabelIsTrue, Whole
<1> QED
  BY <1>1, <1>2, <1>3, MarkInvariant, HostInvariant, PTL
     DEF ManagedSpec, ManagedStep

-----------------------------------------------------------------------------
(* A cluster that nobody deletes or creates again.                         *)

\* It stays as ClusterCreate left it, and an upgrade of which no call fails
\* mounts everything.
StandsForGood ==
  /\ phase = "active" /\ workloads = Component /\ service = "ready" /\ config
  /\ ~ApiErrors => \A u \in Upgrades : pc[u] \in Marked => mounts[u] = Component

\* What is read right after the mark.
LEMMA MarkMounts ==
  ASSUME ManagedTypeOK, StandsForGood, ~CallFails, NEW u \in Upgrades,
         MarkNamespace(u)
  PROVE  mounts' = [mounts EXCEPT ![u] = Component]
BY DEF MarkNamespace, StandsForGood

\* No request of ClusterUpgrade takes it down.
LEMMA StandsKept ==
  ASSUME Creates = {}, Deletes = {}, ApiErrors \/ MaxFaults = 0,
         ManagedTypeOK, StandsForGood, ManagedStep
  PROVE  StandsForGood'
<1> USE DEF clusterVars, historyVars, otherVars
<1>0. ~ApiErrors => ~CallFails
  BY DEF CallFails, ManagedTypeOK, TypeOK
<1>1. ASSUME NEW u \in Upgrades,
             \/ MoveOn(u) \/ MarkNamespace(u) \/ ApplyWorkload(u)
             \/ UnmarkNamespace(u) \/ UnmarkInVain(u)
      PROVE  StandsForGood'
  <2>1. /\ UNCHANGED <<phase, service, config>>
        /\ \A w \in Upgrades \ {u} : pc'[w] = pc[w]
        /\ workloads' = Component
    BY <1>1, UpgradeFrame, ManagedTypeStep DEF StandsForGood, ManagedTypeOK
  <2>2. ~ApiErrors => \A w \in Upgrades : pc'[w] \in Marked =>
                        mounts'[w] = Component
    <3> SUFFICES ASSUME ~ApiErrors, NEW w \in Upgrades, pc'[w] \in Marked
                 PROVE  mounts'[w] = Component
      OBVIOUS
    <3>1. /\ pc[w] \in Marked => mounts[w] = Component
          /\ DOMAIN mounts = Upgrades /\ DOMAIN pc = Upgrades
      BY DEF StandsForGood, ManagedTypeOK, TypeOK
    <3>2. CASE MarkNamespace(u)
      BY <1>0, <2>1, <3>1, <3>2, MarkMounts
    <3>3. CASE MoveOn(u)
      BY <2>1, <3>1, <3>3 DEF MoveOn, GetNamespace, SelectVersion, WaitEnds,
         InstallCharts, Goto, Marked
    <3>4. CASE ApplyWorkload(u)
      BY <2>1, <3>1, <3>4, AppliesOne
    <3>5. CASE UnmarkNamespace(u) \/ UnmarkInVain(u)
      BY <2>1, <3>1, <3>5 DEF UnmarkNamespace, FinishLabel, UnmarkInVain, Goto,
         Marked
    <3> QED
      BY <1>1, <3>2, <3>3, <3>4, <3>5
  <2> QED
    BY <2>1, <2>2 DEF StandsForGood
<1>2. ASSUME UNCHANGED <<phase, workloads, service, config, mounts>>,
             \A u \in Upgrades : pc'[u] \in Marked => pc[u] \in Marked
      PROVE  StandsForGood'
  BY <1>2 DEF StandsForGood
<1>3. CASE RequestUpgrade
  BY <1>2, <1>3 DEF RequestUpgrade, ClusterUpgrade, Goto, Marked,
     ManagedTypeOK, TypeOK
<1>4. CASE KokGoes
  <2>1. \A u \in Upgrades : pc'[u] \in Marked => pc[u] \in Marked
    BY <1>4, KokGoesType DEF Resting, Marked
  <2> QED
    BY <1>2, <1>4, <2>1, KokGoesFrame
<1>5. CASE NamespaceFinalized
  BY <1>5 DEF NamespaceFinalized, StandsForGood
<1>6. CASE AsideStep
  <2>1. UNCHANGED <<phase, workloads, service, config>>
    BY <1>6, HAFrame DEF AsideStep, AddressAssigned, KokRestarts, allVars,
       StandsForGood
  <2> QED
    BY <1>2, <1>6, <2>1, AsideFrame
<1> QED
  BY <1>1, <1>3, <1>4, <1>5, <1>6, ManagedCases

\* Where the cluster stands, the host refuses an upgrade for the reasons
\* ClusterUpgrade gives.
LEMMA PanicIsPanic ==
  ASSUME ApiErrors \/ MaxFaults = 0, ManagedTypeOK, StandsForGood,
         NEW u \in Upgrades, UpgradePanics(u)
  PROVE  UpgradeStep(u)
<1>0. CallFails => ApiErrors
  BY DEF CallFails, ManagedTypeOK, TypeOK
<1>1. ProcessDies /\ UNCHANGED crashes
  BY DEF UpgradePanics, KokDies
<1>2. CASE UpgradeRefused(u)
  <2>1. CASE pc[u] = "mark"
    <3>1. ~LabelFits(Append(seen[u].kubernetes, target[u]))
      BY <1>2, <2>1 DEF UpgradeRefused, StandsForGood, Applying
    <3> QED
      BY <1>1, <2>1, <3>1 DEF MarkRefused, UpgradeStep
  <2>2. CASE pc[u] # "mark"
    <3>1. pc[u] \in DOMAIN Applying /\ ~Takes(u)
      BY <1>2, <2>2 DEF UpgradeRefused, StandsForGood
    <3>2. Applying[pc[u]] \in Component /\ pc[u] \in Marked
      BY <3>1 DEF Applying, Component, Marked
    <3>3. ApiErrors \/ ~ApplyAccepted(Applying[pc[u]], 1)
      BY <3>1, <3>2 DEF Takes, Named, OnHost, StandsForGood
    <3>4. Refused(u)
      BY <3>1, <3>3 DEF Refused, Applying
    <3> QED
      BY <1>1, <3>4 DEF Panic, UpgradeStep
  <2> QED
    BY <2>1, <2>2
<1>3. CASE CallFails /\ pc[u] \in {"get", "mark"} \cup DOMAIN Applying
  BY <1>0, <1>1, <1>3 DEF Applying, Refused, Panic, MarkRefused, UpgradeStep
<1> QED
  BY <1>2, <1>3 DEF UpgradePanics

\* Every step is one of ClusterUpgrade, or does not concern it.
LEMMA StandingStep ==
  ASSUME Creates = {}, Deletes = {}, ApiErrors \/ MaxFaults = 0,
         ManagedTypeOK, StandsForGood, ManagedStep
  PROVE  [Next]_vars
<1>0. CallFails => ApiErrors
  BY DEF CallFails, ManagedTypeOK, TypeOK
<1>1. CASE RequestUpgrade
  BY <1>1 DEF RequestUpgrade, Next, Operator
<1>2. ASSUME NEW u \in Upgrades,
             \/ MoveOn(u) \/ MarkNamespace(u) \/ ApplyWorkload(u)
             \/ UnmarkNamespace(u)
      PROVE  UpgradeStep(u)
  BY <1>2 DEF MoveOn, MarkNamespace, ApplyWorkload, UnmarkNamespace, UpgradeStep
<1>3. ASSUME NEW u \in Upgrades, UnmarkInVain(u)
      PROVE  UpgradeStep(u)
  <2>1. ApiErrors
    BY <1>0, <1>3 DEF UnmarkInVain, StandsForGood
  <2> QED
    BY <1>3, <2>1 DEF UnmarkInVain, FinishRefused, UpgradeStep
<1>4. CASE KokGoes
  BY <1>4, PanicIsPanic DEF KokGoes, KokCrashes, Next
<1>5. CASE NamespaceFinalized
  BY <1>5 DEF NamespaceFinalized, StandsForGood
<1>6. CASE AsideStep
  <2>1. ASSUME NEW h \in HARequests, RequestHA(h) \/ PatchWorkload(h)
        PROVE  Next
    BY <2>1 DEF RequestHA, PatchWorkload, HAStep, Next, Operator
  <2>2. CASE AddressAssigned \/ UNCHANGED allVars
    BY <2>2 DEF AddressAssigned, allVars
  <2>3. CASE KokRestarts
    BY <2>3 DEF KokRestarts, Next
  <2> QED
    BY <1>6, <2>1, <2>2, <2>3 DEF AsideStep
<1> QED
  BY <1>1, <1>2, <1>3, <1>4, <1>5, <1>6, ManagedCases DEF Next

\* Nothing is lost by studying upgrades on their own: where nobody deletes or
\* creates, ManagedCluster allows only what ClusterUpgrade allows.
THEOREM StandingClusterIsClusterUpgrade ==
  ASSUME Creates = {}, Deletes = {}, ApiErrors \/ MaxFaults = 0
  PROVE  ManagedSpec => Spec
<1>1. ManagedInit => Init /\ StandsForGood
  BY DEF ManagedInit, Init, StandsForGood, Marked
<1>2. ManagedTypeOK /\ StandsForGood /\ ManagedStep => StandsForGood'
  BY StandsKept
<1>3. ManagedTypeOK /\ StandsForGood /\ ManagedStep => [Next]_vars
  BY StandingStep
<1> QED
  BY <1>1, <1>2, <1>3, ManagedTypeCorrect, PTL
     DEF ManagedSpec, ManagedStep, Spec

=============================================================================
