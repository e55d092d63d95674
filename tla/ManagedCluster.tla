---------------------------- MODULE ManagedCluster ----------------------------
(***************************************************************************)
(* Upgrades of a cluster that may be deleted, and created again under the  *)
(* same name, at any moment.                                               *)
(*                                                                         *)
(* UpgradeCluster knows its cluster by name only and looks at it between   *)
(* waits of up to three minutes.  This module runs the goroutines of       *)
(* ClusterUpgrade on a namespace that comes and goes: ClusterCreate and    *)
(* ClusterDelete are here call by call as far as an upgrade can tell (the  *)
(* namespace with its labels, the four workloads, the Service whose        *)
(* address a create waits for, and everything else the workloads mount or  *)
(* refer to as one "config"); ClusterLifecycle has them in full.           *)
(*                                                                         *)
(* A call fails for what the state of the namespace makes of it, or for a  *)
(* reason of its own.  The version table is left to ClusterUpgrade, the    *)
(* goroutine that installs charts after a create to ClusterLifecycle.      *)
(* Labels and workloads of a namespace that is not there have no meaning.  *)
(***************************************************************************)
EXTENDS ClusterUpgrade

CONSTANTS
  Creates,  \* create requests, each sent at most once
  Deletes,  \* delete requests, each sent at most once
  MaxFaults \* bound: failing calls and kills together

ASSUME FaultsAssumption == MaxFaults \in Nat

VARIABLES
  phase,         \* of the namespace: "none", "active" or "terminating"
  workloads,     \* the workloads there are
  service,       \* kube-apiserver: "none", "pending" (no address) or "ready"
  config,        \* are the other Services, ConfigMaps and accounts there?
  labelOwners,   \* field managers that own the label "kubernetes"
  mounts,        \* workloads whose templates each upgrade has names for
  createPc,      \* next step of each create handler
  createVersion, \* info.Version of each create
  deletePc,      \* next step of each delete handler
  marked,        \* history: upgrades that marked the present namespace
  turn,          \* history: "kept" while every request has come in turn,
                 \* "creates" while all but creates of whole clusters have
  failures       \* history: how many calls failed for a reason of their own

clusterVars == <<phase, workloads, service, config, labelOwners>>
historyVars == <<marked, turn, failures>>
otherVars   == <<clusterVars, mounts, createPc, createVersion, deletePc,
                 historyVars>>
allVars     == <<vars, otherVars>>

CreateSteps == {"namespace", "service", "await", "waiting", "config"}
               \cup Component
DeleteSteps == {"get", "service", "config", "namespace"} \cup Component
Over == {"idle", "answered", "failed", "lost"}

ManagedTypeOK ==
  /\ TypeOK
  /\ phase \in {"none", "active", "terminating"}
  /\ workloads \subseteq Component
  /\ service \in {"none", "pending", "ready"}
  /\ config \in BOOLEAN
  /\ labelOwners \subseteq {"kok", "main"}
  /\ mounts \in [Upgrades -> SUBSET Component]
  /\ createPc \in [Creates -> Over \cup CreateSteps]
  /\ createVersion \in [Creates -> Versions]
  /\ deletePc \in [Deletes -> Over \cup DeleteSteps]
  /\ marked \subseteq Upgrades
  /\ turn \in {"kept", "creates", "lost"}
  /\ failures \in Nat

\* A cluster as ClusterCreate leaves it.
ManagedInit ==
  /\ Init
  /\ phase = "active"
  /\ workloads = Component
  /\ service = "ready"
  /\ config = TRUE
  /\ labelOwners = {"kok"}
  /\ mounts = [u \in Upgrades |-> {}]
  /\ createPc = [c \in Creates |-> "idle"]
  /\ createVersion = [c \in Creates |-> FirstVersion]
  /\ deletePc = [d \in Deletes |-> "idle"]
  /\ marked = {}
  /\ turn = "kept"
  /\ failures = 0

\* The host takes an update of what is there, and in an active namespace
\* anything.
OnHost(there) == phase = "active" \/ (phase = "terminating" /\ there)

Whole == /\ phase = "active"
         /\ workloads = Component
         /\ service = "ready"
         /\ config

\* A call fails for a reason of its own.
CallFails ==
  /\ crashes + failures < MaxFaults
  /\ failures' = failures + 1

NoCallFails == UNCHANGED failures

\* With the process every handler is lost.
HandlersLost ==
  /\ createPc' = [c \in Creates |-> IF createPc[c] \in Over THEN createPc[c]
                                    ELSE "lost"]
  /\ deletePc' = [d \in Deletes |-> IF deletePc[d] \in Over THEN deletePc[d]
                                    ELSE "lost"]

KokDies ==
  /\ ProcessDies
  /\ HandlersLost
  /\ UNCHANGED <<clusterVars, mounts, createVersion, marked, turn>>

-----------------------------------------------------------------------------
(* The upgrade: the steps of ClusterUpgrade, where the namespace lets them. *)

\* The component an upgrade at this point applies.
Applying ==
  [step \in
     {"apply-etcd", "apply-apiserver", "apply-kcm", "apply-scheduler"} |->
     CASE step = "apply-etcd"      -> "etcd"
       [] step = "apply-apiserver" -> "kube-apiserver"
       [] step = "apply-kcm"       -> "kube-controller-manager"
       [] step = "apply-scheduler" -> "kube-scheduler"]

\* The workloads whose specs name each of the objects an upgrade reads; "etcd"
\* is the Service.
NamedIn ==
  [object \in {"cluster-ca", "etcd", "kube-apiserver", "kubeconfig"} |->
     CASE object = "cluster-ca"     -> Component
       [] object = "etcd"           -> {"etcd"}
       [] object = "kube-apiserver" -> {"kube-apiserver"}
       [] object = "kubeconfig"     -> {"kube-controller-manager",
                                        "kube-scheduler"}]

\* The steps that do not touch the namespace, and the one that reads it.
MoveOn(u) ==
  /\ \/ phase # "none" /\ GetNamespace(u)
     \/ SelectVersion(u)
     \/ WaitEnds(u)
     \/ \E installed \in SUBSET Addons, ok \in BOOLEAN :
          InstallCharts(u, installed, ok)
  /\ UNCHANGED otherVars

\* Faulty variant: the labels are applied, not patched, and an apply creates.
MarkNamespace_Applies(u) ==
  /\ MarkLabels(u)
  /\ phase' = IF phase = "none" THEN "active" ELSE phase
  /\ labelOwners' = {"main"}
  /\ mounts' = [mounts EXCEPT ![u] = IF config THEN Component ELSE {}]
  /\ marked' = marked \cup {u}
  /\ UNCHANGED <<workloads, service, config, createPc, createVersion, deletePc,
                 turn, failures>>

\* The patch makes "main" the owner of the label.  Right after it the upgrade
\* reads the objects its templates refer to and drops the errors.
MarkNamespace(u) ==
  /\ phase # "none"
  /\ MarkLabels(u)
  /\ labelOwners' = {"main"}
  /\ \E unread \in {{}} \cup {NamedIn[o] : o \in DOMAIN NamedIn} :
       /\ IF unread = {} THEN NoCallFails ELSE CallFails
       /\ mounts' = [mounts EXCEPT ![u] = IF config THEN Component \ unread
                                          ELSE {}]
  /\ marked' = marked \cup {u}
  /\ UNCHANGED <<phase, workloads, service, config, createPc, createVersion,
                 deletePc, turn>>

\* The host takes no volume without a name.  It takes a new StatefulSet
\* without the name of its Service, but not the change of that name.
Named(u, c) ==
  c \in mounts[u] \/ (c = "etcd" /\ mounts[u] # {} /\ c \notin workloads)

\* The host takes the workload upgrade u is about to apply.
Takes(u) ==
  LET c == Applying[pc[u]] IN
  Named(u, c) /\ OnHost(c \in workloads) /\ ApplyAccepted(c, 1)

\* An apply creates a workload that was deleted in the meantime.
ApplyWorkload(u) ==
  /\ pc[u] \in DOMAIN Applying
  /\ Takes(u)
  /\ \/ ApplyEtcd(u)
     \/ ApplyApiserver(u)
     \/ ApplyControllerManager(u)
     \/ ApplyScheduler(u)
  /\ workloads' = workloads \cup {Applying[pc[u]]}
  /\ UNCHANGED <<phase, service, config, labelOwners, mounts, createPc,
                 createVersion, deletePc, historyVars>>

\* Every refusal is a panic: a namespace that is gone (the patch that misses
\* it panics with the apply that follows), a label that is too long, or a
\* workload the host does not take.
UpgradeRefused(u) ==
  \/ pc[u] \in {"get", "mark"} /\ phase = "none"
  \/ pc[u] = "mark" /\ ~LabelFits(Append(seen[u].kubernetes, target[u]))
  \/ pc[u] \in DOMAIN Applying /\ ~Takes(u)

UpgradePanics(u) ==
  /\ \/ UpgradeRefused(u) /\ NoCallFails
     \/ pc[u] \in {"get", "mark"} \cup DOMAIN Applying /\ CallFails
  /\ KokDies
  /\ UNCHANGED crashes

UnmarkNamespace(u) ==
  /\ phase # "none"
  /\ FinishLabel(u)
  /\ labelOwners' = IF label = <<target[u]>> THEN labelOwners ELSE {"main"}
  /\ UNCHANGED <<phase, workloads, service, config, mounts, createPc,
                 createVersion, deletePc, historyVars>>

\* The error of the last patch is dropped.
UnmarkInVain(u) ==
  /\ pc[u] = "finish"
  /\ CallFails \/ (phase = "none" /\ NoCallFails)
  /\ Goto(u, "done")
  /\ UNCHANGED <<nsVars, workloadVars, chartVars, rows, up, crashes, localVars,
                 haPc, clusterVars, mounts, createPc, createVersion, deletePc,
                 marked, turn>>

UpgradeOnHost(u) ==
  \/ MoveOn(u)
  \/ MarkNamespace(u)
  \/ ApplyWorkload(u)
  \/ UpgradePanics(u)
  \/ UnmarkNamespace(u)
  \/ UnmarkInVain(u)

-----------------------------------------------------------------------------
(* ClusterCreate.                                                          *)

GotoCreate(c, step) == createPc' = [createPc EXCEPT ![c] = step]

\* Faulty variant: Force.
LabelConflict_Force(v) == FALSE

\* The namespace is applied as "kok" without Force: a label that an upgrade
\* has patched is not to be changed.
LabelConflict(v) ==
  /\ phase # "none"
  /\ labelOwners \ {"kok"} # {}
  /\ label # <<v>> \/ rowLabel # v

\* Faulty variant: the version is left to the first upgrade to write.
ApplyNamespace_Unversioned(c) ==
  /\ createPc[c] = "namespace"
  /\ phase' = IF phase = "none" THEN "active" ELSE phase
  /\ labelOwners' = IF phase = "none" THEN {"kok"} ELSE labelOwners
  /\ label' = IF phase = "none" THEN << >> ELSE label
  /\ GotoCreate(c, "service")
  /\ UNCHANGED <<rowLabel, networkLabel, workloadVars, chartVars, rows, up,
                 crashes, pc, localVars, haPc, workloads, service, config,
                 mounts, createVersion, deletePc, historyVars>>

ApplyNamespace(c) ==
  LET v == createVersion[c] IN
  /\ createPc[c] = "namespace"
  /\ ~LabelConflict(v)
  /\ phase' = IF phase = "none" THEN "active" ELSE phase
  /\ labelOwners' = IF phase = "none" THEN {"kok"} ELSE labelOwners \cup {"kok"}
  /\ label' = <<v>>
  /\ rowLabel' = v
  /\ GotoCreate(c, "service")
  /\ UNCHANGED <<networkLabel, workloadVars, chartVars, rows, up, crashes, pc,
                 localVars, haPc, workloads, service, config, mounts,
                 createVersion, deletePc, historyVars>>

ApplyService(c) ==
  /\ createPc[c] = "service"
  /\ OnHost(service # "none")
  /\ service' = IF service = "none" THEN "pending" ELSE service
  /\ GotoCreate(c, "await")
  /\ UNCHANGED <<vars, phase, workloads, config, labelOwners, mounts,
                 createVersion, deletePc, historyVars>>

\* The address is polled by a goroutine; "waiting" means that it was asked for
\* in vain.
PollAddress(c) ==
  /\ createPc[c] \in {"await", "waiting"}
  /\ \/ service = "ready" /\ GotoCreate(c, "config")
     \/ /\ service = "pending" /\ createPc[c] = "await"
        /\ GotoCreate(c, "waiting")
  /\ UNCHANGED <<vars, clusterVars, mounts, createVersion, deletePc,
                 historyVars>>

\* A Service it cannot read makes the goroutine panic: gin does not recover
\* that one.
PollFails(c) ==
  /\ createPc[c] \in {"await", "waiting"}
  /\ CallFails \/ (service = "none" /\ NoCallFails)
  /\ KokDies
  /\ UNCHANGED crashes

\* After two minutes without an address the Service and the namespace are
\* deleted and the errors dropped.  The handler goes on all the same.
PollTimesOut(c, serviceGone, namespaceGone) ==
  /\ createPc[c] = "waiting"
  /\ IF serviceGone /\ namespaceGone THEN NoCallFails ELSE CallFails
  /\ service' = IF serviceGone THEN "none" ELSE service
  /\ phase' = IF namespaceGone /\ phase = "active" THEN "terminating"
              ELSE phase
  /\ GotoCreate(c, "config")
  /\ UNCHANGED <<vars, workloads, config, labelOwners, mounts, createVersion,
                 deletePc, marked, turn>>

\* Faulty variant: what is there is deleted first and created by a later call.
ApplyConfig_Recreates(c) ==
  /\ createPc[c] = "config"
  /\ OnHost(config)
  /\ config' = ~config
  /\ GotoCreate(c, IF config THEN "config" ELSE "etcd")
  /\ UNCHANGED <<vars, phase, workloads, service, labelOwners, mounts,
                 createVersion, deletePc, historyVars>>

ApplyConfig(c) ==
  /\ createPc[c] = "config"
  /\ OnHost(config)
  /\ config' = TRUE
  /\ GotoCreate(c, "etcd")
  /\ UNCHANGED <<vars, phase, workloads, service, labelOwners, mounts,
                 createVersion, deletePc, historyVars>>

AfterCreated(component) ==
  CASE component = "etcd"                    -> "kube-apiserver"
    [] component = "kube-apiserver"          -> "kube-controller-manager"
    [] component = "kube-controller-manager" -> "kube-scheduler"
    [] component = "kube-scheduler"          -> "answered"

CreateWorkload(c) ==
  LET component == createPc[c] IN
  /\ component \in Component
  /\ OnHost(component \in workloads)
  /\ ApplyAccepted(component, 1)
  /\ ServerSideApply(component, createVersion[c], 1)
  /\ workloads' = workloads \cup {component}
  /\ GotoCreate(c, AfterCreated(component))
  /\ UNCHANGED <<nsVars, chartVars, rows, up, crashes, pc, localVars, haPc,
                 phase, service, config, labelOwners, mounts, createVersion,
                 deletePc, historyVars>>

CreateRefused(c) ==
  LET step == createPc[c] IN
  \/ step = "namespace" /\ LabelConflict(createVersion[c])
  \/ step = "service" /\ ~OnHost(service # "none")
  \/ step = "config" /\ ~OnHost(config)
  \/ /\ step \in Component
     /\ ~(OnHost(step \in workloads) /\ ApplyAccepted(step, 1))

\* The handler's panic is recovered; what was done stays.
CreateFails(c) ==
  /\ createPc[c] \in {"namespace", "service", "config"} \cup Component
  /\ CallFails \/ (CreateRefused(c) /\ NoCallFails)
  /\ GotoCreate(c, "failed")
  /\ UNCHANGED <<vars, clusterVars, mounts, createVersion, deletePc, marked,
                 turn>>

CreateStep(c) ==
  \/ ApplyNamespace(c)
  \/ ApplyService(c)
  \/ PollAddress(c)
  \/ PollFails(c)
  \/ \E s, n \in BOOLEAN : PollTimesOut(c, s, n)
  \/ ApplyConfig(c)
  \/ CreateWorkload(c)
  \/ CreateFails(c)

-----------------------------------------------------------------------------
(* ClusterDelete: workloads, Services, config, namespace.  Only the error  *)
(* of the first read counts: what could not be deleted stays.              *)

GotoDelete(d, step) == deletePc' = [deletePc EXCEPT ![d] = step]

GetCluster(d) ==
  /\ deletePc[d] = "get"
  /\ phase # "none"
  /\ GotoDelete(d, "kube-scheduler")
  /\ UNCHANGED <<vars, clusterVars, mounts, createPc, createVersion,
                 historyVars>>

GetClusterFails(d) ==
  /\ deletePc[d] = "get"
  /\ CallFails \/ (phase = "none" /\ NoCallFails)
  /\ GotoDelete(d, "failed")
  /\ UNCHANGED <<vars, clusterVars, mounts, createPc, createVersion, marked,
                 turn>>

AfterDeleted(step) ==
  CASE step = "kube-scheduler"          -> "kube-controller-manager"
    [] step = "kube-controller-manager" -> "kube-apiserver"
    [] step = "kube-apiserver"          -> "etcd"
    [] step = "etcd"                    -> "service"
    [] step = "service"                 -> "config"
    [] step = "config"                  -> "namespace"
    [] step = "namespace"               -> "answered"

\* Nothing is left of the specs of these workloads.
Removed(gone) ==
  /\ workloads' = workloads \ gone
  /\ image' = [c \in Component |-> IF c \in gone THEN NoVersion ELSE image[c]]
  /\ replicas' = [c \in Component |-> IF c \in gone THEN 0 ELSE replicas[c]]
  /\ owners' = [c \in Component |-> IF c \in gone THEN {} ELSE owners[c]]

DeleteWorkload(d) ==
  /\ deletePc[d] \in Component
  /\ Removed({deletePc[d]})
  /\ GotoDelete(d, AfterDeleted(deletePc[d]))
  /\ UNCHANGED <<nsVars, chartVars, rows, up, crashes, pc, localVars, haPc,
                 phase, service, config, labelOwners, mounts, createPc,
                 createVersion, historyVars>>

DeleteService(d) ==
  /\ deletePc[d] = "service"
  /\ service' = "none"
  /\ GotoDelete(d, AfterDeleted("service"))
  /\ UNCHANGED <<vars, phase, workloads, config, labelOwners, mounts, createPc,
                 createVersion, historyVars>>

DeleteConfig(d) ==
  /\ deletePc[d] = "config"
  /\ config' = FALSE
  /\ GotoDelete(d, AfterDeleted("config"))
  /\ UNCHANGED <<vars, phase, workloads, service, labelOwners, mounts,
                 createPc, createVersion, historyVars>>

DeleteNamespace(d) ==
  /\ deletePc[d] = "namespace"
  /\ phase' = IF phase = "active" THEN "terminating" ELSE phase
  /\ GotoDelete(d, AfterDeleted("namespace"))
  /\ UNCHANGED <<vars, workloads, service, config, labelOwners, mounts,
                 createPc, createVersion, historyVars>>

DeleteInVain(d) ==
  /\ deletePc[d] \in DeleteSteps \ {"get"}
  /\ CallFails
  /\ GotoDelete(d, AfterDeleted(deletePc[d]))
  /\ UNCHANGED <<vars, clusterVars, mounts, createPc, createVersion, marked,
                 turn>>

DeleteStep(d) ==
  \/ GetCluster(d)
  \/ GetClusterFails(d)
  \/ DeleteWorkload(d)
  \/ DeleteService(d)
  \/ DeleteConfig(d)
  \/ DeleteNamespace(d)
  \/ DeleteInVain(d)

-----------------------------------------------------------------------------
(* ClusterEnableHA, the host and the process.                              *)

\* A patch that fails, or meets no workload, is the last.
PatchWorkload(h) ==
  /\ \/ haPc[h] \in workloads /\ PatchReplicas(h) /\ NoCallFails
     \/ /\ PatchFails(h)
        /\ CallFails \/ (haPc[h] \notin workloads /\ NoCallFails)
  /\ UNCHANGED <<clusterVars, mounts, createPc, createVersion, deletePc, marked,
                 turn>>

\* The load balancer gives the Service an address, some time or never.
AddressAssigned ==
  /\ service = "pending"
  /\ service' = "ready"
  /\ UNCHANGED <<vars, phase, workloads, config, labelOwners, mounts, createPc,
                 createVersion, deletePc, historyVars>>

\* The namespace controller.
NamespaceFinalized ==
  /\ phase = "terminating"
  /\ phase' = "none"
  /\ Removed(Component)
  /\ service' = "none"
  /\ config' = FALSE
  /\ labelOwners' = {}
  /\ marked' = {}
  /\ UNCHANGED <<nsVars, chartVars, rows, up, crashes, pc, localVars, haPc,
                 mounts, createPc, createVersion, deletePc, turn, failures>>

KokCrashes ==
  /\ Crash
  /\ crashes + failures < MaxFaults
  /\ HandlersLost
  /\ UNCHANGED <<clusterVars, mounts, createVersion, historyVars>>

KokRestarts == Restart /\ UNCHANGED otherVars

-----------------------------------------------------------------------------
(* Operators.  The handlers look at nothing before they start; "turn"      *)
(* keeps what an operator might have looked at.                            *)

UpgradeAtWork == \E u \in Upgrades : pc[u] \in Working
CreateAtWork == \E c \in Creates : createPc[c] \in CreateSteps
DeleteAtWork == \E d \in Deletes : deletePc[d] \in DeleteSteps

\* In turn: the cluster is whole and nobody deletes it.
RequestUpgrade ==
  /\ \E u \in Upgrades, v \in Versions : ClusterUpgrade(u, v, NoUpgrade)
  /\ turn' = IF Whole /\ ~DeleteAtWork THEN turn ELSE "lost"
  /\ UNCHANGED <<clusterVars, mounts, createPc, createVersion, deletePc,
                 marked, failures>>

\* A create of a version without a row fails before it has done anything.
\* In turn: there is no cluster of the name, nor a create or delete at work.
RequestCreate(c) ==
  /\ up
  /\ createPc[c] = "idle"
  /\ \E v \in rows : createVersion' = [createVersion EXCEPT ![c] = v]
  /\ GotoCreate(c, "namespace")
  /\ turn' = IF phase = "none" /\ ~CreateAtWork /\ ~DeleteAtWork THEN turn
             ELSE IF Whole /\ ~DeleteAtWork /\ turn # "lost" THEN "creates"
             ELSE "lost"
  /\ UNCHANGED <<vars, clusterVars, mounts, deletePc, marked, failures>>

\* In turn: no upgrade and no create is at work.
RequestDelete(d) ==
  /\ up
  /\ deletePc[d] = "idle"
  /\ GotoDelete(d, "get")
  /\ turn' = IF UpgradeAtWork \/ CreateAtWork THEN "lost" ELSE turn
  /\ UNCHANGED <<vars, clusterVars, mounts, createPc, createVersion, marked,
                 failures>>

RequestHA(h) == ClusterEnableHA(h) /\ UNCHANGED otherVars

ManagedNext ==
  \/ RequestUpgrade
  \/ \E c \in Creates : RequestCreate(c) \/ CreateStep(c)
  \/ \E d \in Deletes : RequestDelete(d) \/ DeleteStep(d)
  \/ \E u \in Upgrades : UpgradeOnHost(u)
  \/ \E h \in HARequests : RequestHA(h) \/ PatchWorkload(h)
  \/ AddressAssigned
  \/ NamespaceFinalized
  \/ KokCrashes
  \/ KokRestarts

ManagedSpec == ManagedInit /\ [][ManagedNext]_allVars

-----------------------------------------------------------------------------
(* Properties.                                                             *)

NobodyEnlarged == \A h \in HARequests : haPc[h] = "idle"

(***************************************************************************)
(* Without faults, and as long as nobody enables HA, the process goes down *)
(* only for a request out of turn: an upgrade of a cluster that is not     *)
(* whole or about to go, a delete in the middle of an upgrade or a create, *)
(* a create in the middle of a delete or another create.  Creates of the   *)
(* name of a whole cluster do no harm, however they interleave with one    *)
(* another and with an upgrade.                                            *)
(***************************************************************************)
OrderlyRequestsKeepKokUp ==
  crashes + failures = 0 /\ turn # "lost" /\ NobodyEnlarged => up

(***************************************************************************)
(* Through any number of lives of the name, with requests cut short or     *)
(* failing in between: when requests come in turn, the plain label of a    *)
(* whole cluster is the version of all its workloads, not that of the      *)
(* cluster before it or of an upgrade that outlived it.                    *)
(***************************************************************************)
WholeClusterLabelIsTrue ==
  Serial /\ turn = "kept" /\ Whole /\ Len(label) = 1 =>
    \A c \in Component : image[c] = label[1]

(***************************************************************************)
(* Nobody takes replicas away from a workload but by deleting it: neither  *)
(* an upgrade nor a create of the same name, both of which apply every     *)
(* workload with one replica, in whatever life of the name they end up.    *)
(***************************************************************************)
EnlargedStaysEnlarged ==
  [][ \A c \in workloads \cap workloads' : replicas'[c] >= replicas[c] ]_allVars

(***************************************************************************)
(* The mark of an upgrade stands until that upgrade takes it off: the      *)
(* ownership of the label keeps creates out, whatever they ask for and     *)
(* whenever they come.  Only with the namespace does it go away.           *)
(***************************************************************************)
MarkStands ==
  Serial => \A u \in marked :
    StageOf(pc[u]) # 0 => Len(label) > 1 /\ label[Len(label)] = target[u]

(***************************************************************************)
(* An upgrade that outlives its cluster may end the process, but it does   *)
(* not bring the namespace back: its patch does not create.  Only a create *)
(* does (the releases installed by the goroutine that outlives a create    *)
(* are those of ClusterLifecycle).                                         *)
(***************************************************************************)
OnlyCreateRevives ==
  [][ phase = "none" /\ phase' # "none"
        => \E c \in Creates : createPc[c] = "namespace" ]_allVars

=============================================================================
