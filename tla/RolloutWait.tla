----------------------------- MODULE RolloutWait -----------------------------
(***************************************************************************)
(* What the waits of an upgrade are worth (WaitForStatefulSetUpdate and    *)
(* WaitForDeploymentUpdate of pkg/control/custom.go).                      *)
(*                                                                         *)
(* UpgradeCluster applies a new Pod template to one workload after the     *)
(* other and waits in between.  ClusterUpgrade says that a wait ends; here *)
(* is what it looks at: the status of the StatefulSet, or the Pods and the *)
(* newest ReplicaSet of the Deployment, while the host's controllers       *)
(* replace the Pods at their own pace.  One upgrade at a time, every       *)
(* workload with one replica: the applies of a cluster with more are       *)
(* refused (AcceptedUpgradeCompletes of ClusterUpgrade).                   *)
(*                                                                         *)
(* The controllers are external: a Deployment with the default strategy    *)
(* may have one Pod too many and none too few, a StatefulSet deletes its   *)
(* old Pod before it creates the new one.                                  *)
(***************************************************************************)
EXTENDS Naturals, Sequences, FiniteSets

CONSTANTS
  Order,        \* the workloads, in the order in which they are upgraded
  StatefulSets, \* those of them that are StatefulSets
  MaxVersion,   \* bound: version the last upgrade asks for
  MaxEvictions  \* bound: Pods that are evicted

Workloads == {Order[i] : i \in 1..Len(Order)}
Deployments == Workloads \ StatefulSets
Versions == 1..MaxVersion
NoVersion == 0

ASSUME OrderAssumption ==
  /\ Order \in Seq(Workloads) /\ Len(Order) > 0
  /\ \A i, j \in 1..Len(Order) : Order[i] = Order[j] => i = j
  /\ StatefulSets \subseteq Workloads
ASSUME RolloutBounds == MaxVersion \in Nat \ {0} /\ MaxEvictions \in Nat

VARIABLES
  template,  \* version in the Pod template of each workload
  observed,  \* template its controller has seen (its newest ReplicaSet)
  want,      \* spec.replicas of the ReplicaSet of each version
  pods,      \* how many Pods of each version and state each workload has
  status,    \* status of each StatefulSet, as last written
  version,   \* info.Kubernetes of the upgrade
  at,        \* position in Order of the workload it is at
  pc,        \* its next step
  rs,        \* newest ReplicaSet as the Deployment wait has read it
  evictions, \* how many Pods were evicted
  unsure     \* history: workloads a wait for which gave up, or went by a
             \* ReplicaSet that was not the new one

hostVars == <<template, observed, want, pods, status>>
vars == <<template, observed, want, pods, status, version, at, pc, rs,
          evictions, unsure>>

PodStates == {"starting", "ready", "leaving"}
Live == {"starting", "ready"}
Steps == {"idle", "apply", "tick", "poll", "list"}

Kinds == Versions \X PodStates

\* Has workload c a Pod of a version in V and in a state in S?  Just one?
Has(c, V, S) == \E p \in V \X S : pods[c][p] > 0

HasOne(c, V, S) ==
  \E p \in V \X S : /\ pods[c][p] = 1
                     /\ \A q \in (V \X S) \ {p} : pods[c][q] = 0

TypeOK ==
  /\ template \in [Workloads -> Versions]
  /\ observed \in [Workloads -> Versions]
  /\ want \in [Deployments -> [Versions -> 0..1]]
  /\ pods \in [Workloads -> [Kinds -> Nat]]
  /\ status \in [StatefulSets -> [generation : Versions, updated : 0..1,
                                  ready : 0..1, current : 0..1]]
  /\ version \in Versions
  /\ at \in 1..Len(Order)
  /\ pc \in Steps
  /\ rs \in Versions \cup {NoVersion}
  /\ evictions \in Nat
  /\ unsure \subseteq Workloads

\* A cluster that runs version 1.
Init ==
  /\ template = [c \in Workloads |-> 1]
  /\ observed = [c \in Workloads |-> 1]
  /\ want = [d \in Deployments |-> [v \in Versions |-> IF v = 1 THEN 1 ELSE 0]]
  /\ pods = [c \in Workloads |->
               [p \in Kinds |-> IF p = <<1, "ready">> THEN 1 ELSE 0]]
  /\ status = [s \in StatefulSets |->
                 [generation |-> 1, updated |-> 1, ready |-> 1, current |-> 1]]
  /\ version = 1
  /\ at = 1
  /\ pc = "idle"
  /\ rs = NoVersion
  /\ evictions = 0
  /\ unsure = {}

upgradeVars == <<version, at, pc, rs, unsure>>

-----------------------------------------------------------------------------
(* The controllers and the kubelet.                                        *)

\* The controller sees the new template; of a Deployment it makes the
\* ReplicaSet.
Observe(c) ==
  /\ observed[c] < template[c]
  /\ observed' = [observed EXCEPT ![c] = template[c]]
  /\ UNCHANGED <<template, want, pods, status, upgradeVars, evictions>>

TotalWant(d) == Cardinality({v \in Versions : want[d][v] = 1})

ScaleUp(d) ==
  /\ want[d][observed[d]] = 0
  /\ TotalWant(d) < 2
  /\ want' = [want EXCEPT ![d][observed[d]] = 1]
  /\ UNCHANGED <<template, observed, pods, status, upgradeVars, evictions>>

\* An old ReplicaSet gives up its Pod when the new one's is ready; one that
\* is not ready itself goes first.
ScaleDown(d, v) ==
  LET new == observed[d]
      newUnready == want[d][new] = 1 /\ ~Has(d, {new}, {"ready"})
  IN
  /\ v < new
  /\ want[d][v] = 1
  /\ TotalWant(d) > 1
  /\ ~(newUnready /\ TotalWant(d) = 2)
  /\ \/ ~Has(d, {v}, {"ready"})
     \/ Has(d, Versions, {"ready"}) /\ ~HasOne(d, Versions, {"ready"})
  /\ want' = [want EXCEPT ![d][v] = 0]
  /\ UNCHANGED <<template, observed, pods, status, upgradeVars, evictions>>

\* The version workload c lacks a Pod of, as its controller sees it.
Lacks(c, v) ==
  IF c \in StatefulSets
  THEN v = observed[c] /\ ~Has(c, Versions, PodStates)
  ELSE want[c][v] = 1 /\ ~Has(c, {v}, Live)

HasTooMany(c, v) ==
  IF c \in StatefulSets THEN v # observed[c] ELSE want[c][v] = 0

CreatePod(c, v) ==
  /\ Lacks(c, v)
  /\ pods' = [pods EXCEPT ![c][<<v, "starting">>] = @ + 1]
  /\ UNCHANGED <<template, observed, want, status, upgradeVars, evictions>>

PodMoves(c, v, from, to) ==
  /\ pods[c][<<v, from>>] > 0
  /\ pods' = [pods EXCEPT ![c][<<v, from>>] = @ - 1, ![c][<<v, to>>] = @ + 1]
  /\ UNCHANGED <<template, observed, want, status, upgradeVars>>

\* It may take for ever: an image that cannot be pulled, a failing probe.
PodReady(c, v) == PodMoves(c, v, "starting", "ready") /\ UNCHANGED evictions

DeletePod(c, v) ==
  /\ HasTooMany(c, v)
  /\ \E state \in Live : PodMoves(c, v, state, "leaving")
  /\ UNCHANGED evictions

PodGone(c, v) ==
  /\ pods[c][<<v, "leaving">>] > 0
  /\ pods' = [pods EXCEPT ![c][<<v, "leaving">>] = @ - 1]
  /\ UNCHANGED <<template, observed, want, status, upgradeVars, evictions>>

Evict(c, v) ==
  /\ evictions < MaxEvictions
  /\ evictions' = evictions + 1
  /\ \E state \in Live : PodMoves(c, v, state, "leaving")

\* The counts a StatefulSet publishes, which never has more than one Pod; when
\* all Pods are updated and ready the update revision becomes the current one.
WriteStatus(s) ==
  LET Number(some) == IF some THEN 1 ELSE 0
      updated == Number(Has(s, {observed[s]}, Live))
      ready   == Number(Has(s, Versions, {"ready"}))
      others  == Number(Has(s, Versions \ {observed[s]}, Live))
  IN
  /\ status' = [status EXCEPT ![s] =
       [generation |-> observed[s], updated |-> updated, ready |-> ready,
        current |-> IF updated = 1 /\ ready = 1 THEN 1 ELSE others]]
  /\ UNCHANGED <<template, observed, want, pods, upgradeVars, evictions>>

Host ==
  \E c \in Workloads :
    \/ Observe(c)
    \/ c \in Deployments /\ ScaleUp(c)
    \/ c \in StatefulSets /\ WriteStatus(c)
    \/ \E v \in Versions : \/ c \in Deployments /\ ScaleDown(c, v)
                           \/ CreatePod(c, v)
                           \/ PodReady(c, v)
                           \/ DeletePod(c, v)
                           \/ PodGone(c, v)
                           \/ Evict(c, v)

-----------------------------------------------------------------------------
(* UpgradeCluster and its waits.                                           *)

Workload == Order[at]

ClusterUpgrade ==
  /\ pc = "idle"
  /\ version < MaxVersion
  /\ version' = version + 1
  /\ at' = 1
  /\ pc' = "apply"
  /\ UNCHANGED <<hostVars, rs, evictions, unsure>>

Apply ==
  /\ pc = "apply"
  /\ template' = [template EXCEPT ![Workload] = version]
  /\ pc' = "tick"
  /\ UNCHANGED <<observed, want, pods, status, version, at, rs, evictions,
                 unsure>>

\* Faulty variant: one workload too many.
NextWorkload_OffByOne ==
  IF at <= Len(Order) THEN at' = at + 1 /\ pc' = "apply"
  ELSE UNCHANGED at /\ pc' = "idle"

\* Success or not, the upgrade goes on with the next workload.
NextWorkload ==
  IF at < Len(Order) THEN at' = at + 1 /\ pc' = "apply"
  ELSE UNCHANGED at /\ pc' = "idle"

\* isStatefulSetFullyUpdated, first half: one Get returns spec and status.
\* Faulty variant: the generation is not compared.
StatusComplete_AnyGeneration(s) ==
  status[s].updated = 1 /\ status[s].ready = 1 /\ status[s].current = 1

StatusComplete(s) ==
  /\ status[s].updated = 1
  /\ status[s].ready = 1
  /\ status[s].current = 1
  /\ status[s].generation >= template[s]

GetStatefulSet ==
  /\ pc = "tick"
  /\ Workload \in StatefulSets
  /\ StatusComplete(Workload)
  /\ pc' = "list"
  /\ UNCHANGED <<hostVars, version, at, rs, evictions, unsure>>

\* Second half: no Pod that is on its way out, or wait for another second.
ListStatefulSetPods ==
  /\ pc = "list"
  /\ IF Has(Workload, Versions, {"leaving"})
     THEN pc' = "tick" /\ UNCHANGED at
     ELSE NextWorkload
  /\ UNCHANGED <<hostVars, version, rs, evictions, unsure>>

\* The newest ReplicaSet is looked up once, a second after the apply.
GetLatestReplicaSet ==
  /\ pc = "tick"
  /\ Workload \in Deployments
  /\ rs' = observed[Workload]
  /\ unsure' = IF observed[Workload] < version THEN unsure \cup {Workload}
               ELSE unsure
  /\ pc' = "poll"
  /\ UNCHANGED <<hostVars, version, at, evictions>>

\* Faulty variant: it is enough that the new ReplicaSet has a Pod.
OnlyPodOf_Any(d, v) == Has(d, {v}, PodStates)

\* Exactly one Pod, and the ReplicaSet owns it.
OnlyPodOf(d, v) ==
  HasOne(d, Versions, PodStates) /\ Has(d, {v}, PodStates)

PollDeploymentPods ==
  /\ pc = "poll"
  /\ OnlyPodOf(Workload, rs)
  /\ NextWorkload
  /\ UNCHANGED <<hostVars, version, rs, evictions, unsure>>

\* Three minutes are over, or a call failed: logged, no more.
WaitGivesUp ==
  /\ pc \in {"tick", "poll", "list"}
  /\ unsure' = unsure \cup {Workload}
  /\ NextWorkload
  /\ UNCHANGED <<hostVars, version, rs, evictions>>

Upgrade ==
  \/ ClusterUpgrade
  \/ Apply
  \/ GetStatefulSet
  \/ ListStatefulSetPods
  \/ GetLatestReplicaSet
  \/ PollDeploymentPods
  \/ WaitGivesUp

Next == Host \/ Upgrade

Spec == Init /\ [][Next]_vars

-----------------------------------------------------------------------------
(* Properties.                                                             *)

RunningVersions(c) == {v \in Versions : Has(c, {v}, PodStates)}

(***************************************************************************)
(* What the waits are for: a Pod is never newer than a Pod of a workload   *)
(* it depends on, in the middle of an upgrade and after it, whichever Pods *)
(* come up or hang.  It takes that no wait for the latter workload gave up *)
(* or went by the wrong ReplicaSet, and that nobody evicts a Pod (an old   *)
(* ReplicaSet may bring it back after the wait).                           *)
(***************************************************************************)
NoPodAheadOfItsServer ==
  evictions = 0 =>
    \A i, j \in 1..Len(Order) : i < j /\ Order[i] \notin unsure =>
      \A v \in RunningVersions(Order[j]), w \in RunningVersions(Order[i]) :
        v <= w

(***************************************************************************)
(* A wait for a StatefulSet that ends well is right, whatever was evicted  *)
(* meanwhile and however old the status: from then on until the next       *)
(* apply there is no Pod of an older version.                              *)
(***************************************************************************)
StatefulSetSuccessIsTrue ==
  \A i \in 1..Len(Order) :
    Order[i] \in StatefulSets \ unsure /\ (at > i \/ pc = "idle") =>
      \A v \in RunningVersions(Order[i]) : v >= template[Order[i]]

(***************************************************************************)
(* The message of a wait that ends well, "Deployment %s has been           *)
(* successfully updated" (pkg/control/custom.go:205): its Pods are of the  *)
(* new version.                                                            *)
(***************************************************************************)
DeploymentSuccessIsTrue ==
  [][ PollDeploymentPods => RunningVersions(Workload) = {version} ]_vars

=============================================================================
