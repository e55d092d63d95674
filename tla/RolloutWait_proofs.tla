------------------------- MODULE RolloutWait_proofs -------------------------
(***************************************************************************)
(* Proofs about RolloutWait, for every list of workloads, every number of  *)
(* upgrades one after the other and every number of evictions.             *)
(*                                                                         *)
(* A workload is settled at a version when neither a Pod nor a ReplicaSet  *)
(* of an older one is left and its controller has seen the template: from  *)
(* then on no older Pod can come back.  A wait that ends well leaves its   *)
(* workload settled; the argument that it does is SetSound for the status  *)
(* of a StatefulSet, and PollSucceeds for the Pods of a Deployment, which  *)
(* takes that every ReplicaSet that should have a Pod keeps it (Manned).   *)
(***************************************************************************)
EXTENDS RolloutWait, TLAPS

\* The workloads are the entries of the list.
LEMMA OrderFacts ==
  /\ Len(Order) \in Nat
  /\ \A i \in 1..Len(Order) : Order[i] \in Workloads
BY OrderAssumption DEF Workloads

\* What a Pod that moves does to the counts.
Moved(c, v, from, to) ==
  /\ \A b \in Workloads \ {c} : pods'[b] = pods[b]
  /\ \A p \in Kinds \ {<<v, from>>, <<v, to>>} : pods'[c][p] = pods[c][p]
  /\ pods'[c][<<v, from>>] = pods[c][<<v, from>>] - 1
  /\ pods'[c][<<v, to>>] = pods[c][<<v, to>>] + 1
  /\ <<v, from>> \in Kinds /\ <<v, to>> \in Kinds
  /\ pods[c][<<v, from>>] > 0

\* One Pod fewer in one state and one more in the other.
LEMMA PodMoved ==
  ASSUME TypeOK, NEW c \in Workloads, NEW v \in Versions,
         NEW from \in PodStates, NEW to \in PodStates, from # to,
         PodMoves(c, v, from, to)
  PROVE  pods' \in [Workloads -> [Kinds -> Nat]] /\ Moved(c, v, from, to)
<1>1. <<v, from>> \in Kinds /\ <<v, to>> \in Kinds /\ <<v, from>> # <<v, to>>
  BY DEF Kinds
<1>2. pods' = [pods EXCEPT ![c] =
                 [@ EXCEPT ![<<v, from>>] = @ - 1, ![<<v, to>>] = @ + 1]]
  BY <1>1 DEF PodMoves, TypeOK
<1> DEFINE counts == [pods[c] EXCEPT ![<<v, from>>] = @ - 1,
                                     ![<<v, to>>] = @ + 1]
<1>3. counts \in [Kinds -> Nat]
  BY <1>1 DEF PodMoves, TypeOK
<1> QED
  BY <1>1, <1>2, <1>3 DEF PodMoves, Moved, TypeOK

\* The controllers and the kubelet at one workload.
HostStep(c) ==
  \/ Observe(c)
  \/ c \in Deployments /\ ScaleUp(c)
  \/ c \in StatefulSets /\ WriteStatus(c)
  \/ \E v \in Versions : \/ c \in Deployments /\ ScaleDown(c, v)
                         \/ CreatePod(c, v)
                         \/ PodReady(c, v)
                         \/ DeletePod(c, v)
                         \/ PodGone(c, v)
                         \/ Evict(c, v)

\* Pods come, move and go one at a time.
LEMMA PodSteps ==
  ASSUME TypeOK, NEW c \in Workloads, NEW v \in Versions,
         \/ CreatePod(c, v) \/ PodReady(c, v) \/ DeletePod(c, v)
         \/ PodGone(c, v) \/ Evict(c, v)
  PROVE  /\ pods' \in [Workloads -> [Kinds -> Nat]]
         /\ \A b \in Workloads \ {c} : pods'[b] = pods[b]
         /\ UNCHANGED <<template, observed, want, status, upgradeVars>>
         /\ evictions' \in {evictions, evictions + 1}
<1>1. CASE CreatePod(c, v)
  <2>1. <<v, "starting">> \in Kinds
    BY DEF Kinds, PodStates
  <2>2. [pods[c] EXCEPT ![<<v, "starting">>] = @ + 1] \in [Kinds -> Nat]
    BY <2>1 DEF TypeOK
  <2> QED
    BY <1>1, <2>1, <2>2 DEF CreatePod, TypeOK
<1>2. CASE PodGone(c, v)
  <2>1. <<v, "leaving">> \in Kinds
    BY DEF Kinds, PodStates
  <2>2. [pods[c] EXCEPT ![<<v, "leaving">>] = @ - 1] \in [Kinds -> Nat]
    BY <1>2, <2>1 DEF PodGone, TypeOK
  <2> QED
    BY <1>2, <2>1, <2>2 DEF PodGone, TypeOK
<1>3. CASE PodReady(c, v)
  BY <1>3, PodMoved DEF Moved, PodReady, PodMoves, PodStates
<1>4. CASE DeletePod(c, v)
  BY <1>4, PodMoved DEF Moved, DeletePod, PodMoves, PodStates, Live
<1>5. CASE Evict(c, v)
  BY <1>5, PodMoved DEF Moved, Evict, PodMoves, PodStates, Live
<1> QED
  BY <1>1, <1>2, <1>3, <1>4, <1>5

\* The types, under a step of a controller or of the kubelet ...
LEMMA HostType ==
  ASSUME TypeOK, NEW c \in Workloads, HostStep(c)
  PROVE  TypeOK'
<1>1. CASE Observe(c)
  BY <1>1 DEF Observe, TypeOK, upgradeVars
<1>2. CASE c \in Deployments /\ ScaleUp(c)
  <2>1. [want[c] EXCEPT ![observed[c]] = 1] \in [Versions -> 0..1]
    BY <1>2 DEF TypeOK
  <2>2. want' \in [Deployments -> [Versions -> 0..1]]
    BY <1>2, <2>1 DEF ScaleUp, TypeOK
  <2> QED
    BY <1>2, <2>2 DEF ScaleUp, TypeOK, upgradeVars
<1>3. CASE c \in StatefulSets /\ WriteStatus(c)
  <2>1. status' \in [StatefulSets -> [generation : Versions, updated : 0..1,
                                      ready : 0..1, current : 0..1]]
    BY <1>3 DEF WriteStatus, TypeOK
  <2> QED
    BY <1>3, <2>1 DEF WriteStatus, TypeOK, upgradeVars
<1>4. ASSUME NEW v \in Versions, c \in Deployments, ScaleDown(c, v)
      PROVE  TypeOK'
  <2>1. [want[c] EXCEPT ![v] = 0] \in [Versions -> 0..1]
    BY <1>4 DEF TypeOK
  <2>2. want' \in [Deployments -> [Versions -> 0..1]]
    BY <1>4, <2>1 DEF ScaleDown, TypeOK
  <2> QED
    BY <1>4, <2>2 DEF ScaleDown, TypeOK, upgradeVars
<1>5. ASSUME NEW v \in Versions,
             \/ CreatePod(c, v) \/ PodReady(c, v) \/ DeletePod(c, v)
             \/ PodGone(c, v) \/ Evict(c, v)
      PROVE  TypeOK'
  <2>1. evictions' \in {evictions, evictions + 1}
    BY <1>5, PodSteps
  <2>2. /\ pods' \in [Workloads -> [Kinds -> Nat]]
        /\ UNCHANGED <<template, observed, want, status, version, at, pc, rs,
                       unsure>>
    BY <1>5, PodSteps DEF upgradeVars
  <2> QED
    BY <2>1, <2>2 DEF TypeOK
<1> QED
  BY <1>1, <1>2, <1>3, <1>4, <1>5 DEF HostStep

\* Where the upgrade goes from one workload.
LEMMA Onward ==
  ASSUME TypeOK, NextWorkload
  PROVE  /\ at' \in 1..Len(Order) /\ pc' \in {"apply", "idle"}
         /\ pc' = "apply" => at' = at + 1
         /\ pc' = "idle" => at' = at /\ at = Len(Order)
BY OrderFacts DEF NextWorkload, TypeOK

\* ... and under a step of the upgrade.
LEMMA UpgradeType ==
  ASSUME TypeOK, Upgrade
  PROVE  TypeOK'
<1> USE DEF hostVars
<1>1. Workload \in Workloads
  BY OrderFacts DEF TypeOK, Workload
<1>2. CASE ClusterUpgrade
  BY <1>2, RolloutBounds, OrderFacts
     DEF ClusterUpgrade, TypeOK, Versions, Steps
<1>3. CASE Apply
  <2>1. template' \in [Workloads -> Versions]
    BY <1>1, <1>3 DEF Apply, TypeOK
  <2> QED
    BY <1>3, <2>1 DEF Apply, TypeOK, Steps
<1>4. CASE GetStatefulSet
  BY <1>4 DEF GetStatefulSet, TypeOK, Steps
<1>5. CASE ListStatefulSetPods
  BY <1>5, Onward DEF ListStatefulSetPods, TypeOK, Steps
<1>6. CASE GetLatestReplicaSet
  BY <1>1, <1>6 DEF GetLatestReplicaSet, TypeOK, Steps
<1>7. CASE PollDeploymentPods
  BY <1>7, Onward DEF PollDeploymentPods, TypeOK, Steps
<1>8. CASE WaitGivesUp
  BY <1>1, <1>8, Onward DEF WaitGivesUp, TypeOK, Steps
<1> QED
  BY <1>2, <1>3, <1>4, <1>5, <1>6, <1>7, <1>8 DEF Upgrade

\* Both together.
LEMMA RolloutTypeStep == TypeOK /\ [Next]_vars => TypeOK'
<1> SUFFICES ASSUME TypeOK, [Next]_vars
             PROVE  TypeOK'
  OBVIOUS
<1>1. CASE Host
  BY <1>1, HostType DEF Host, HostStep
<1>2. CASE Upgrade
  BY <1>2, UpgradeType
<1>3. CASE UNCHANGED vars
  BY <1>3 DEF vars, TypeOK
<1> QED
  BY <1>1, <1>2, <1>3 DEF Next

\* A cluster that runs version 1 is of the types.
LEMMA RolloutInitial == Init => TypeOK
<1> SUFFICES ASSUME Init
             PROVE  TypeOK
  OBVIOUS
<1>1. 1 \in Versions
  BY RolloutBounds DEF Versions
<1>2. 1 \in 1..Len(Order)
  BY OrderFacts, OrderAssumption
<1> QED
  BY <1>1, <1>2 DEF Init, TypeOK, Steps, Kinds

(***************************************************************************)
(* Type correctness: every version the host or a wait holds is one an      *)
(* upgrade asked for, a wait stays within the list of UpgradeCluster, and  *)
(* no count of Pods goes below zero.                                       *)
(***************************************************************************)
THEOREM RolloutTypeOK == Spec => []TypeOK
  BY RolloutInitial, RolloutTypeStep, PTL DEF Spec

-----------------------------------------------------------------------------
(* One workload in the hands of its controller.                            *)

\* From version n on there is no way back: neither a Pod nor a ReplicaSet of
\* an older version is left.
Settled(c, n) ==
  /\ observed[c] >= n
  /\ \A p \in Kinds : pods[c][p] > 0 => p[1] >= n
  /\ c \in Deployments => \A v \in Versions : want[c][v] = 1 => v >= n

\* Every ReplicaSet up to version n that should have a Pod has one, the newest
\* among them.
Manned(d, n) ==
  /\ observed[d] = n => want[d][n] = 1
  /\ \A v \in Versions : v <= n /\ want[d][v] = 1 =>
       pods[d][<<v, "starting">>] > 0 \/ pods[d][<<v, "ready">>] > 0

\* The Pods follow the controller, and the controller the template.
InStep(c) ==
  /\ observed[c] <= template[c]
  /\ \A p \in Kinds : pods[c][p] > 0 => p[1] <= observed[c]

\* A StatefulSet has one Pod at most, and a complete status is right.
SetSound(s) ==
  /\ \A p, q \in Kinds : pods[s][p] > 0 /\ pods[s][q] > 0 =>
                           p = q /\ pods[s][p] = 1
  /\ status[s].generation <= observed[s]
  /\ StatusComplete(s) => Settled(s, template[s])

\* No ReplicaSet is made before its template is seen, and without evictions
\* none loses the Pod it should have.
DeploymentSound(d) ==
  /\ \A v \in Versions : want[d][v] = 1 => v <= observed[d]
  /\ want[d][observed[d]] = 0 =>
       \A state \in PodStates : pods[d][<<observed[d], state>>] = 0
  /\ evictions = 0 =>
       \A v \in Versions : want[d][v] = 1 => pods[d][<<v, "leaving">>] = 0

Sound(c) ==
  /\ InStep(c)
  /\ c \in StatefulSets => SetSound(c)
  /\ c \in Deployments => DeploymentSound(c)

\* A kind of Pod is a version and a state.
LEMMA PodFacts ==
  /\ \A v \in Versions, state \in PodStates : <<v, state>> \in Kinds
  /\ \A p \in Kinds : p[1] \in Versions /\ p[2] \in PodStates
                      /\ p = <<p[1], p[2]>>
BY DEF Kinds

\* What changes of the Pods: one of a version that is lacked may come, all
\* others were there.
LEMMA PodsAfter ==
  ASSUME TypeOK, NEW c \in Workloads, HostStep(c)
  PROVE  /\ \A b \in Workloads \ {c} : pods'[b] = pods[b]
         /\ \A p \in Kinds : pods'[c][p] > 0 =>
              \/ \E q \in Kinds : q[1] = p[1] /\ pods[c][q] > 0
              \/ Lacks(c, p[1])
<1>1. CASE pods' = pods
  BY <1>1
<1>2. ASSUME NEW v \in Versions, CreatePod(c, v)
      PROVE  /\ \A b \in Workloads \ {c} : pods'[b] = pods[b]
             /\ \A p \in Kinds : pods'[c][p] > 0 =>
                  pods[c][p] > 0 \/ Lacks(c, p[1])
  <2>1. <<v, "starting">> \in Kinds
    BY DEF Kinds, PodStates
  <2>2. Lacks(c, v)
    BY <1>2 DEF CreatePod
  <2>3. /\ \A b \in Workloads \ {c} : pods'[b] = pods[b]
        /\ \A p \in Kinds \ {<<v, "starting">>} : pods'[c][p] = pods[c][p]
    BY <1>2, <2>1 DEF CreatePod, TypeOK
  <2> QED
    BY <2>2, <2>3
<1>3. ASSUME NEW v \in Versions, PodGone(c, v)
      PROVE  /\ \A b \in Workloads \ {c} : pods'[b] = pods[b]
             /\ \A p \in Kinds : pods'[c][p] > 0 => pods[c][p] > 0
  <2>1. <<v, "leaving">> \in Kinds
    BY DEF Kinds, PodStates
  <2>2. /\ \A b \in Workloads \ {c} : pods'[b] = pods[b]
        /\ pods'[c] = [pods[c] EXCEPT ![<<v, "leaving">>] = @ - 1]
        /\ pods[c] \in [Kinds -> Nat]
    BY <1>3, <2>1 DEF PodGone, TypeOK
  <2>3. ASSUME NEW p \in Kinds, pods'[c][p] > 0
        PROVE  pods[c][p] > 0
    <3>1. CASE p = <<v, "leaving">>
      BY <1>3, <3>1 DEF PodGone
    <3>2. CASE p # <<v, "leaving">>
      BY <2>2, <2>3, <3>2
    <3> QED
      BY <3>1, <3>2
  <2> QED
    BY <2>2, <2>3
<1>4. ASSUME NEW v \in Versions,
             PodReady(c, v) \/ DeletePod(c, v) \/ Evict(c, v)
      PROVE  /\ \A b \in Workloads \ {c} : pods'[b] = pods[b]
             /\ \A p \in Kinds : pods'[c][p] > 0 =>
                  \E q \in Kinds : q[1] = p[1] /\ pods[c][q] > 0
  <2>1. PICK from \in PodStates, to \in PodStates :
          Moved(c, v, from, to)
    BY <1>4, PodMoved DEF PodReady, DeletePod, Evict, PodStates, Live
  <2>2. ASSUME NEW p \in Kinds, pods'[c][p] > 0
        PROVE  \E q \in Kinds : q[1] = p[1] /\ pods[c][q] > 0
    <3>1. /\ <<v, from>> \in Kinds /\ pods[c][<<v, from>>] > 0
          /\ <<v, from>>[1] = v /\ <<v, to>>[1] = v
      BY <2>1 DEF Moved
    <3>2. CASE p \in {<<v, from>>, <<v, to>>}
      BY <3>1, <3>2
    <3>3. CASE p \notin {<<v, from>>, <<v, to>>}
      BY <2>1, <2>2, <3>3 DEF Moved
    <3> QED
      BY <3>2, <3>3
  <2> QED
    BY <2>1, <2>2 DEF Moved
<1> QED
  BY <1>1, <1>2, <1>3, <1>4
     DEF HostStep, Observe, ScaleUp, WriteStatus, ScaleDown

\* The template is not the controllers' to change, and what they have seen
\* they do not forget.
LEMMA HostFrame ==
  ASSUME TypeOK, NEW c \in Workloads, HostStep(c)
  PROVE  /\ UNCHANGED <<template, version, at, pc, rs, unsure>>
         /\ evictions' \in {evictions, evictions + 1}
         /\ \A b \in Workloads \ {c} : observed'[b] = observed[b]
         /\ \A d \in Deployments \ {c} : want'[d] = want[d]
         /\ \A s \in StatefulSets \ {c} : status'[s] = status[s]
         /\ observed'[c] \in {observed[c], template[c]}
         /\ observed'[c] >= observed[c]
<1>0. observed[c] \in Nat /\ observed[c] >= observed[c]
  BY DEF TypeOK, Versions
<1>1. ASSUME NEW v \in Versions,
             \/ CreatePod(c, v) \/ PodReady(c, v) \/ DeletePod(c, v)
             \/ PodGone(c, v) \/ Evict(c, v)
      PROVE  /\ UNCHANGED <<template, observed, want, status, version, at, pc,
                            rs, unsure>>
             /\ evictions' \in {evictions, evictions + 1}
  <2>1. /\ UNCHANGED <<template, observed, want, status, upgradeVars>>
        /\ evictions' \in {evictions, evictions + 1}
    BY <1>1, PodSteps
  <2> QED
    BY <2>1 DEF upgradeVars
<1>2. CASE Observe(c)
  <2>1. /\ observed' = [observed EXCEPT ![c] = template[c]]
        /\ UNCHANGED <<template, want, status, upgradeVars, evictions>>
        /\ observed[c] < template[c]
    BY <1>2 DEF Observe
  <2>2. /\ observed[c] \in Nat /\ template[c] \in Nat
        /\ observed'[c] = template[c]
        /\ \A b \in Workloads \ {c} : observed'[b] = observed[b]
    BY <2>1 DEF TypeOK, Versions
  <2>3. observed'[c] >= observed[c]
    BY <2>1, <2>2
  <2> QED
    BY <2>1, <2>2, <2>3 DEF upgradeVars, TypeOK
<1>3. CASE c \in Deployments /\ ScaleUp(c)
  BY <1>0, <1>3 DEF ScaleUp, TypeOK, upgradeVars
<1>4. CASE c \in StatefulSets /\ WriteStatus(c)
  BY <1>0, <1>4 DEF WriteStatus, TypeOK, upgradeVars
<1>5. CASE \E v \in Versions : c \in Deployments /\ ScaleDown(c, v)
  BY <1>0, <1>5 DEF ScaleDown, TypeOK, upgradeVars
<1> QED
  BY <1>0, <1>1, <1>2, <1>3, <1>4, <1>5 DEF HostStep

\* A ReplicaSet is scaled up only when it is the newest.
LEMMA WantAfter ==
  ASSUME TypeOK, NEW d \in Deployments, HostStep(d), NEW v \in Versions,
         want'[d][v] = 1
  PROVE  want[d][v] = 1 \/ v = observed[d]
<1>1. CASE want' = want
  BY <1>1
<1>2. CASE ScaleUp(d)
  BY <1>2 DEF ScaleUp, TypeOK
<1>3. ASSUME NEW w \in Versions, ScaleDown(d, w)
      PROVE  want[d][v] = 1
  BY <1>3 DEF ScaleDown, TypeOK
<1>4. ASSUME NEW w \in Versions,
             \/ CreatePod(d, w) \/ PodReady(d, w) \/ DeletePod(d, w)
             \/ PodGone(d, w) \/ Evict(d, w)
      PROVE  want' = want
  <2>1. d \in Workloads
    BY DEF Deployments
  <2> QED
    BY <1>4, <2>1, PodSteps
<1> QED
  BY <1>1, <1>2, <1>3, <1>4 DEF HostStep, Observe, WriteStatus

\* No Pod is newer than what its controller has seen.
LEMMA InStepKept ==
  ASSUME TypeOK, NEW c \in Workloads, Sound(c), HostStep(c)
  PROVE  InStep(c)'
<1>1. observed'[c] <= template'[c] /\ observed'[c] >= observed[c]
  <2>1. /\ template' = template /\ observed'[c] >= observed[c]
        /\ observed'[c] \in {observed[c], template[c]}
    BY HostFrame
  <2>2. template[c] \in Nat /\ observed[c] <= template[c]
    BY DEF TypeOK, Versions, Sound, InStep
  <2> QED
    BY <2>1, <2>2
<1>2. ASSUME NEW p \in Kinds, pods'[c][p] > 0
      PROVE  p[1] <= observed[c]
  <2>1. p[1] \in Versions
    BY PodFacts
  <2>2. CASE Lacks(c, p[1])
    <3>1. CASE c \in StatefulSets
      BY <2>1, <2>2, <3>1 DEF Lacks, TypeOK, Versions
    <3>2. CASE c \in Deployments
      BY <2>1, <2>2, <3>2 DEF Lacks, Sound, DeploymentSound, Deployments
    <3> QED
      BY <3>1, <3>2 DEF Deployments
  <2>3. CASE \E q \in Kinds : q[1] = p[1] /\ pods[c][q] > 0
    BY <2>3 DEF Sound, InStep
  <2> QED
    BY <1>2, <2>2, <2>3, PodsAfter
<1>3. \A p \in Kinds : p[1] \in Nat
  BY DEF Kinds, Versions
<1>4. observed[c] \in Nat /\ observed'[c] \in Nat
  BY HostType DEF TypeOK, Versions
<1> QED
  BY <1>1, <1>2, <1>3, <1>4 DEF InStep

\* What is settled stays settled: only the newest version gets new Pods.
LEMMA SettledKept ==
  ASSUME TypeOK, NEW c \in Workloads, HostStep(c), NEW n \in Nat,
         Settled(c, n)
  PROVE  Settled(c, n)'
<1>1. observed[c] \in Nat /\ observed'[c] \in Nat /\ observed'[c] >= n
  <2>1. observed'[c] >= observed[c] /\ observed[c] >= n /\ TypeOK'
    BY HostFrame, HostType DEF Settled
  <2>2. observed[c] \in Versions /\ observed'[c] \in Versions
    BY <2>1 DEF TypeOK
  <2> QED
    BY <2>1, <2>2 DEF Versions
<1>2. ASSUME NEW p \in Kinds, pods'[c][p] > 0
      PROVE  p[1] >= n
  <2>1. p[1] \in Versions
    BY PodFacts
  <2>2. CASE Lacks(c, p[1])
    BY <2>1, <2>2 DEF Lacks, Settled, Deployments
  <2>3. CASE \E q \in Kinds : q[1] = p[1] /\ pods[c][q] > 0
    BY <2>3 DEF Settled
  <2> QED
    BY <1>2, <2>2, <2>3, PodsAfter
<1>3. c \in Deployments => \A v \in Versions : want'[c][v] = 1 => v >= n
  BY WantAfter DEF Settled
<1> QED
  BY <1>1, <1>2, <1>3 DEF Settled

\* One Pod at most: it goes before the next one comes.
LEMMA OnePodKept ==
  ASSUME TypeOK, NEW s \in StatefulSets, s \in Workloads, SetSound(s),
         HostStep(s), NEW p \in Kinds, NEW q \in Kinds,
         pods'[s][p] > 0, pods'[s][q] > 0
  PROVE  p = q /\ pods'[s][p] = 1
<1>1. pods[s] \in [Kinds -> Nat]
  BY DEF TypeOK
<1>2. CASE pods' = pods
  BY <1>2 DEF SetSound
<1>3. ASSUME NEW v \in Versions, CreatePod(s, v)
      PROVE  p = q /\ pods'[s][p] = 1
  <2>1. <<v, "starting">> \in Kinds
    BY DEF Kinds, PodStates
  <2>2. \A x \in Kinds : ~(pods[s][x] > 0)
    BY <1>3 DEF CreatePod, Lacks, Has, Kinds
  <2>3. pods'[s] = [pods[s] EXCEPT ![<<v, "starting">>] = @ + 1]
    BY <1>3, <2>1 DEF CreatePod, TypeOK
  <2>4. \A x \in Kinds : pods[s][x] = 0
    BY <1>1, <2>2
  <2> QED
    BY <1>1, <2>1, <2>3, <2>4
<1>4. ASSUME NEW v \in Versions, PodGone(s, v)
      PROVE  p = q /\ pods'[s][p] = 1
  <2>1. <<v, "leaving">> \in Kinds
    BY DEF Kinds, PodStates
  <2>2. pods'[s] = [pods[s] EXCEPT ![<<v, "leaving">>] = @ - 1]
    BY <1>4, <2>1 DEF PodGone, TypeOK
  <2>3. pods[s][<<v, "leaving">>] = 1
    BY <1>4, <2>1 DEF PodGone, SetSound
  <2>4. \A x \in Kinds : pods[s][x] > 0 => x = <<v, "leaving">>
    BY <2>1, <2>3 DEF SetSound
  <2> QED
    BY <1>1, <2>1, <2>2, <2>3, <2>4
<1>5. ASSUME NEW v \in Versions,
             PodReady(s, v) \/ DeletePod(s, v) \/ Evict(s, v)
      PROVE  p = q /\ pods'[s][p] = 1
  <2>1. PICK from \in PodStates, to \in PodStates :
          from # to /\ Moved(s, v, from, to)
    BY <1>5, PodMoved DEF PodReady, DeletePod, Evict, PodStates, Live
  <2>2. /\ pods[s][<<v, from>>] = 1
        /\ \A x \in Kinds : pods[s][x] > 0 => x = <<v, from>>
    BY <2>1 DEF Moved, SetSound
  <2>3. pods[s][<<v, to>>] = 0
    BY <1>1, <2>1, <2>2 DEF Moved
  <2>4. \A x \in Kinds \ {<<v, from>>, <<v, to>>} : ~(pods'[s][x] > 0)
    BY <2>1, <2>2 DEF Moved
  <2>5. pods'[s][<<v, from>>] = 0 /\ pods'[s][<<v, to>>] = 1
    BY <2>1, <2>2, <2>3 DEF Moved
  <2>6. p = <<v, to>> /\ q = <<v, to>>
    BY <2>4, <2>5
  <2> QED
    BY <2>5, <2>6
<1> QED
  BY <1>2, <1>3, <1>4, <1>5
     DEF HostStep, Observe, ScaleUp, WriteStatus, ScaleDown

\* A StatefulSet stays sound: its status is written from the Pods there are,
\* and when it is complete the only Pod is of the template it speaks of.
LEMMA SetSoundKept ==
  ASSUME TypeOK, NEW s \in StatefulSets, s \in Workloads, InStep(s),
         SetSound(s), HostStep(s)
  PROVE  SetSound(s)'
<1>1. /\ observed[s] \in Nat /\ observed'[s] \in Nat
      /\ observed'[s] >= observed[s] /\ template' = template
      /\ template[s] \in Nat /\ status[s].generation \in Nat
  <2>1. TypeOK' /\ observed'[s] >= observed[s] /\ template' = template
    BY HostFrame, HostType
  <2> QED
    BY <2>1 DEF TypeOK, Versions
<1>2. CASE WriteStatus(s)
  <2>1. /\ observed' = observed /\ pods' = pods
        /\ status'[s].generation = observed[s]
        /\ status'[s].updated = 1 => Has(s, {observed[s]}, Live)
    BY <1>2 DEF WriteStatus, TypeOK
  <2>2. ASSUME StatusComplete(s)'
        PROVE  Settled(s, template[s])
    <3>1. PICK p \in {observed[s]} \X Live : pods[s][p] > 0
      BY <2>1, <2>2 DEF StatusComplete, Has
    <3>2. p \in Kinds /\ p[1] = observed[s]
      BY DEF Kinds, TypeOK, Live, PodStates
    <3>3. \A q \in Kinds : pods[s][q] > 0 => q[1] = observed[s]
      BY <3>1, <3>2 DEF SetSound
    <3>4. observed[s] >= template[s]
      BY <1>1, <2>1, <2>2 DEF StatusComplete
    <3> QED
      BY <1>1, <3>3, <3>4 DEF Settled, Deployments
  <2>3. Settled(s, template[s]) => Settled(s, template[s])'
    BY <1>1, SettledKept
  <2> QED
    BY <1>1, <2>1, <2>2, <2>3, OnePodKept DEF SetSound
<1>3. CASE ~WriteStatus(s)
  <2>1. status' = status
    <3>1. ASSUME NEW v \in Versions,
                 \/ CreatePod(s, v) \/ PodReady(s, v) \/ DeletePod(s, v)
                 \/ PodGone(s, v) \/ Evict(s, v)
          PROVE  status' = status
      BY <3>1, PodSteps
    <3> QED
      BY <1>3, <3>1 DEF HostStep, Observe, ScaleUp, ScaleDown
  <2>2. StatusComplete(s)' => Settled(s, template[s])'
    BY <1>1, <2>1, SettledKept DEF SetSound, StatusComplete
  <2> QED
    BY <1>1, <2>1, <2>2, OnePodKept DEF SetSound
<1> QED
  BY <1>2, <1>3

\* A Deployment stays sound: a ReplicaSet is made empty, and the Pods of one
\* that wants a Pod are not deleted.
LEMMA DeploymentSoundKept ==
  ASSUME TypeOK, NEW d \in Deployments, InStep(d), DeploymentSound(d),
         HostStep(d)
  PROVE  DeploymentSound(d)'
<1>1. /\ d \in Workloads /\ observed[d] \in Nat /\ observed'[d] \in Nat
      /\ observed'[d] >= observed[d]
      /\ observed'[d] \in Versions /\ observed[d] \in Versions
      /\ want[d] \in [Versions -> 0..1] /\ pods[d] \in [Kinds -> Nat]
      /\ evictions \in Nat /\ evictions' \in {evictions, evictions + 1}
  <2>1. d \in Workloads
    BY DEF Deployments
  <2>2. /\ TypeOK' /\ observed'[d] >= observed[d]
        /\ evictions' \in {evictions, evictions + 1}
    BY <2>1, HostFrame, HostType
  <2> QED
    BY <2>1, <2>2 DEF TypeOK, Versions
<1>2. \A v \in Versions : want'[d][v] = 1 => v <= observed'[d]
  <2> SUFFICES ASSUME NEW v \in Versions, want'[d][v] = 1
               PROVE  v <= observed'[d]
    OBVIOUS
  <2>1. v <= observed[d]
    BY <1>1, WantAfter DEF DeploymentSound
  <2> QED
    BY <1>1, <2>1 DEF Versions
<1>3. CASE Observe(d)
  <2>1. /\ observed'[d] > observed[d]
        /\ want' = want /\ pods' = pods /\ evictions' = evictions
    BY <1>1, <1>3 DEF Observe, TypeOK, Versions
  <2>2. \A state \in PodStates : pods[d][<<observed'[d], state>>] = 0
    <3> SUFFICES ASSUME NEW state \in PodStates
                 PROVE  pods[d][<<observed'[d], state>>] = 0
      OBVIOUS
    <3>1. /\ <<observed'[d], state>> \in Kinds
          /\ <<observed'[d], state>>[1] = observed'[d]
      BY <1>1, PodFacts
    <3>2. ~(pods[d][<<observed'[d], state>>] > 0)
      BY <1>1, <2>1, <3>1 DEF InStep
    <3> QED
      BY <1>1, <3>1, <3>2
  <2> QED
    BY <1>2, <2>1, <2>2 DEF DeploymentSound
<1>4. CASE ScaleUp(d)
  <2>1. /\ want'[d] = [want[d] EXCEPT ![observed[d]] = 1]
        /\ want[d][observed[d]] = 0
        /\ UNCHANGED <<observed, pods, evictions>>
    BY <1>4 DEF ScaleUp, TypeOK
  <2>2. pods[d][<<observed[d], "leaving">>] = 0
    BY <2>1 DEF DeploymentSound, PodStates
  <2> QED
    BY <1>1, <1>2, <2>1, <2>2 DEF DeploymentSound
<1>5. ASSUME NEW w \in Versions, ScaleDown(d, w)
      PROVE  DeploymentSound(d)'
  <2>1. /\ want'[d] = [want[d] EXCEPT ![w] = 0] /\ w < observed[d]
        /\ UNCHANGED <<observed, pods, evictions>>
    BY <1>5 DEF ScaleDown, TypeOK
  <2> QED
    BY <1>1, <1>2, <2>1 DEF DeploymentSound
<1>6. ASSUME NEW w \in Versions,
             \/ CreatePod(d, w) \/ PodReady(d, w) \/ DeletePod(d, w)
             \/ PodGone(d, w) \/ Evict(d, w)
      PROVE  DeploymentSound(d)'
  <2>1. UNCHANGED <<observed, want>>
    BY <1>1, <1>6, PodSteps
  <2>2. ASSUME want[d][observed[d]] = 0, NEW state \in PodStates
        PROVE  pods'[d][<<observed[d], state>>] = 0
    <3>1. \A s \in PodStates : pods[d][<<observed[d], s>>] = 0
      BY <2>2 DEF DeploymentSound
    <3>2. <<observed[d], state>> \in Kinds
      BY <1>1, PodFacts
    <3>3. pods'[d][<<observed[d], state>>] \in Nat
      BY <1>1, <1>6, <3>2, PodSteps
    <3>4. ~(pods'[d][<<observed[d], state>>] > 0)
      <4>1. ASSUME NEW q \in Kinds, q[1] = observed[d]
            PROVE  ~(pods[d][q] > 0)
        BY <3>1, <4>1, PodFacts
      <4>2. ~Lacks(d, observed[d])
        BY <1>1, <2>2 DEF Lacks, Deployments
      <4>3. <<observed[d], state>>[1] = observed[d]
        OBVIOUS
      <4> QED
        BY <1>1, <3>2, <4>1, <4>2, <4>3, PodsAfter
    <3> QED
      BY <3>3, <3>4
  <2>3. ASSUME evictions' = 0, NEW v \in Versions, want[d][v] = 1
        PROVE  pods'[d][<<v, "leaving">>] = 0
    <3>1. /\ <<v, "leaving">> \in Kinds /\ evictions = 0
          /\ pods[d][<<v, "leaving">>] = 0
      <4>1. <<v, "leaving">> \in Kinds
        BY DEF Kinds, PodStates
      <4>2. evictions = 0
        BY <1>1, <2>3
      <4> QED
        BY <2>3, <4>1, <4>2 DEF DeploymentSound
    <3>2. CASE CreatePod(d, w)
      <4>1. pods'[d] = [pods[d] EXCEPT ![<<w, "starting">>] = @ + 1]
        BY <1>1, <3>2 DEF CreatePod, TypeOK
      <4> QED
        BY <1>1, <3>1, <4>1
    <3>3. CASE PodReady(d, w)
      <4>1. Moved(d, w, "starting", "ready")
        BY <1>1, <3>3, PodMoved DEF PodReady, PodStates
      <4> QED
        BY <3>1, <4>1 DEF Moved
    <3>4. CASE DeletePod(d, w)
      <4>1. PICK state \in Live : Moved(d, w, state, "leaving")
        BY <1>1, <3>4, PodMoved DEF DeletePod, PodStates, Live
      <4>2. w # v
        BY <2>3, <3>4 DEF DeletePod, HasTooMany, Deployments
      <4> QED
        BY <3>1, <4>1, <4>2 DEF Moved
    <3>5. CASE PodGone(d, w)
      <4>1. /\ pods'[d] = [pods[d] EXCEPT ![<<w, "leaving">>] = @ - 1]
            /\ pods[d][<<w, "leaving">>] > 0
        BY <1>1, <3>5 DEF PodGone, TypeOK
      <4> QED
        BY <1>1, <3>1, <4>1
    <3>6. CASE Evict(d, w)
      BY <1>1, <2>3, <3>6 DEF Evict
    <3> QED
      BY <1>6, <3>2, <3>3, <3>4, <3>5, <3>6
  <2> QED
    BY <1>2, <2>1, <2>2, <2>3 DEF DeploymentSound
<1>7. ~(d \in StatefulSets)
  BY DEF Deployments
<1> QED
  BY <1>3, <1>4, <1>5, <1>6, <1>7 DEF HostStep

\* Without evictions a ReplicaSet that should have a Pod keeps it.
LEMMA MannedKept ==
  ASSUME TypeOK, NEW d \in Deployments, DeploymentSound(d), HostStep(d),
         NEW n \in Nat, Settled(d, n), Manned(d, n), evictions' = 0
  PROVE  Manned(d, n)'
<1>1. /\ d \in Workloads /\ observed[d] \in Nat /\ observed'[d] \in Nat
      /\ observed'[d] >= observed[d] /\ observed[d] >= n
      /\ observed[d] \in Versions
      /\ want[d] \in [Versions -> 0..1] /\ pods[d] \in [Kinds -> Nat]
      /\ evictions \in Nat
  <2>1. d \in Workloads
    BY DEF Deployments
  <2>2. TypeOK' /\ observed'[d] >= observed[d]
    BY <2>1, HostFrame, HostType
  <2> QED
    BY <2>1, <2>2 DEF TypeOK, Versions, Settled
<1>2. CASE Observe(d)
  <2>1. /\ observed'[d] > observed[d]
        /\ want' = want /\ pods' = pods
    BY <1>1, <1>2 DEF Observe, TypeOK, Versions
  <2> QED
    BY <1>1, <2>1 DEF Manned
<1>3. CASE ScaleUp(d)
  <2>1. /\ want'[d] = [want[d] EXCEPT ![observed[d]] = 1]
        /\ want[d][observed[d]] = 0
        /\ UNCHANGED <<observed, pods>>
    BY <1>3 DEF ScaleUp, TypeOK
  <2>2. observed[d] > n
    BY <1>1, <2>1 DEF Manned
  <2>3. ASSUME NEW v \in Versions, v <= n, want'[d][v] = 1
        PROVE  want[d][v] = 1
    <3>1. v # observed[d]
      BY <1>1, <2>2, <2>3 DEF Versions
    <3> QED
      BY <1>1, <2>1, <2>3, <3>1
  <2> QED
    BY <1>1, <2>1, <2>2, <2>3 DEF Manned
<1>4. ASSUME NEW w \in Versions, ScaleDown(d, w)
      PROVE  Manned(d, n)'
  <2>1. /\ want'[d] = [want[d] EXCEPT ![w] = 0] /\ w < observed[d]
        /\ UNCHANGED <<observed, pods>>
    BY <1>4 DEF ScaleDown, TypeOK
  <2> QED
    BY <1>1, <2>1 DEF Manned
<1>5. ASSUME NEW w \in Versions,
             \/ CreatePod(d, w) \/ PodReady(d, w) \/ DeletePod(d, w)
             \/ PodGone(d, w) \/ Evict(d, w)
      PROVE  Manned(d, n)'
  <2>1. UNCHANGED <<observed, want>>
    BY <1>1, <1>5, PodSteps
  <2>2. ASSUME NEW v \in Versions, v <= n, want[d][v] = 1
        PROVE  pods'[d][<<v, "starting">>] > 0 \/ pods'[d][<<v, "ready">>] > 0
    <3>1. /\ <<v, "starting">> \in Kinds /\ <<v, "ready">> \in Kinds
          /\ <<w, "starting">> \in Kinds /\ <<w, "leaving">> \in Kinds
      BY DEF Kinds, PodStates
    <3>2. pods[d][<<v, "starting">>] > 0 \/ pods[d][<<v, "ready">>] > 0
      BY <2>2 DEF Manned
    <3>3. CASE CreatePod(d, w)
      <4>1. pods'[d] = [pods[d] EXCEPT ![<<w, "starting">>] = @ + 1]
        BY <1>1, <3>1, <3>3 DEF CreatePod, TypeOK
      <4> QED
        BY <1>1, <3>1, <3>2, <4>1
    <3>4. CASE PodReady(d, w)
      <4>1. Moved(d, w, "starting", "ready")
        BY <1>1, <3>4, PodMoved DEF PodReady, PodStates
      <4>2. CASE w = v
        <5>1. pods'[d][<<v, "ready">>] = pods[d][<<v, "ready">>] + 1
          BY <4>1, <4>2 DEF Moved
        <5> QED
          BY <1>1, <3>1, <5>1
      <4>3. CASE w # v
        BY <3>1, <3>2, <4>1, <4>3 DEF Moved
      <4> QED
        BY <4>2, <4>3
    <3>5. CASE DeletePod(d, w)
      <4>1. PICK state \in Live : Moved(d, w, state, "leaving")
        BY <1>1, <3>5, PodMoved DEF DeletePod, PodStates, Live
      <4>2. w # v
        BY <2>2, <3>5 DEF DeletePod, HasTooMany, Deployments
      <4> QED
        BY <3>1, <3>2, <4>1, <4>2 DEF Moved
    <3>6. CASE PodGone(d, w)
      <4>1. pods'[d] = [pods[d] EXCEPT ![<<w, "leaving">>] = @ - 1]
        BY <1>1, <3>1, <3>6 DEF PodGone, TypeOK
      <4> QED
        BY <1>1, <3>1, <3>2, <4>1
    <3>7. CASE Evict(d, w)
      BY <1>1, <3>7 DEF Evict
    <3> QED
      BY <1>5, <3>3, <3>4, <3>5, <3>6, <3>7
  <2> QED
    BY <1>1, <2>1, <2>2 DEF Manned
<1>6. ~(d \in StatefulSets)
  BY DEF Deployments
<1> QED
  BY <1>2, <1>3, <1>4, <1>5, <1>6 DEF HostStep

-----------------------------------------------------------------------------
(* The upgrade and the inductive invariant.                                *)

\* The places in the list.
Positions == 1..Len(Order)

\* Has the upgrade passed this workload, or ended?
Passed(i) == at > i \/ pc = "idle"

\* The version the workload at position i was last waited for.
Floor(i) == IF Passed(i) THEN version ELSE version - 1

\* Every workload is in sound hands.
SoundInv == \A c \in Workloads : Sound(c)

\* Templates follow the upgrade.
TemplateInv ==
  \A i \in Positions :
    template[Order[i]] = IF Passed(i) \/ (at = i /\ pc # "apply") THEN version
                         ELSE version - 1

\* A StatefulSet whose Pods are being listed is settled already, and the
\* ReplicaSet a Deployment wait goes by is the new one.
WaitInv ==
  /\ pc = "list" => Workload \in StatefulSets /\ Settled(Workload, version)
  /\ pc = "poll" => Workload \in Deployments
  /\ pc = "poll" /\ Workload \notin unsure =>
       rs = version /\ observed[Workload] = version

\* What a wait that ended well has left behind.
Succeeded(i) ==
  /\ Order[i] \in StatefulSets => Settled(Order[i], Floor(i))
  /\ Order[i] \in Deployments /\ evictions = 0 =>
       Settled(Order[i], Floor(i)) /\ Manned(Order[i], Floor(i))

SuccessInv == \A i \in Positions : Order[i] \notin unsure => Succeeded(i)

RolloutInv == TypeOK /\ SoundInv /\ TemplateInv /\ WaitInv /\ SuccessInv

\* A Deployment wait that ends well, by the ReplicaSet of the new template.
LEMMA PollSucceeds ==
  ASSUME TypeOK, NEW d \in Deployments, DeploymentSound(d), evictions = 0,
         observed[d] = version, OnlyPodOf(d, version),
         Settled(d, version - 1), Manned(d, version - 1)
  PROVE  Settled(d, version) /\ Manned(d, version)
<1>1. /\ d \in Workloads /\ version \in Versions /\ version \in Nat
      /\ want[d] \in [Versions -> 0..1]
      /\ pods[d] \in [Kinds -> Nat]
      /\ \A v \in Versions : v \in Nat
  BY DEF TypeOK, Deployments, Versions
<1>2. PICK p \in Kinds : /\ pods[d][p] = 1
                         /\ \A q \in Kinds \ {p} : pods[d][q] = 0
  BY DEF OnlyPodOf, HasOne, Kinds
<1>3. \A q \in Kinds : pods[d][q] > 0 => q = p
  BY <1>2
<1>4. p[1] = version
  <2>1. PICK q \in {version} \X PodStates : pods[d][q] > 0
    BY DEF OnlyPodOf, Has
  <2>2. q \in Kinds /\ q[1] = version
    BY <1>1 DEF Kinds
  <2> QED
    BY <1>3, <2>1, <2>2
<1>5. ASSUME NEW v \in Versions, want[d][v] = 1
      PROVE  v >= version
  <2> SUFFICES ASSUME v < version
               PROVE  FALSE
    BY <1>1
  <2>1. v <= version - 1
    BY <1>1
  <2>2. pods[d][<<v, "starting">>] > 0 \/ pods[d][<<v, "ready">>] > 0
    BY <1>5, <2>1 DEF Manned
  <2>3. <<v, "starting">> \in Kinds /\ <<v, "ready">> \in Kinds
    BY DEF Kinds, PodStates
  <2>4. <<v, "starting">>[1] = v /\ <<v, "ready">>[1] = v
    OBVIOUS
  <2>5. v = version
    BY <1>3, <1>4, <2>2, <2>3, <2>4
  <2> QED
    BY <1>1, <2>5
<1>6. Settled(d, version)
  <2>1. \A q \in Kinds : pods[d][q] > 0 => q[1] >= version
    BY <1>1, <1>3, <1>4
  <2> QED
    BY <1>1, <1>5, <2>1 DEF Settled
<1>7. p = <<version, p[2]>> /\ p[2] \in PodStates
  BY <1>4, PodFacts
<1>8. want[d][version] = 1
  <2>1. want[d][version] # 0
    BY <1>2, <1>7 DEF DeploymentSound
  <2> QED
    BY <1>1, <2>1
<1>9. p[2] # "leaving"
  BY <1>1, <1>2, <1>7, <1>8 DEF DeploymentSound
<1>10. pods[d][<<version, "starting">>] > 0 \/ pods[d][<<version, "ready">>] > 0
  BY <1>2, <1>7, <1>9 DEF PodStates
<1>11. ASSUME NEW v \in Versions, v <= version, want[d][v] = 1
       PROVE  v = version
  BY <1>1, <1>5, <1>11
<1> QED
  BY <1>6, <1>8, <1>10, <1>11 DEF Manned

\* Where the upgrade is.
LEMMA AtWorkload ==
  ASSUME TypeOK
  PROVE  /\ at \in Positions /\ Len(Order) \in Nat /\ at \in Nat
         /\ Workload = Order[at] /\ Workload \in Workloads
         /\ \A i \in Positions : Order[i] \in Workloads /\ i \in Nat
         /\ \A i \in Positions : Order[i] = Workload => i = at
         /\ version \in Versions /\ version \in Nat /\ version >= 1
BY OrderFacts, OrderAssumption DEF TypeOK, Workload, Positions, Versions

\* What is said of one workload does not change with a step of another's
\* controller.
LEMMA OthersAside ==
  ASSUME TypeOK, NEW c \in Workloads, HostStep(c), NEW b \in Workloads \ {c},
         Sound(b)
  PROVE  /\ Sound(b)'
         /\ observed'[b] = observed[b]
         /\ \A n : Settled(b, n) => Settled(b, n)'
         /\ \A n : b \in Deployments /\ Manned(b, n) => Manned(b, n)'
<1>1. /\ template' = template /\ pods'[b] = pods[b]
      /\ observed'[b] = observed[b]
      /\ b \in Deployments => want'[b] = want[b]
      /\ b \in StatefulSets => status'[b] = status[b]
      /\ evictions' \in {evictions, evictions + 1} /\ evictions \in Nat
  <2>1. evictions \in Nat
    BY DEF TypeOK
  <2> QED
    BY <2>1, HostFrame, PodsAfter
<1>2. evictions' = 0 => evictions = 0
  BY <1>1
<1>3. \A n : Settled(b, n) => Settled(b, n)'
  BY <1>1 DEF Settled
<1>4. \A n : b \in Deployments /\ Manned(b, n) => Manned(b, n)'
  BY <1>1 DEF Manned
<1>5. InStep(b)'
  BY <1>1 DEF Sound, InStep
<1>6. b \in StatefulSets => SetSound(b)'
  BY <1>1, <1>3 DEF Sound, SetSound, StatusComplete
<1>7. b \in Deployments => DeploymentSound(b)'
  BY <1>1, <1>2 DEF Sound, DeploymentSound
<1> QED
  BY <1>1, <1>3, <1>4, <1>5, <1>6, <1>7 DEF Sound

\* A step of a controller.
LEMMA HostKeeps ==
  ASSUME RolloutInv, NEW c \in Workloads, HostStep(c)
  PROVE  RolloutInv'
<1> USE DEF RolloutInv
<1>1. /\ UNCHANGED <<template, version, at, pc, rs, unsure>>
      /\ evictions' \in {evictions, evictions + 1} /\ evictions \in Nat
      /\ observed'[c] \in {observed[c], template[c]}
  <2>1. evictions \in Nat
    BY DEF TypeOK
  <2> QED
    BY <2>1, HostFrame
<1>2. evictions' = 0 => evictions = 0
  BY <1>1
<1>3. SoundInv'
  <2>1. Sound(c)'
    <3>1. Sound(c)
      BY DEF SoundInv
    <3>2. InStep(c)'
      BY <3>1, InStepKept
    <3>3. c \in StatefulSets => SetSound(c)'
      BY <3>1, SetSoundKept DEF Sound
    <3>4. c \in Deployments => DeploymentSound(c)'
      BY <3>1, DeploymentSoundKept DEF Sound
    <3> QED
      BY <3>2, <3>3, <3>4 DEF Sound
  <2>2. \A b \in Workloads \ {c} : Sound(b)'
    BY OthersAside DEF SoundInv
  <2> QED
    BY <2>1, <2>2 DEF SoundInv
<1>4. \A b \in Workloads, n \in Nat : Settled(b, n) => Settled(b, n)'
  BY SettledKept, OthersAside DEF SoundInv
<1>5. ASSUME evictions' = 0, NEW b \in Deployments, NEW n \in Nat,
             Settled(b, n), Manned(b, n)
      PROVE  Manned(b, n)'
  <2>1. b \in Workloads /\ Sound(b)
    BY DEF Deployments, SoundInv
  <2>2. CASE b = c
    BY <1>5, <2>1, <2>2, MannedKept DEF Sound
  <2>3. CASE b # c
    BY <1>5, <2>1, <2>3, OthersAside
  <2> QED
    BY <2>2, <2>3
<1>6. TemplateInv'
  BY <1>1 DEF TemplateInv, Passed
<1>7. WaitInv'
  <2>1. Workload' = Workload /\ Workload \in Workloads /\ version \in Nat
    BY <1>1, AtWorkload DEF Workload
  <2>2. ASSUME pc = "list"
        PROVE  Settled(Workload, version)'
    <3>1. Settled(Workload, version)
      BY <2>2 DEF WaitInv
    <3> DEFINE b == Order[at]
    <3>2. b \in Workloads /\ b = Workload /\ b = Workload'
      BY <2>1 DEF Workload
    <3> HIDE DEF b
    <3>3. Settled(b, version)
      BY <3>1, <3>2
    <3> QED
      BY <1>1, <1>4, <2>1, <3>2, <3>3 DEF Settled
  <2>3. ASSUME pc = "poll"
        PROVE  template[Workload] = version
    <3>1. at \in Positions /\ Workload = Order[at] /\ pc # "apply"
      BY <2>3, AtWorkload
    <3> QED
      BY <2>3, <3>1 DEF TemplateInv
  <2>4. pc = "poll" /\ observed[Workload] = version
        => observed'[Workload] = version
    BY <1>1, <2>1, <2>3, OthersAside DEF SoundInv
  <2>5. pc' = "list" =>
          Workload' \in StatefulSets /\ Settled(Workload, version)'
    BY <1>1, <2>1, <2>2 DEF WaitInv
  <2>6. pc' = "poll" => Workload' \in Deployments
    BY <1>1, <2>1 DEF WaitInv
  <2>7. pc' = "poll" /\ Workload' \notin unsure' =>
          rs' = version' /\ observed'[Workload'] = version'
    BY <1>1, <2>1, <2>4 DEF WaitInv
  <2> QED
    BY <2>5, <2>6, <2>7 DEF WaitInv
<1>8. SuccessInv'
  <2> SUFFICES ASSUME NEW i \in Positions, Order[i] \notin unsure
               PROVE  Succeeded(i)'
    BY <1>1 DEF SuccessInv
  <2>1. Succeeded(i) /\ Order[i] \in Workloads
    BY AtWorkload DEF SuccessInv
  <2>2. Floor(i)' = Floor(i) /\ Floor(i) \in Nat
    BY <1>1, AtWorkload DEF Floor, Passed
  <2> QED
    BY <1>2, <1>4, <1>5, <2>1, <2>2 DEF Succeeded, Settled, Manned
<1> QED
  BY <1>3, <1>6, <1>7, <1>8, HostType

-----------------------------------------------------------------------------
(* The steps of the upgrade.                                               *)

\* What is said of Pods and ReplicaSets does not change with a step of the
\* upgrade; that a workload is sound may, but only with an apply.
LEMMA UpgradeFrame ==
  ASSUME UNCHANGED <<observed, want, pods, status, evictions>>
  PROVE  /\ \A c, n : Settled(c, n)' <=> Settled(c, n)
         /\ \A d, n : Manned(d, n)' <=> Manned(d, n)
         /\ template' = template /\ SoundInv => SoundInv'
<1>1. \A c, n : Settled(c, n)' <=> Settled(c, n)
  BY DEF Settled
<1>2. \A d, n : Manned(d, n)' <=> Manned(d, n)
  BY DEF Manned
<1>3. ASSUME template' = template, NEW c \in Workloads, Sound(c)
      PROVE  Sound(c)'
  <2>1. InStep(c)'
    BY <1>3 DEF Sound, InStep
  <2>2. c \in StatefulSets => SetSound(c)'
    BY <1>1, <1>3 DEF Sound, SetSound, StatusComplete
  <2>3. c \in Deployments => DeploymentSound(c)'
    BY <1>3 DEF Sound, DeploymentSound
  <2> QED
    BY <2>1, <2>2, <2>3 DEF Sound
<1> QED
  BY <1>1, <1>2, <1>3 DEF SoundInv

\* The successes stay what they were while no workload is passed.
LEMMA SuccessKept ==
  ASSUME SuccessInv, UNCHANGED <<observed, want, pods, status, evictions>>,
         unsure \subseteq unsure', \A i \in Positions : Floor(i)' = Floor(i)
  PROVE  SuccessInv'
<1> SUFFICES ASSUME NEW i \in Positions, Order[i] \notin unsure'
             PROVE  Succeeded(i)'
  BY DEF SuccessInv
<1>1. Succeeded(i) /\ Floor(i)' = Floor(i) /\ evictions' = evictions
  BY DEF SuccessInv
<1>2. /\ Settled(Order[i], Floor(i))' <=> Settled(Order[i], Floor(i))
      /\ Manned(Order[i], Floor(i))' <=> Manned(Order[i], Floor(i))
  BY <1>1 DEF Settled, Manned
<1> QED
  BY <1>1, <1>2 DEF Succeeded

\* The next upgrade starts from what the last one left.
LEMMA ClusterUpgradeKeeps ==
  ASSUME RolloutInv, ClusterUpgrade
  PROVE  RolloutInv'
<1>1. /\ UNCHANGED <<template, observed, want, pods, status, evictions, unsure>>
      /\ pc = "idle" /\ pc' = "apply" /\ at' = 1 /\ version' = version + 1
  BY DEF ClusterUpgrade, hostVars
<1>2. TypeOK' /\ version \in Nat /\ \A i \in Positions : i \in Nat /\ ~(1 > i)
  <2>1. TypeOK' /\ version \in Nat
    BY UpgradeType, AtWorkload DEF RolloutInv, Upgrade
  <2> QED
    BY <2>1 DEF Positions
<1>3. \A i \in Positions : Passed(i) /\ ~Passed(i)'
  BY <1>1, <1>2 DEF Passed
<1>4. \A i \in Positions : Floor(i)' = Floor(i)
  BY <1>1, <1>2, <1>3 DEF Floor
<1>5. TemplateInv'
  BY <1>1, <1>2, <1>3 DEF RolloutInv, TemplateInv
<1>6. WaitInv'
  BY <1>1 DEF WaitInv
<1>7. SoundInv' /\ SuccessInv'
  BY <1>1, <1>4, UpgradeFrame, SuccessKept DEF RolloutInv
<1> QED
  BY <1>2, <1>5, <1>6, <1>7 DEF RolloutInv

\* An apply makes every complete status an old one: its generation is that of
\* a template the controller has seen.
LEMMA ApplyKeeps ==
  ASSUME RolloutInv, Apply
  PROVE  RolloutInv'
<1>1. /\ UNCHANGED <<observed, want, pods, status, version, at, rs, evictions,
                     unsure>>
      /\ pc = "apply" /\ pc' = "tick"
      /\ template' = [template EXCEPT ![Workload] = version]
  BY DEF Apply
<1>2. /\ TypeOK' /\ version \in Nat /\ at \in Positions
      /\ Workload \in Workloads /\ Workload = Order[at]
      /\ \A i \in Positions : Order[i] \in Workloads /\ i \in Nat
      /\ \A i \in Positions : Order[i] = Workload => i = at
  BY UpgradeType, AtWorkload DEF RolloutInv, Upgrade
<1>3. /\ template'[Workload] = version
      /\ \A c \in Workloads \ {Workload} : template'[c] = template[c]
  BY <1>1, <1>2 DEF RolloutInv, TypeOK
<1>4. template[Workload] = version - 1
  <2>1. ~Passed(at)
    BY <1>1, AtWorkload DEF RolloutInv, Passed
  <2> QED
    BY <1>1, <1>2, <2>1 DEF RolloutInv, TemplateInv
<1>5. \A i \in Positions : (Passed(i)' <=> Passed(i)) /\ Floor(i)' = Floor(i)
  BY <1>1 DEF Passed, Floor
<1>6. TemplateInv'
  <2> SUFFICES ASSUME NEW i \in Positions
               PROVE  template'[Order[i]] =
                        IF Passed(i)' \/ (at' = i /\ pc' # "apply")
                        THEN version' ELSE version' - 1
    BY DEF TemplateInv
  <2>1. CASE i = at
    BY <1>1, <1>2, <1>3, <2>1
  <2>2. CASE i # at
    BY <1>1, <1>2, <1>3, <1>5, <2>2 DEF RolloutInv, TemplateInv
  <2> QED
    BY <2>1, <2>2
<1>7. SoundInv'
  <2> SUFFICES ASSUME NEW c \in Workloads
               PROVE  Sound(c)'
    BY DEF SoundInv
  <2>1. Sound(c)
    BY DEF RolloutInv, SoundInv
  <2>2. /\ template[c] \in Nat /\ template'[c] \in Nat /\ observed[c] \in Nat
        /\ c \in StatefulSets => status[c].generation \in Nat
    <3>1. template[c] \in Versions /\ template'[c] \in Versions
      BY <1>2 DEF RolloutInv, TypeOK
    <3>2. observed[c] \in Versions
      BY DEF RolloutInv, TypeOK
    <3>3. c \in StatefulSets => status[c].generation \in Versions
      BY DEF RolloutInv, TypeOK
    <3> QED
      BY <3>1, <3>2, <3>3 DEF Versions
  <2>3. template'[c] = template[c] \/ template'[c] > template[c]
    BY <1>2, <1>3, <1>4, <2>2
  <2>4. InStep(c)'
    BY <1>1, <2>1, <2>2, <2>3 DEF Sound, InStep
  <2>5. ASSUME c \in StatefulSets
        PROVE  SetSound(c)'
    <3>1. status[c].generation <= observed[c] /\ observed[c] <= template[c]
      BY <2>1, <2>5 DEF Sound, SetSound, InStep
    <3>2. StatusComplete(c)' => template'[c] = template[c]
      BY <1>1, <2>2, <2>3, <2>5, <3>1 DEF StatusComplete
    <3>3. StatusComplete(c)' => Settled(c, template[c])'
      BY <1>1, <2>1, <2>5, <3>2, UpgradeFrame
         DEF Sound, SetSound, StatusComplete, Settled
    <3> QED
      BY <1>1, <2>1, <2>5, <3>3 DEF Sound, SetSound
  <2>6. c \in Deployments => DeploymentSound(c)'
    BY <1>1, <2>1 DEF Sound, DeploymentSound
  <2> QED
    BY <2>4, <2>5, <2>6 DEF Sound
<1>8. WaitInv'
  BY <1>1 DEF WaitInv
<1>9. SuccessInv'
  BY <1>1, <1>5, SuccessKept DEF RolloutInv
<1> QED
  BY <1>2, <1>6, <1>7, <1>8, <1>9 DEF RolloutInv

\* A step of a wait that stays with its workload.
LEMMA WaitStays ==
  ASSUME RolloutInv, TypeOK', WaitInv', unsure \subseteq unsure',
         UNCHANGED <<hostVars, version, at, evictions>>,
         pc \in {"tick", "poll", "list"}, pc' \in {"tick", "poll", "list"}
  PROVE  RolloutInv'
<1>1. \A i \in Positions : (Passed(i)' <=> Passed(i)) /\ Floor(i)' = Floor(i)
  BY DEF Passed, Floor
<1>2. TemplateInv'
  BY <1>1 DEF RolloutInv, TemplateInv, hostVars
<1>3. SoundInv' /\ SuccessInv'
  BY <1>1, UpgradeFrame, SuccessKept DEF RolloutInv, hostVars
<1> QED
  BY <1>2, <1>3 DEF RolloutInv

\* In a wait the template is the one of this upgrade.
LEMMA WaitedTemplate ==
  ASSUME RolloutInv, pc \in {"tick", "poll", "list"}
  PROVE  template[Workload] = version /\ ~Passed(at)
BY AtWorkload DEF RolloutInv, TemplateInv, Passed

\* A complete status means that the StatefulSet is settled.
LEMMA GetStatefulSetKeeps ==
  ASSUME RolloutInv, GetStatefulSet
  PROVE  RolloutInv'
<1>1. /\ UNCHANGED <<hostVars, version, at, rs, evictions, unsure>>
      /\ pc = "tick" /\ pc' = "list"
      /\ Workload \in StatefulSets /\ StatusComplete(Workload)
  BY DEF GetStatefulSet
<1>2. TypeOK' /\ Workload \in Workloads
  BY UpgradeType, AtWorkload DEF RolloutInv, Upgrade
<1>3. Settled(Workload, version)
  BY <1>1, <1>2, WaitedTemplate DEF RolloutInv, SoundInv, Sound, SetSound
<1>4. WaitInv'
  BY <1>1, <1>3 DEF WaitInv, Settled, hostVars, Workload
<1> QED
  BY <1>1, <1>2, <1>4, WaitStays

\* A ReplicaSet that is not older than the upgrade's version is the new one.
LEMMA GetLatestReplicaSetKeeps ==
  ASSUME RolloutInv, GetLatestReplicaSet
  PROVE  RolloutInv'
<1>1. /\ UNCHANGED <<hostVars, version, at, evictions>>
      /\ pc = "tick" /\ pc' = "poll"
      /\ Workload \in Deployments /\ rs' = observed[Workload]
      /\ unsure \subseteq unsure'
      /\ observed[Workload] < version => Workload \in unsure'
  BY DEF GetLatestReplicaSet
<1>2. TypeOK' /\ Workload \in Workloads
  BY UpgradeType, AtWorkload DEF RolloutInv, Upgrade
<1>3. /\ observed[Workload] \in Nat /\ version \in Nat
      /\ observed[Workload] <= version
  BY <1>1, <1>2, WaitedTemplate
     DEF RolloutInv, SoundInv, Sound, InStep, TypeOK, Versions
<1>4. Workload \notin unsure' => observed[Workload] = version
  BY <1>1, <1>3
<1>5. WaitInv'
  BY <1>1, <1>4 DEF WaitInv, hostVars, Workload
<1> QED
  BY <1>1, <1>2, <1>5, WaitStays

\* A wait that is over, whatever its end: the workload counts as passed, and
\* unless it is unsure it is what the wait was for.
LEMMA WaitEnds ==
  ASSUME RolloutInv, TypeOK', NextWorkload, unsure \subseteq unsure',
         UNCHANGED <<hostVars, version, rs, evictions>>,
         pc \in {"tick", "poll", "list"},
         Workload \notin unsure' =>
           /\ Workload \in StatefulSets => Settled(Workload, version)
           /\ Workload \in Deployments /\ evictions = 0 =>
                Settled(Workload, version) /\ Manned(Workload, version)
  PROVE  RolloutInv'
<1>1. /\ pc' \in {"apply", "idle"}
      /\ pc' = "apply" => at' = at + 1
      /\ pc' = "idle" => at' = at /\ at = Len(Order)
  BY Onward DEF RolloutInv
<1>2. /\ at \in Positions /\ Len(Order) \in Nat /\ at \in Nat
      /\ \A i \in Positions : i \in Nat /\ i <= Len(Order)
      /\ version' = version /\ version \in Nat
  BY AtWorkload DEF RolloutInv, Positions
<1>3. \A i \in Positions : Passed(i)' <=> Passed(i) \/ i = at
  <2> SUFFICES ASSUME NEW i \in Positions
               PROVE  Passed(i)' <=> Passed(i) \/ i = at
    OBVIOUS
  <2>1. CASE pc' = "apply"
    BY <1>1, <1>2, <2>1 DEF Passed
  <2>2. CASE pc' = "idle"
    BY <1>1, <1>2, <2>2 DEF Passed
  <2> QED
    BY <1>1, <2>1, <2>2
<1>4. TemplateInv'
  <2> SUFFICES ASSUME NEW i \in Positions
               PROVE  template'[Order[i]] =
                        IF Passed(i)' \/ (at' = i /\ pc' # "apply")
                        THEN version' ELSE version' - 1
    BY DEF TemplateInv
  <2>1. at' = i /\ pc' # "apply" => Passed(i)'
    BY <1>1 DEF Passed
  <2>2. template' = template
    BY DEF hostVars
  <2>3. template[Order[i]] =
          IF Passed(i) \/ i = at THEN version ELSE version - 1
    BY DEF RolloutInv, TemplateInv
  <2> QED
    BY <1>2, <1>3, <2>1, <2>2, <2>3
<1>5. WaitInv'
  BY <1>1 DEF WaitInv
<1>6. SoundInv'
  BY UpgradeFrame DEF RolloutInv, hostVars
<1>7. SuccessInv'
  <2> SUFFICES ASSUME NEW i \in Positions, Order[i] \notin unsure'
               PROVE  Succeeded(i)'
    BY DEF SuccessInv
  <2>1. Succeeded(i) /\ evictions' = evictions
    BY DEF RolloutInv, SuccessInv
  <2>2. CASE i = at
    <3>1. Floor(i)' = version /\ Order[i] = Workload
      BY <1>2, <1>3, <2>2 DEF Floor, Workload
    <3> QED
      BY <2>1, <3>1 DEF Succeeded, Settled, Manned, hostVars
  <2>3. CASE i # at
    <3>1. Floor(i)' = Floor(i)
      BY <1>2, <1>3, <2>3 DEF Floor
    <3> QED
      BY <2>1, <3>1 DEF Succeeded, Settled, Manned, hostVars
  <2> QED
    BY <2>2, <2>3
<1> QED
  BY <1>4, <1>5, <1>6, <1>7 DEF RolloutInv

\* A StatefulSet whose Pods are all there is passed; one with a Pod that is
\* leaving is looked at again.
LEMMA ListStatefulSetPodsKeeps ==
  ASSUME RolloutInv, ListStatefulSetPods
  PROVE  RolloutInv'
<1>1. UNCHANGED <<hostVars, version, rs, evictions, unsure>> /\ pc = "list"
  BY DEF ListStatefulSetPods
<1>2. TypeOK'
  BY UpgradeType DEF RolloutInv, Upgrade
<1>3. CASE pc' = "tick" /\ at' = at
  <2>1. WaitInv'
    BY <1>3 DEF WaitInv
  <2> QED
    BY <1>1, <1>2, <1>3, <2>1, WaitStays
<1>4. CASE NextWorkload
  <2>1. Workload \in StatefulSets /\ Settled(Workload, version)
    BY <1>1 DEF RolloutInv, WaitInv
  <2> QED
    BY <1>1, <1>2, <1>4, <2>1, WaitEnds DEF Deployments
<1> QED
  BY <1>3, <1>4 DEF ListStatefulSetPods

\* A Deployment with one Pod, of the new ReplicaSet, is settled.
LEMMA PollDeploymentPodsKeeps ==
  ASSUME RolloutInv, PollDeploymentPods
  PROVE  RolloutInv'
<1>1. /\ UNCHANGED <<hostVars, version, rs, evictions, unsure>>
      /\ pc = "poll" /\ OnlyPodOf(Workload, rs) /\ NextWorkload
  BY DEF PollDeploymentPods
<1>2. TypeOK'
  BY UpgradeType DEF RolloutInv, Upgrade
<1>3. Workload \in Deployments /\ Workload = Order[at] /\ at \in Positions
  BY <1>1, AtWorkload DEF RolloutInv, WaitInv
<1>4. ASSUME Workload \notin unsure, evictions = 0
      PROVE  Settled(Workload, version) /\ Manned(Workload, version)
  <2>1. rs = version /\ observed[Workload] = version
    BY <1>1, <1>4 DEF RolloutInv, WaitInv
  <2>2. Floor(at) = version - 1
    BY <1>1, WaitedTemplate DEF Floor
  <2>3. Settled(Workload, version - 1) /\ Manned(Workload, version - 1)
    BY <1>3, <1>4, <2>2 DEF RolloutInv, SuccessInv, Succeeded
  <2>4. DeploymentSound(Workload)
    BY <1>3 DEF RolloutInv, SoundInv, Sound, Deployments
  <2> QED
    BY <1>1, <1>3, <1>4, <2>1, <2>3, <2>4, PollSucceeds DEF RolloutInv
<1> QED
  BY <1>1, <1>2, <1>3, <1>4, WaitEnds DEF Deployments

\* A wait that gives up says nothing of its workload.
LEMMA WaitGivesUpKeeps ==
  ASSUME RolloutInv, WaitGivesUp
  PROVE  RolloutInv'
<1>1. TypeOK'
  BY UpgradeType DEF RolloutInv, Upgrade
<1> QED
  BY <1>1, WaitEnds DEF WaitGivesUp

\* Every step keeps the invariant.
LEMMA RolloutStep == RolloutInv /\ [Next]_vars => RolloutInv'
<1> SUFFICES ASSUME RolloutInv, [Next]_vars
             PROVE  RolloutInv'
  OBVIOUS
<1>1. CASE Host
  BY <1>1, HostKeeps DEF Host, HostStep
<1>2. CASE Upgrade
  BY <1>2, ClusterUpgradeKeeps, ApplyKeeps, GetStatefulSetKeeps,
     ListStatefulSetPodsKeeps, GetLatestReplicaSetKeeps,
     PollDeploymentPodsKeeps, WaitGivesUpKeeps
     DEF Upgrade
<1>3. CASE UNCHANGED vars
  <2>1. TypeOK'
    BY <1>3, RolloutTypeStep DEF RolloutInv
  <2>2. UNCHANGED <<template, observed, want, pods, status, version, at, pc, rs,
                    evictions, unsure>>
    BY <1>3 DEF vars
  <2>3. TemplateInv' /\ WaitInv'
    BY <2>2 DEF RolloutInv, TemplateInv, WaitInv, Passed, Settled, Workload
  <2>4. SoundInv'
    BY <2>2, UpgradeFrame DEF RolloutInv
  <2>5. SuccessInv'
    BY <2>2, SuccessKept DEF RolloutInv, Floor, Passed
  <2> QED
    BY <2>1, <2>3, <2>4, <2>5 DEF RolloutInv
<1> QED
  BY <1>1, <1>2, <1>3 DEF Next

\* A cluster that runs version 1 has one Pod of each workload, and it is ready.
LEMMA RolloutStart == Init => RolloutInv
<1> SUFFICES ASSUME Init
             PROVE  RolloutInv
  OBVIOUS
<1>1. TypeOK
  BY RolloutInitial
<1>2. /\ 1 \in Versions /\ \A v \in Versions : v \in Nat /\ v >= 1
      /\ \A i \in Positions : Order[i] \in Workloads
  BY RolloutBounds, OrderFacts DEF Versions, Positions
<1>3. \A i \in Positions : Passed(i) /\ Floor(i) = 1
  BY DEF Init, Passed, Floor
<1>4. ASSUME NEW c \in Workloads
      PROVE  /\ template[c] = 1 /\ observed[c] = 1
             /\ \A p \in Kinds :
                  pods[c][p] = IF p = <<1, "ready">> THEN 1 ELSE 0
             /\ c \in Deployments => \A v \in Versions :
                  want[c][v] = IF v = 1 THEN 1 ELSE 0
             /\ c \in StatefulSets => status[c].generation = 1
  BY <1>4 DEF Init
<1>5. ASSUME NEW c \in Workloads
      PROVE  /\ Settled(c, 1)
             /\ \A p \in Kinds : pods[c][p] > 0 => p = <<1, "ready">>
  <2>1. \A p \in Kinds : pods[c][p] > 0 => p = <<1, "ready">>
    BY <1>4
  <2>2. <<1, "ready">>[1] = 1
    OBVIOUS
  <2>3. observed[c] >= 1
    BY <1>4
  <2>4. \A p \in Kinds : pods[c][p] > 0 => p[1] >= 1
    BY <2>1, <2>2
  <2>5. c \in Deployments => \A v \in Versions : want[c][v] = 1 => v >= 1
    BY <1>2
  <2> QED
    BY <2>1, <2>3, <2>4, <2>5 DEF Settled
<1>6. <<1, "ready">> \in Kinds
  BY <1>2 DEF Kinds, PodStates
<1>7. ASSUME NEW d \in Deployments
      PROVE  Manned(d, 1)
  <2>1. d \in Workloads
    BY DEF Deployments
  <2>2. pods[d][<<1, "ready">>] > 0
    BY <1>4, <1>6, <2>1
  <2>3. \A v \in Versions : want[d][v] = 1 => v = 1
    BY <1>4, <2>1
  <2>4. want[d][1] = 1
    BY <1>2, <1>4, <2>1
  <2> QED
    BY <2>2, <2>3, <2>4 DEF Manned
<1>8. SoundInv
  <2> SUFFICES ASSUME NEW c \in Workloads
               PROVE  Sound(c)
    BY DEF SoundInv
  <2>1. <<1, "ready">>[1] = 1
    OBVIOUS
  <2>2. InStep(c)
    BY <1>4, <1>5, <2>1 DEF InStep
  <2>3. c \in StatefulSets => SetSound(c)
    BY <1>4, <1>5, <1>6 DEF SetSound
  <2>4. ASSUME c \in Deployments
        PROVE  DeploymentSound(c)
    <3>1. \A v \in Versions : want[c][v] = 1 => v = 1
      BY <1>4, <2>4
    <3>2. want[c][observed[c]] # 0
      BY <1>2, <1>4, <2>4
    <3>3. \A v \in Versions : pods[c][<<v, "leaving">>] = 0
      <4>1. \A v \in Versions : <<v, "leaving">> \in Kinds
        BY DEF Kinds, PodStates
      <4> QED
        BY <1>4, <4>1
    <3> QED
      BY <1>4, <3>1, <3>2, <3>3 DEF DeploymentSound
  <2> QED
    BY <2>2, <2>3, <2>4 DEF Sound
<1>9. TemplateInv /\ WaitInv
  BY <1>2, <1>3, <1>4 DEF Init, TemplateInv, WaitInv
<1>10. SuccessInv
  BY <1>2, <1>3, <1>5, <1>7 DEF SuccessInv, Succeeded
<1> QED
  BY <1>1, <1>8, <1>9, <1>10 DEF RolloutInv

\* The invariant the theorems below rest on.
LEMMA RolloutIsSound == Spec => []RolloutInv
  BY RolloutStart, RolloutStep, PTL DEF Spec

-----------------------------------------------------------------------------
(* What the waits are worth.                                               *)

\* A Pod of a workload: its kind is counted.
LEMMA RunningPod ==
  ASSUME NEW c, NEW v \in RunningVersions(c)
  PROVE  \E p \in Kinds : p[1] = v /\ pods[c][p] > 0 /\ v \in Versions
<1>1. v \in Versions /\ \E p \in {v} \X PodStates : pods[c][p] > 0
  BY DEF RunningVersions, Has
<1> QED
  BY <1>1 DEF Kinds

(***************************************************************************)
(* A wait for a StatefulSet that ends well is right, however old the       *)
(* status it read (isStatefulSetFullyUpdated of pkg/control/custom.go):    *)
(* no Pod of an older version is left, for any number of workloads,        *)
(* versions and evictions.                                                 *)
(***************************************************************************)
THEOREM StatefulSetWaitsAreRight == Spec => []StatefulSetSuccessIsTrue
<1>1. RolloutInv => StatefulSetSuccessIsTrue
  <2> SUFFICES ASSUME RolloutInv, NEW i \in Positions,
                      Order[i] \in StatefulSets \ unsure, Passed(i),
                      NEW v \in RunningVersions(Order[i])
               PROVE  v >= template[Order[i]]
    BY DEF StatefulSetSuccessIsTrue, Positions, Passed
  <2>1. template[Order[i]] = version
    BY DEF RolloutInv, TemplateInv
  <2>2. Settled(Order[i], version)
    BY DEF RolloutInv, SuccessInv, Succeeded, Floor
  <2> QED
    BY <2>1, <2>2, RunningPod DEF Settled
<1> QED
  BY <1>1, RolloutIsSound, PTL

(***************************************************************************)
(* The order of an upgrade (UpgradeCluster of controllers/cluster.go): no  *)
(* Pod is ahead of a Pod of a workload that is upgraded before its own, as *)
(* long as no wait for the latter failed or went by the ReplicaSet of the  *)
(* old template, and no Pod was evicted; for any number of workloads,      *)
(* versions and upgrades.                                                  *)
(***************************************************************************)
THEOREM UpgradesGoInOrder == Spec => []NoPodAheadOfItsServer
<1>1. RolloutInv => NoPodAheadOfItsServer
  <2> SUFFICES ASSUME RolloutInv, evictions = 0,
                      NEW i \in Positions, NEW j \in Positions, i < j,
                      Order[i] \notin unsure,
                      NEW v \in RunningVersions(Order[j]),
                      NEW w \in RunningVersions(Order[i])
               PROVE  v <= w
    BY DEF NoPodAheadOfItsServer, Positions
  <2>1. /\ Order[i] \in Workloads /\ Order[j] \in Workloads
        /\ i \in Nat /\ j \in Nat /\ at \in Nat /\ version \in Nat
    BY AtWorkload DEF RolloutInv
  <2>2. v \in Nat /\ w \in Nat
    BY RunningPod DEF Versions
  <2>3. v <= template[Order[j]]
    <3>1. v <= observed[Order[j]] /\ observed[Order[j]] <= template[Order[j]]
      BY <2>1, RunningPod DEF RolloutInv, SoundInv, Sound, InStep
    <3>2. observed[Order[j]] \in Nat /\ template[Order[j]] \in Nat
      BY <2>1 DEF RolloutInv, TypeOK, Versions
    <3> QED
      BY <2>2, <3>1, <3>2
  <2>4. w >= Floor(i)
    <3>1. Settled(Order[i], Floor(i))
      BY <2>1 DEF RolloutInv, SuccessInv, Succeeded, Deployments
    <3> QED
      BY <3>1, RunningPod DEF Settled
  <2>5. template[Order[j]] <= Floor(i)
    <3>1. CASE Passed(i)
      BY <2>1, <3>1 DEF RolloutInv, TemplateInv, Floor
    <3>2. CASE ~Passed(i)
      <4>1. ~Passed(j) /\ at # j
        BY <2>1, <3>2 DEF Passed
      <4> QED
        BY <2>1, <3>2, <4>1 DEF RolloutInv, TemplateInv, Floor
    <3> QED
      BY <3>1, <3>2
  <2>6. template[Order[j]] \in Nat /\ Floor(i) \in Nat
    BY <2>1, AtWorkload DEF RolloutInv, TypeOK, Versions, Floor
  <2> QED
    BY <2>2, <2>3, <2>4, <2>5, <2>6
<1> QED
  BY <1>1, RolloutIsSound, PTL

=============================================================================
