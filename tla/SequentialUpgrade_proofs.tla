----------------------- MODULE SequentialUpgrade_proofs -----------------------
(***************************************************************************)
(* ClusterUpgrade implements SequentialUpgrade, for all constants under    *)
(* which operators wait for one upgrade to end before the next.            *)
(***************************************************************************)
EXTENDS ClusterUpgrade_proofs

SequentialVars == <<label, image, Stage>>

SequentialStep == Sequential!Next \/ UNCHANGED SequentialVars

-----------------------------------------------------------------------------
(* The stage is that of the one goroutine at work, before and after it     *)
(* moves.                                                                  *)

LEMMA RestingStage ==
  ASSUME NEW step \in Resting PROVE StageOf(step) = 0
BY DEF Resting, StageOf

LEMMA StageOfMover ==
  ASSUME TypeOK, NEW u \in Upgrades,
         \A w \in Upgrades \ {u} : pc[w] \in Resting,
         NEW x, pc' = [pc EXCEPT ![u] = x]
  PROVE  Stage = StageOf(pc[u]) /\ Stage' = StageOf(x)
<1>1. \A w \in Upgrades \ {u} : StageOf(pc[w]) = 0
  BY RestingStage
<1>2. pc'[u] = x /\ \A w \in Upgrades \ {u} : pc'[w] = pc[w]
  BY DEF TypeOK
<1>3. Stage = StageOf(pc[u])
  <2>1. CASE StageOf(pc[u]) = 0
    <3>1. \A w \in Upgrades : StageOf(pc[w]) = 0
      BY <1>1, <2>1
    <3> QED
      BY <2>1, <3>1 DEF Stage
  <2>2. CASE StageOf(pc[u]) # 0
    <3>1. (CHOOSE w \in Upgrades : StageOf(pc[w]) # 0) = u
      BY <1>1, <2>2
    <3> QED
      BY <2>2, <3>1 DEF Stage
  <2> QED
    BY <2>1, <2>2
<1>4. \A w \in Upgrades \ {u} : StageOf(pc'[w]) = 0
  BY <1>1, <1>2
<1>5. Stage' = StageOf(pc'[u])
  <2>1. CASE StageOf(pc'[u]) = 0
    <3>1. \A w \in Upgrades : StageOf(pc'[w]) = 0
      BY <1>4, <2>1
    <3> QED
      BY <2>1, <3>1 DEF Stage
  <2>2. CASE StageOf(pc'[u]) # 0
    <3>1. (CHOOSE w \in Upgrades : StageOf(pc'[w]) # 0) = u
      BY <1>4, <2>2
    <3> QED
      BY <2>2, <3>1 DEF Stage
  <2> QED
    BY <2>1, <2>2
<1> QED
  BY <1>2, <1>3, <1>5

LEMMA StageAtRest ==
  ASSUME \A u \in Upgrades : pc'[u] \in Resting
  PROVE  Stage' = 0
<1>1. \A u \in Upgrades : StageOf(pc'[u]) = 0
  BY RestingStage
<1> QED
  BY <1>1 DEF Stage

-----------------------------------------------------------------------------
(* One lemma per kind of step.                                             *)

\* A goroutine that moves within its stage.
LEMMA MoveStutters ==
  ASSUME TypeOK, LabelInv, NEW u \in Upgrades, pc[u] \in Working,
         NEW x, pc' = [pc EXCEPT ![u] = x],
         StageOf(x) = StageOf(pc[u]),
         UNCHANGED <<label, image>>
  PROVE  UNCHANGED SequentialVars
<1>1. \A w \in Upgrades \ {u} : pc[w] \in Resting
  BY OthersRest
<1>2. Stage = StageOf(pc[u]) /\ Stage' = StageOf(x)
  BY <1>1, StageOfMover
<1> QED
  BY <1>2 DEF SequentialVars

\* An accepted apply is a roll of the workload whose turn it is.
LEMMA ApplyRolls ==
  ASSUME TypeOK, LabelInv, NEW u \in Upgrades, NEW c \in Component,
         NEW next, pc[u] \in Marked,
         Apply(u, c, TagOf(u, c), next),
         StageOf(pc[u]) \in 1..4,
         Sequential!Order[StageOf(pc[u])] = c,
         StageOf(next) = StageOf(pc[u]) + 1
  PROVE  SequentialStep
<1> DEFINE tag == TagOf(u, c)
<1>1. pc[u] \in Working
  BY DEF Marked, Working
<1>2. Stage = StageOf(pc[u]) /\ Stage' = StageOf(pc[u]) + 1
  BY <1>1, OthersRest, StageOfMover DEF Apply, Goto
<1>3. /\ row[u] \in {target[u], NoVersion}
      /\ \E s \in Seq(Versions) \ {<< >>} : label = Append(s, target[u])
  BY DEF LabelInv, GoroutineInv, Marked
<1>4. label[Len(label)] = target[u]
  BY <1>3
<1>5. /\ tag \in {label[Len(label)], NoVersion}
      /\ tag \in Versions \cup {NoVersion}
  BY <1>3, <1>4 DEF TagOf, TypeOK
<1>6. label' = label /\ image' = [image EXCEPT ![c] = tag]
  BY DEF Apply, ServerSideApply, nsVars
<1>7. Len(Sequential!Order) = 4
  BY DEF Sequential!Order
<1>8. Sequential!Roll(tag)
  BY <1>2, <1>5, <1>6, <1>7 DEF Sequential!Roll, Sequential!Latest
<1> QED
  BY <1>5, <1>8 DEF SequentialStep, Sequential!Next

LEMMA MarkBegins ==
  ASSUME TypeOK, LabelInv, NEW u \in Upgrades, MarkLabels(u)
  PROVE  SequentialStep
<1>1. /\ pc[u] = "mark" /\ pc[u] \in Working
      /\ pc' = [pc EXCEPT ![u] = "apply-etcd"]
      /\ label' = Append(seen[u].kubernetes, target[u])
      /\ image' = image
  BY DEF MarkLabels, Goto, Working, workloadVars
<1>2. seen[u].kubernetes = label /\ target[u] \in Versions
  BY <1>1 DEF LabelInv, GoroutineInv, TypeOK
<1>3. Stage = StageOf("mark") /\ Stage' = StageOf("apply-etcd")
  BY <1>1, OthersRest, StageOfMover
<1>4. Stage = 0 /\ Stage' = 1
  BY <1>3 DEF StageOf
<1>5. Sequential!Begin(target[u])
  BY <1>1, <1>2, <1>4 DEF Sequential!Begin, Sequential!Rest
<1> QED
  BY <1>2, <1>5 DEF SequentialStep, Sequential!Next

LEMMA FinishCompletes ==
  ASSUME TypeOK, LabelInv, NEW u \in Upgrades, FinishLabel(u)
  PROVE  SequentialStep
<1>1. /\ pc[u] = "finish" /\ pc[u] \in Working /\ pc[u] \in Marked
      /\ pc' = [pc EXCEPT ![u] = "done"]
      /\ label' = <<target[u]>>
      /\ image' = image
  BY DEF FinishLabel, Goto, Working, Marked, workloadVars
<1>2. \E s \in Seq(Versions) \ {<< >>} : label = Append(s, target[u])
  BY <1>1 DEF LabelInv, GoroutineInv
<1>3. label[Len(label)] = target[u]
  BY <1>2
<1>4. Stage = StageOf("finish") /\ Stage' = StageOf("done")
  BY <1>1, OthersRest, StageOfMover
<1>5. Stage = 5 /\ Stage' = 0
  BY <1>4 DEF StageOf
<1>6. Len(Sequential!Order) = 4
  BY DEF Sequential!Order
<1>7. Sequential!Complete
  BY <1>1, <1>3, <1>5, <1>6
     DEF Sequential!Complete, Sequential!Latest, Sequential!AllRolled,
         Sequential!Rest
<1> QED
  BY <1>7 DEF SequentialStep, Sequential!Next

\* Everything at work is lost, or one goroutine returns: given up, unless
\* nothing was under way.
LEMMA RestGivesUp ==
  ASSUME Stage' = 0, UNCHANGED <<label, image>>
  PROVE  SequentialStep
<1>1. CASE Stage = 0
  BY <1>1 DEF SequentialStep, SequentialVars
<1>2. CASE Stage # 0
  <2>1. Sequential!GiveUp
    BY <1>2 DEF Sequential!GiveUp, Sequential!Rest
  <2> QED
    BY <2>1 DEF SequentialStep, Sequential!Next
<1> QED
  BY <1>1, <1>2

-----------------------------------------------------------------------------

LEMMA StepImplements ==
  ASSUME TypeOK, LabelInv, Serial, [Next]_vars
  PROVE  SequentialStep
<1>1. ASSUME NEW u \in Upgrades, NEW v \in Versions,
             NEW n \in NetworkVersions \cup {NoUpgrade},
             ClusterUpgrade(u, v, n)
      PROVE  SequentialStep
  <2>1. /\ \A w \in Upgrades : pc[w] \in Resting
        /\ pc[u] = "idle"
        /\ pc' = [pc EXCEPT ![u] = "get"]
        /\ UNCHANGED <<label, image>>
    BY <1>1 DEF ClusterUpgrade, Goto, nsVars, workloadVars
  <2>2. Stage = StageOf("idle") /\ Stage' = StageOf("get")
    BY <2>1, StageOfMover
  <2> QED
    BY <2>1, <2>2 DEF StageOf, SequentialStep, SequentialVars
<1>2. ASSUME UNCHANGED <<label, image, pc>> PROVE SequentialStep
  BY <1>2 DEF Stage, SequentialStep, SequentialVars
<1>3. ASSUME NEW u \in Upgrades, GetNamespace(u) PROVE SequentialStep
  <2> DEFINE x == IF label = <<target[u]>> THEN "done" ELSE "select"
  <2>1. /\ pc[u] = "get" /\ pc[u] \in Working
        /\ pc' = [pc EXCEPT ![u] = x]
        /\ UNCHANGED <<label, image>>
    BY <1>3 DEF GetNamespace, Goto, Working, nsVars, workloadVars
  <2>2. StageOf(x) = StageOf(pc[u])
    BY <2>1 DEF StageOf
  <2> QED
    BY <2>1, <2>2, MoveStutters DEF SequentialStep
<1>4. ASSUME NEW u \in Upgrades, SelectVersion(u) PROVE SequentialStep
  <2>1. /\ pc[u] = "select" /\ pc[u] \in Working
        /\ pc' = [pc EXCEPT ![u] = "mark"]
        /\ UNCHANGED <<label, image>>
    BY <1>4 DEF SelectVersion, Goto, Working, nsVars, workloadVars
  <2>2. StageOf("mark") = StageOf(pc[u])
    BY <2>1 DEF StageOf
  <2> QED
    BY <2>1, <2>2, MoveStutters DEF SequentialStep
<1>5. ASSUME NEW u \in Upgrades, ApplyEtcd(u) PROVE SequentialStep
  <2>1. /\ pc[u] = "apply-etcd" /\ pc[u] \in Marked
        /\ Apply(u, "etcd", TagOf(u, "etcd"), "wait-etcd")
    BY <1>5 DEF ApplyEtcd, TagOf, Marked
  <2>2. StageOf("apply-etcd") = 1 /\ StageOf("wait-etcd") = 2
    BY DEF StageOf
  <2>3. Sequential!Order[1] = "etcd"
    BY DEF Sequential!Order
  <2> QED
    BY <2>1, <2>2, <2>3, ApplyRolls DEF Component
<1>6. ASSUME NEW u \in Upgrades, ApplyApiserver(u) PROVE SequentialStep
  <2> DEFINE c == "kube-apiserver"
  <2>1. /\ pc[u] = "apply-apiserver" /\ pc[u] \in Marked
        /\ Apply(u, c, TagOf(u, c), "wait-apiserver")
    BY <1>6 DEF ApplyApiserver, TagOf, Marked
  <2>2. StageOf("apply-apiserver") = 2 /\ StageOf("wait-apiserver") = 3
    BY DEF StageOf
  <2>3. Sequential!Order[2] = c
    BY DEF Sequential!Order
  <2> QED
    BY <2>1, <2>2, <2>3, ApplyRolls DEF Component
<1>7. ASSUME NEW u \in Upgrades, ApplyControllerManager(u) PROVE SequentialStep
  <2> DEFINE c == "kube-controller-manager"
  <2>1. /\ pc[u] = "apply-kcm" /\ pc[u] \in Marked
        /\ Apply(u, c, TagOf(u, c), "wait-kcm")
    BY <1>7 DEF ApplyControllerManager, TagOf, Marked
  <2>2. StageOf("apply-kcm") = 3 /\ StageOf("wait-kcm") = 4
    BY DEF StageOf
  <2>3. Sequential!Order[3] = c
    BY DEF Sequential!Order
  <2> QED
    BY <2>1, <2>2, <2>3, ApplyRolls DEF Component
<1>8. ASSUME NEW u \in Upgrades, ApplyScheduler(u) PROVE SequentialStep
  <2> DEFINE c == "kube-scheduler"
  <2>1. /\ pc[u] = "apply-scheduler" /\ pc[u] \in Marked
        /\ Apply(u, c, TagOf(u, c), "wait-scheduler")
    BY <1>8 DEF ApplyScheduler, TagOf, Marked
  <2>2. StageOf("apply-scheduler") = 4 /\ StageOf("wait-scheduler") = 5
    BY DEF StageOf
  <2>3. Sequential!Order[4] = c
    BY DEF Sequential!Order
  <2> QED
    BY <2>1, <2>2, <2>3, ApplyRolls DEF Component
<1>9. ASSUME NEW u \in Upgrades, WaitEnds(u) PROVE SequentialStep
  <2>1. /\ pc[u] \in {"wait-etcd", "wait-apiserver", "wait-kcm",
                      "wait-scheduler"}
        /\ pc[u] \in Working
        /\ pc' = [pc EXCEPT ![u] = AfterWait(pc[u])]
        /\ UNCHANGED <<label, image>>
    BY <1>9 DEF WaitEnds, Goto, Working, nsVars, workloadVars
  <2>2. StageOf(AfterWait(pc[u])) = StageOf(pc[u])
    BY <2>1 DEF StageOf, AfterWait
  <2> QED
    BY <2>1, <2>2, MoveStutters DEF SequentialStep
<1>10. ASSUME NEW u \in Upgrades, NEW installed \in SUBSET Addons,
              NEW ok \in BOOLEAN, InstallCharts(u, installed, ok)
       PROVE  SequentialStep
  <2>1. /\ pc[u] = "charts" /\ pc[u] \in Working
        /\ pc' = [pc EXCEPT ![u] = "finish"]
        /\ UNCHANGED <<label, image>>
    BY <1>10 DEF InstallCharts, Goto, Working, nsVars, workloadVars
  <2>2. StageOf("finish") = StageOf(pc[u])
    BY <2>1 DEF StageOf
  <2> QED
    BY <2>1, <2>2, MoveStutters DEF SequentialStep
<1>11. ASSUME NEW u \in Upgrades, FinishRefused(u) PROVE SequentialStep
  <2>1. /\ pc[u] \in Working
        /\ pc' = [pc EXCEPT ![u] = "done"]
        /\ UNCHANGED <<label, image>>
    BY <1>11 DEF FinishRefused, Goto, Working, nsVars, workloadVars
  <2>2. Stage' = StageOf("done")
    BY <2>1, OthersRest, StageOfMover
  <2> QED
    BY <2>1, <2>2, RestGivesUp DEF StageOf
<1>12. ASSUME ProcessDies PROVE SequentialStep
  <2>1. UNCHANGED <<label, image>>
    BY <1>12 DEF ProcessDies, nsVars, workloadVars
  <2>2. \A u \in Upgrades : pc'[u] \in Resting
    BY <1>12 DEF ProcessDies, Resting
  <2> QED
    BY <2>1, <2>2, StageAtRest, RestGivesUp
<1>13. ASSUME \/ Restart
              \/ \E v \in Versions : DeleteVersion(v) \/ CreateVersion(v)
              \/ \E h \in HARequests : ClusterEnableHA(h) \/ PatchReplicas(h)
                                       \/ PatchFails(h)
              \/ UNCHANGED vars
       PROVE  SequentialStep
  <2>1. UNCHANGED <<label, image, pc>>
    BY <1>13 DEF Restart, DeleteVersion, CreateVersion, ClusterEnableHA,
                 PatchReplicas, PatchFails, MergePatch, vars, nsVars,
                 workloadVars, localVars
  <2> QED
    BY <1>2, <2>1
<1> QED
  BY <1>1, <1>3, <1>4, <1>5, <1>6, <1>7, <1>8, <1>9, <1>10, <1>11, <1>12,
     <1>13, StepCases, MarkBegins, FinishCompletes

(***************************************************************************)
(* ImplementsSequential, for any number of requests, failing calls, kills  *)
(* and HA requests.                                                        *)
(***************************************************************************)
THEOREM UpgradesAreSequential ==
  ASSUME Serial PROVE Spec => ImplementsSequential
<1>1. Init => Sequential!Init
  <2> SUFFICES ASSUME Init PROVE Sequential!Init
    OBVIOUS
  <2>1. Stage = 0
    BY DEF Init, Stage, StageOf
  <2>2. {Sequential!Order[k] : k \in 1..Len(Sequential!Order)} = Component
    <3>1. Len(Sequential!Order) = 4 /\ 1..4 = {1, 2, 3, 4}
      BY DEF Sequential!Order
    <3>2. /\ Sequential!Order[1] = "etcd"
          /\ Sequential!Order[2] = "kube-apiserver"
          /\ Sequential!Order[3] = "kube-controller-manager"
          /\ Sequential!Order[4] = "kube-scheduler"
      BY DEF Sequential!Order
    <3> QED
      BY <3>1, <3>2 DEF Component
  <2> QED
    BY <2>1, <2>2 DEF Init, Sequential!Init, Sequential!Rest
<1>2. TypeOK /\ SerialLabelInv /\ [Next]_vars =>
        [Sequential!Next]_(Sequential!vars)
  BY StepImplements
     DEF SerialLabelInv, SequentialStep, SequentialVars, Sequential!vars
<1> QED
  BY <1>1, <1>2, TypeCorrect, LabelInvariant, PTL
     DEF Spec, ImplementsSequential, Sequential!Spec

=============================================================================
