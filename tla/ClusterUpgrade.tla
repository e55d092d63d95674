--------------------------- MODULE ClusterUpgrade ---------------------------
(***************************************************************************)
(* The upgrade of one managed control plane (controllers/cluster.go,       *)
(* UpgradeCluster) together with everything that shares its state: the     *)
(* ClusterEnableHA handler, the version table, and the kok process, whose  *)
(* death loses every goroutine.                                            *)
(*                                                                         *)
(* A managed cluster is a namespace of the host cluster.  Its record is    *)
(* the namespace's labels; its components are one StatefulSet and three    *)
(* Deployments.  UpgradeCluster runs in a goroutine of its own, started by *)
(* ClusterUpgrade without any check for a goroutine already at work.  It   *)
(* marks the label ("old-new"), applies the four workloads one after the   *)
(* other, upgrades the add-on charts and writes the plain label back.      *)
(*                                                                         *)
(* A version is a number, ordered as the releases are.  The label value    *)
(* "a-b-c" is the sequence <<a, b, c>>; everything a row of the version    *)
(* table provides (etcd tag, CoreDNS, pause, ...) is named by the version  *)
(* of that row.                                                            *)
(***************************************************************************)
EXTENDS Naturals, Sequences, FiniteSets

CONSTANTS
  Versions,       \* Kubernetes versions an upgrade may ask for
  FirstVersion,   \* the version the cluster was created with
  NetworkVersions,\* versions of the network plugin's chart
  FirstNetwork,   \* the network chart version the cluster was created with
  Addons,         \* charts whose version comes from the version row
  Upgrades,       \* upgrade requests: each is one goroutine, used once
  HARequests,     \* "enable HA" requests: each is one handler, used once
  Serial,         \* do operators wait for an upgrade to end before the next?
  ApiErrors,      \* can a call of an upgrade to the host or to Helm fail?
  Deletable,      \* rows of the version table that an operator deletes
  MaxCrashes,     \* bound: how often the process dies without a panic
  MaxLabelParts   \* versions that fit in a label value of 63 characters

NoVersion == 0        \* the empty string of a zero Version struct
NoUpgrade == 0        \* NetworkVersion "None": leave the network chart alone

ASSUME VersionsAssumption ==
  /\ Versions \subseteq Nat \ {NoVersion}
  /\ FirstVersion \in Versions
  /\ Deletable \subseteq Versions
ASSUME NetworkAssumption ==
  /\ NetworkVersions \subseteq Nat \ {NoUpgrade}
  /\ FirstNetwork \in NetworkVersions
ASSUME BoundsAssumption ==
  /\ Serial \in BOOLEAN
  /\ ApiErrors \in BOOLEAN
  /\ MaxCrashes \in Nat
  /\ MaxLabelParts \in Nat \ {0}

Component == {"etcd", "kube-apiserver", "kube-controller-manager",
              "kube-scheduler"}

VARIABLES
  label,         \* namespace label "kubernetes"
  rowLabel,      \* namespace labels copied from one row of the version table
  networkLabel,  \* namespace label "networkVersion"
  image,         \* image tag in the spec of each workload
  replicas,      \* spec.replicas of each workload
  owners,        \* field managers that own spec.replicas of each workload
  chart,         \* version row each add-on chart was last installed from
  networkChart,  \* installed version of the network chart
  rows,          \* rows of the version table
  up,            \* is the kok process running?
  crashes,       \* how often it died without a panic
  pc,            \* next step of each upgrade goroutine
  target,        \* info.Kubernetes of each upgrade
  network,       \* info.NetworkVersion of each upgrade
  seen,          \* labels read by the upgrade's first Get
  row,           \* versionInfo of each upgrade
  haPc           \* next step of each HA handler

nsVars       == <<label, rowLabel, networkLabel>>
workloadVars == <<image, replicas, owners>>
chartVars    == <<chart, networkChart>>
localVars    == <<target, network, seen, row>>
vars == <<label, rowLabel, networkLabel, image, replicas, owners, chart,
          networkChart, rows, up, crashes, pc, target, network, seen, row,
          haPc>>

-----------------------------------------------------------------------------
(* Program points.  A goroutine in Resting runs no code: it was not yet    *)
(* started, has returned, or was lost with the process.                    *)

Resting == {"idle", "done", "lost"}

Working == {"get", "select", "mark",
            "apply-etcd", "wait-etcd",
            "apply-apiserver", "wait-apiserver",
            "apply-kcm", "wait-kcm",
            "apply-scheduler", "wait-scheduler",
            "charts", "finish"}

HAWorking == {"etcd", "kube-apiserver", "kube-controller-manager",
              "kube-scheduler"}

\* Labels as one Get of the namespace returns them.
Snapshot == [kubernetes : Seq(Versions), networkVersion : NetworkVersions]

TypeOK ==
  /\ label \in Seq(Versions) \ {<< >>}
  /\ rowLabel \in Versions \cup {NoVersion}
  /\ networkLabel \in NetworkVersions
  /\ image \in [Component -> Versions \cup {NoVersion}]
  /\ replicas \in [Component -> Nat]
  /\ owners \in [Component -> SUBSET {"kok", "main"}]
  /\ chart \in [Addons -> Versions]
  /\ networkChart \in NetworkVersions
  /\ rows \subseteq Versions
  /\ up \in BOOLEAN
  /\ crashes \in Nat
  /\ pc \in [Upgrades -> Resting \cup Working]
  /\ target \in [Upgrades -> Versions]
  /\ network \in [Upgrades -> NetworkVersions \cup {NoUpgrade}]
  /\ seen \in [Upgrades -> Snapshot]
  /\ row \in [Upgrades -> Versions \cup {NoVersion}]
  /\ haPc \in [HARequests -> Resting \cup HAWorking]

(***************************************************************************)
(* A cluster as ClusterCreate leaves it: plain labels, every workload at   *)
(* one replica and at the version of the labels.                           *)
(***************************************************************************)
Init ==
  /\ label = <<FirstVersion>>
  /\ rowLabel = FirstVersion
  /\ networkLabel = FirstNetwork
  /\ image = [c \in Component |-> FirstVersion]
  /\ replicas = [c \in Component |-> 1]
  /\ owners = [c \in Component |-> {"kok"}]
  /\ chart = [a \in Addons |-> FirstVersion]
  /\ networkChart = FirstNetwork
  /\ rows = Versions
  /\ up = TRUE
  /\ crashes = 0
  /\ pc = [u \in Upgrades |-> "idle"]
  /\ target = [u \in Upgrades |-> FirstVersion]
  /\ network = [u \in Upgrades |-> NoUpgrade]
  /\ seen = [u \in Upgrades |-> [kubernetes |-> <<FirstVersion>>,
                                 networkVersion |-> FirstNetwork]]
  /\ row = [u \in Upgrades |-> FirstVersion]
  /\ haPc = [h \in HARequests |-> "idle"]

-----------------------------------------------------------------------------
(* The host API server, as far as the code can tell.                       *)

\* Faulty variant: Force takes every field over.
ApplyAccepted_Force(c, n) == TRUE

\* Server-side apply by field manager "kok" without Force: refused when
\* another manager owns spec.replicas with a different value.
ApplyAccepted(c, n) == (owners[c] \ {"kok"} # {}) => replicas[c] = n

\* The fields an accepted apply sets; "kok" becomes an owner of them.
ServerSideApply(c, tag, n) ==
  /\ image' = [image EXCEPT ![c] = tag]
  /\ replicas' = [replicas EXCEPT ![c] = n]
  /\ owners' = [owners EXCEPT ![c] = @ \cup {"kok"}]

\* A merge patch by the client's default manager: a field it changes is
\* from then on owned by "main" alone, one it does not change is untouched.
MergePatch(c, n) ==
  /\ replicas' = [replicas EXCEPT ![c] = n]
  /\ owners' = [owners EXCEPT ![c] = IF replicas[c] = n THEN @ ELSE {"main"}]
  /\ UNCHANGED image

\* A label value is limited to 63 characters.
LabelFits(parts) == Len(parts) <= MaxLabelParts

-----------------------------------------------------------------------------
(* The kok process.                                                        *)

Goto(u, step) == pc' = [pc EXCEPT ![u] = step]

\* A panic in a goroutine that no one recovers, or a kill, ends the process
\* and with it every goroutine and every handler.
ProcessDies ==
  /\ up' = FALSE
  /\ pc' = [u \in Upgrades |-> IF pc[u] \in Resting THEN pc[u] ELSE "lost"]
  /\ haPc' = [h \in HARequests |->
                IF haPc[h] \in Resting THEN haPc[h] ELSE "lost"]
  /\ UNCHANGED <<nsVars, workloadVars, chartVars, rows, localVars>>

\* The pod is evicted or killed.
Crash ==
  /\ up
  /\ crashes < MaxCrashes
  /\ crashes' = crashes + 1
  /\ ProcessDies

\* The kubelet starts it again.  ConnectDB seeds an empty version table;
\* nothing looks for upgrades that were cut short.
Restart ==
  /\ ~up
  /\ up' = TRUE
  /\ rows' = IF rows = {} THEN Versions ELSE rows
  /\ UNCHANGED <<nsVars, workloadVars, chartVars, crashes, pc, localVars,
                 haPc>>

-----------------------------------------------------------------------------
(* The version table.                                                      *)

DeleteVersion(v) ==
  /\ up
  /\ v \in rows \cap Deletable
  /\ rows' = rows \ {v}
  /\ UNCHANGED <<nsVars, workloadVars, chartVars, up, crashes, pc, localVars,
                 haPc>>

\* The column is unique: adding a row that is there panics in the handler,
\* which gin recovers, and changes nothing.
CreateVersion(v) ==
  /\ up
  /\ v \in Versions \ rows
  /\ rows' = rows \cup {v}
  /\ UNCHANGED <<nsVars, workloadVars, chartVars, up, crashes, pc, localVars,
                 haPc>>

-----------------------------------------------------------------------------
(* The upgrade.                                                            *)

\* ClusterUpgrade: the handler starts the goroutine and answers at once.
ClusterUpgrade(u, v, n) ==
  /\ up
  /\ pc[u] = "idle"
  /\ Serial => \A w \in Upgrades : pc[w] \in Resting
  /\ target' = [target EXCEPT ![u] = v]
  /\ network' = [network EXCEPT ![u] = n]
  /\ Goto(u, "get")
  /\ UNCHANGED <<nsVars, workloadVars, chartVars, rows, up, crashes, seen, row,
                 haPc>>

\* The goroutine reads the namespace; it has nothing to do when the label is
\* already the requested version.
GetNamespace(u) ==
  /\ pc[u] = "get"
  /\ seen' = [seen EXCEPT ![u] = [kubernetes |-> label,
                                  networkVersion |-> networkLabel]]
  /\ Goto(u, IF label = <<target[u]>> THEN "done" ELSE "select")
  /\ UNCHANGED <<nsVars, workloadVars, chartVars, rows, up, crashes, target,
                 network, row, haPc>>

\* The error of Select is dropped: a row deleted meanwhile is the zero value.
SelectVersion(u) ==
  /\ pc[u] = "select"
  /\ row' = [row EXCEPT ![u] = IF target[u] \in rows THEN target[u]
                               ELSE NoVersion]
  /\ Goto(u, "mark")
  /\ UNCHANGED <<nsVars, workloadVars, chartVars, rows, up, crashes, target,
                 network, seen, haPc>>

\* Faulty variant: the old version is not kept in the label.
MarkLabels_Overwrites(u) ==
  /\ pc[u] = "mark"
  /\ label' = <<target[u]>>
  /\ rowLabel' = row[u]
  /\ networkLabel' = IF network[u] = NoUpgrade THEN seen[u].networkVersion
                     ELSE network[u]
  /\ Goto(u, "apply-etcd")
  /\ UNCHANGED <<workloadVars, chartVars, rows, up, crashes, localVars, haPc>>

\* Faulty variant: to keep the label short, only the first of the old versions
\* stays in it.
MarkLabels_KeepsFirst(u) ==
  /\ pc[u] = "mark"
  /\ label' = <<Head(seen[u].kubernetes), target[u]>>
  /\ rowLabel' = row[u]
  /\ networkLabel' = IF network[u] = NoUpgrade THEN seen[u].networkVersion
                     ELSE network[u]
  /\ Goto(u, "apply-etcd")
  /\ UNCHANGED <<workloadVars, chartVars, rows, up, crashes, localVars, haPc>>

\* Faulty variant: the requested network version is written as it is, also
\* when it says not to upgrade the network.
MarkLabels_WritesNone(u) ==
  /\ pc[u] = "mark"
  /\ LabelFits(Append(seen[u].kubernetes, target[u]))
  /\ label' = Append(seen[u].kubernetes, target[u])
  /\ rowLabel' = row[u]
  /\ networkLabel' = network[u]
  /\ Goto(u, "apply-etcd")
  /\ UNCHANGED <<workloadVars, chartVars, rows, up, crashes, localVars, haPc>>

\* One merge patch writes the marked label and the row's versions.  The
\* values come from what the first Get returned.
MarkLabels(u) ==
  LET marked == Append(seen[u].kubernetes, target[u]) IN
  /\ pc[u] = "mark"
  /\ LabelFits(marked)
  /\ label' = marked
  /\ rowLabel' = row[u]
  /\ networkLabel' = IF network[u] = NoUpgrade THEN seen[u].networkVersion
                     ELSE network[u]
  /\ Goto(u, "apply-etcd")
  /\ UNCHANGED <<workloadVars, chartVars, rows, up, crashes, localVars, haPc>>

\* A refused patch is not noticed, but the namespace object it returns is
\* empty: the apply that follows has no namespace to go to and panics.
MarkRefused(u) ==
  /\ pc[u] = "mark"
  /\ ApiErrors \/ ~LabelFits(Append(seen[u].kubernetes, target[u]))
  /\ ProcessDies
  /\ UNCHANGED crashes

\* An accepted apply of component c; the wait that follows is the next step.
Apply(u, c, tag, next) ==
  /\ ApplyAccepted(c, 1)
  /\ ServerSideApply(c, tag, 1)
  /\ Goto(u, next)
  /\ UNCHANGED <<nsVars, chartVars, rows, up, crashes, localVars, haPc>>

ApplyEtcd(u) ==
  /\ pc[u] = "apply-etcd"
  /\ Apply(u, "etcd", row[u], "wait-etcd")

ApplyApiserver(u) ==
  /\ pc[u] = "apply-apiserver"
  /\ Apply(u, "kube-apiserver", row[u], "wait-apiserver")

ApplyControllerManager(u) ==
  /\ pc[u] = "apply-kcm"
  /\ Apply(u, "kube-controller-manager", target[u], "wait-kcm")

ApplyScheduler(u) ==
  /\ pc[u] = "apply-scheduler"
  /\ Apply(u, "kube-scheduler", target[u], "wait-scheduler")

\* A refused read or apply panics, and a panic in this goroutine is the end of
\* the process.  A field conflict refuses every time, an API error now and then.
Refused(u) ==
  \/ pc[u] = "get" /\ ApiErrors
  \/ pc[u] = "apply-etcd" /\ (ApiErrors \/ ~ApplyAccepted("etcd", 1))
  \/ /\ pc[u] = "apply-apiserver"
     /\ ApiErrors \/ ~ApplyAccepted("kube-apiserver", 1)
  \/ /\ pc[u] = "apply-kcm"
     /\ ApiErrors \/ ~ApplyAccepted("kube-controller-manager", 1)
  \/ /\ pc[u] = "apply-scheduler"
     /\ ApiErrors \/ ~ApplyAccepted("kube-scheduler", 1)

Panic(u) ==
  /\ Refused(u)
  /\ ProcessDies
  /\ UNCHANGED crashes

\* Faulty variant: the scheduler is forgotten.
AfterWait_SkipsScheduler(step) ==
  CASE step = "wait-etcd"      -> "apply-apiserver"
    [] step = "wait-apiserver" -> "apply-kcm"
    [] step = "wait-kcm"       -> "charts"
    [] step = "wait-scheduler" -> "charts"

\* Faulty variant: the controller manager goes first.
AfterWait_SwapsOrder(step) ==
  CASE step = "wait-etcd"      -> "apply-kcm"
    [] step = "wait-kcm"       -> "apply-apiserver"
    [] step = "wait-apiserver" -> "apply-scheduler"
    [] step = "wait-scheduler" -> "charts"

\* Faulty variant: the wait for the apiserver has no timeout.
AfterWait_NoTimeout(step) ==
  CASE step = "wait-etcd"      -> "apply-apiserver"
    [] step = "wait-apiserver" -> "wait-apiserver"
    [] step = "wait-kcm"       -> "apply-scheduler"
    [] step = "wait-scheduler" -> "charts"

\* A wait ends within three minutes and its error is only logged: the
\* goroutine goes on whether or not the rollout is complete.
AfterWait(step) ==
  CASE step = "wait-etcd"      -> "apply-apiserver"
    [] step = "wait-apiserver" -> "apply-kcm"
    [] step = "wait-kcm"       -> "apply-scheduler"
    [] step = "wait-scheduler" -> "charts"

WaitEnds(u) ==
  /\ pc[u] \in {"wait-etcd", "wait-apiserver", "wait-kcm", "wait-scheduler"}
  /\ Goto(u, AfterWait(pc[u]))
  /\ UNCHANGED <<nsVars, workloadVars, chartVars, rows, up, crashes, localVars,
                 haPc>>

\* The charts are installed one by one and no error is looked at: "installed"
\* are those that went through.  A chart is a file named after its version:
\* without a row there is none to install.
InstallCharts(u, installed, networkInstalled) ==
  /\ pc[u] = "charts"
  /\ ~ApiErrors => installed = Addons /\ networkInstalled
  /\ chart' = [a \in Addons |-> IF a \in installed /\ row[u] # NoVersion
                              THEN row[u] ELSE chart[a]]
  /\ networkChart' = IF network[u] # NoUpgrade /\ networkInstalled
                     THEN network[u] ELSE networkChart
  /\ Goto(u, "finish")
  /\ UNCHANGED <<nsVars, workloadVars, rows, up, crashes, localVars, haPc>>

\* Faulty variant: the label is read again and the old version is cut off.
FinishLabel_CutsOld(u) ==
  LET old == Len(seen[u].kubernetes) IN
  /\ pc[u] = "finish"
  /\ label' = IF Len(label) > old THEN SubSeq(label, old + 1, Len(label))
              ELSE label
  /\ Goto(u, "done")
  /\ UNCHANGED <<rowLabel, networkLabel, workloadVars, chartVars, rows, up,
                 crashes, localVars, haPc>>

FinishLabel(u) ==
  /\ pc[u] = "finish"
  /\ label' = <<target[u]>>
  /\ Goto(u, "done")
  /\ UNCHANGED <<rowLabel, networkLabel, workloadVars, chartVars, rows, up,
                 crashes, localVars, haPc>>

\* Faulty variant: an upgrade that cannot write the label removes it.
FinishRefused_Clears(u) ==
  /\ ApiErrors
  /\ pc[u] = "finish"
  /\ label' = << >>
  /\ Goto(u, "done")
  /\ UNCHANGED <<rowLabel, networkLabel, workloadVars, chartVars, rows, up,
                 crashes, localVars, haPc>>

\* The error of the last patch is dropped: the label stays marked.
FinishRefused(u) ==
  /\ ApiErrors
  /\ pc[u] = "finish"
  /\ Goto(u, "done")
  /\ UNCHANGED <<nsVars, workloadVars, chartVars, rows, up, crashes, localVars,
                 haPc>>

UpgradeStep(u) ==
  \/ GetNamespace(u)
  \/ SelectVersion(u)
  \/ MarkLabels(u)
  \/ MarkRefused(u)
  \/ ApplyEtcd(u)
  \/ ApplyApiserver(u)
  \/ ApplyControllerManager(u)
  \/ ApplyScheduler(u)
  \/ Panic(u)
  \/ WaitEnds(u)
  \/ \E installed \in SUBSET Addons, ok \in BOOLEAN :
       InstallCharts(u, installed, ok)
  \/ FinishLabel(u)
  \/ FinishRefused(u)

-----------------------------------------------------------------------------
(* ClusterEnableHA: four patches in a fixed order, stopping at the first   *)
(* error.                                                                  *)

HAReplicas(c) == IF c = "etcd" THEN 3 ELSE 2

\* Faulty variant: the Deployments are enlarged before etcd is.
AfterPatch_SwapsOrder(c) ==
  CASE c = "etcd"                    -> "kube-controller-manager"
    [] c = "kube-controller-manager" -> "kube-apiserver"
    [] c = "kube-apiserver"          -> "kube-scheduler"
    [] c = "kube-scheduler"          -> "done"

AfterPatch(c) ==
  CASE c = "etcd"                    -> "kube-apiserver"
    [] c = "kube-apiserver"          -> "kube-controller-manager"
    [] c = "kube-controller-manager" -> "kube-scheduler"
    [] c = "kube-scheduler"          -> "done"

ClusterEnableHA(h) ==
  /\ up
  /\ haPc[h] = "idle"
  /\ haPc' = [haPc EXCEPT ![h] = "etcd"]
  /\ UNCHANGED <<nsVars, workloadVars, chartVars, rows, up, crashes, pc,
                 localVars>>

PatchReplicas(h) ==
  /\ haPc[h] \in HAWorking
  /\ MergePatch(haPc[h], HAReplicas(haPc[h]))
  /\ haPc' = [haPc EXCEPT ![h] = AfterPatch(haPc[h])]
  /\ UNCHANGED <<nsVars, chartVars, rows, up, crashes, pc, localVars>>

PatchFails(h) ==
  /\ haPc[h] \in HAWorking
  /\ haPc' = [haPc EXCEPT ![h] = "done"]
  /\ UNCHANGED <<nsVars, workloadVars, chartVars, rows, up, crashes, pc,
                 localVars>>

HAStep(h) == PatchReplicas(h) \/ PatchFails(h)

-----------------------------------------------------------------------------

Operator ==
  \/ \E u \in Upgrades, v \in Versions, n \in NetworkVersions \cup {NoUpgrade} :
       ClusterUpgrade(u, v, n)
  \/ \E h \in HARequests : ClusterEnableHA(h)
  \/ \E v \in Versions : DeleteVersion(v) \/ CreateVersion(v)

Next ==
  \/ Operator
  \/ \E u \in Upgrades : UpgradeStep(u)
  \/ \E h \in HARequests : HAStep(h)
  \/ Crash
  \/ Restart

Spec == Init /\ [][Next]_vars

\* The Go scheduler runs every goroutine, each call returns and each wait has
\* a timeout; the kubelet restarts the process.  Operators and crashes owe
\* nothing.
Fairness ==
  /\ \A u \in Upgrades : WF_vars(UpgradeStep(u))
  /\ \A h \in HARequests : WF_vars(HAStep(h))
  /\ WF_vars(Restart)

FairSpec == Spec /\ Fairness

-----------------------------------------------------------------------------
(* Properties.                                                             *)

Parts(s) == {s[i] : i \in 1..Len(s)}

NonDecreasing(s) == \A i, j \in 1..Len(s) : i <= j => s[i] <= s[j]

\* Every upgrade so far found its row in the version table.
RowsFound == \A u \in Upgrades : row[u] # NoVersion

\* No upgrade is at work and none was cut short.
Settled == \A u \in Upgrades : pc[u] \in {"idle", "done"}

(***************************************************************************)
(* The label is a crash-safe record of what may be deployed: whatever      *)
(* failed, crashed or was retried, the version of every workload is one    *)
(* the label names (or the empty tag of a deleted row).  A later upgrade,  *)
(* or an operator, can tell from the label alone what may be running.      *)
(***************************************************************************)
LabelNamesImages ==
  Serial => \A c \in Component : image[c] \in Parts(label) \cup {NoVersion}

(***************************************************************************)
(* A plain label is a promise: it is only there when the whole control     *)
(* plane is at that version, also after a crash in the middle of an        *)
(* upgrade and any number of retries.                                      *)
(***************************************************************************)
PlainLabelIsTrue ==
  Serial /\ RowsFound /\ Len(label) = 1 =>
    /\ rowLabel = label[1]
    /\ \A c \in Component : image[c] = label[1]

(***************************************************************************)
(* The apply order keeps the components within the supported skew: as long *)
(* as nobody asked for an older version, no component is ahead of the one  *)
(* it depends on, in the middle of an upgrade, after one was cut short and *)
(* while a retry goes over the same components again.                      *)
(***************************************************************************)
NothingAheadOfItsServer ==
  Serial /\ RowsFound /\ NonDecreasing(label) =>
    /\ image["kube-apiserver"] <= image["etcd"]
    /\ image["kube-controller-manager"] <= image["kube-apiserver"]
    /\ image["kube-scheduler"] <= image["kube-controller-manager"]

\* The workload the upgrade at work has come to, as SequentialUpgrade counts.
StageOf(step) ==
  CASE step = "apply-etcd"                           -> 1
    [] step \in {"wait-etcd", "apply-apiserver"}     -> 2
    [] step \in {"wait-apiserver", "apply-kcm"}      -> 3
    [] step \in {"wait-kcm", "apply-scheduler"}      -> 4
    [] step \in {"wait-scheduler", "charts", "finish"} -> 5
    [] OTHER                                         -> 0

Stage ==
  IF \E u \in Upgrades : StageOf(pc[u]) # 0
  THEN StageOf(pc[CHOOSE u \in Upgrades : StageOf(pc[u]) # 0])
  ELSE 0

Sequential == INSTANCE SequentialUpgrade
                WITH record <- label, deployed <- image, stage <- Stage

(***************************************************************************)
(* One at a time, and seen through the label and the workloads alone,      *)
(* upgrades with all their stale reads, refused calls, panics, kills and   *)
(* overlapping HA requests are the write-ahead protocol of                 *)
(* SequentialUpgrade.  Stated for Serial; overlapping upgrades break it.   *)
(***************************************************************************)
ImplementsSequential == Sequential!Spec

(***************************************************************************)
(* When no call fails and no upgrade is cut short, upgrades leave the      *)
(* label plain, however many overlapped and whatever label each had read:  *)
(* the console never shows "A -> B" for ever because of an interleaving.   *)
(***************************************************************************)
SettledLabelIsPlain == Settled /\ ~ApiErrors => Len(label) = 1

(***************************************************************************)
(* One at a time, upgrades also leave the charts installed in the cluster  *)
(* at the versions the labels claim, also when an upgrade leaves the       *)
(* network chart alone.                                                    *)
(***************************************************************************)
SettledChartsAgree ==
  Serial /\ RowsFound /\ Settled /\ ~ApiErrors =>
    /\ networkChart = networkLabel
    /\ \A a \in Addons : chart[a] = rowLabel

(***************************************************************************)
(* An upgrade, which applies every workload with one replica, never takes  *)
(* away the replicas ClusterEnableHA gave it, however the two interleave.  *)
(***************************************************************************)
ReplicasNeverLowered ==
  [][\A c \in Component : replicas'[c] >= replicas[c]]_vars

(***************************************************************************)
(* etcd is enlarged before what depends on it, also when ClusterEnableHA   *)
(* stops half way, is repeated, or runs in the middle of an upgrade.       *)
(***************************************************************************)
EnlargedInOrder ==
  /\ replicas["kube-apiserver"] > 1 => replicas["etcd"] = 3
  /\ replicas["kube-controller-manager"] > 1 => replicas["kube-apiserver"] = 2
  /\ replicas["kube-scheduler"] > 1 => replicas["kube-controller-manager"] = 2

(***************************************************************************)
(* Every upgrade that was accepted comes to an end: it returns, or it is   *)
(* lost with the process.  No wait for a rollout can hold it for ever.     *)
(***************************************************************************)
UpgradeEnds ==
  \A u \in Upgrades : (pc[u] = "get") ~> (pc[u] \in {"done", "lost"})

(***************************************************************************)
(* What the console tells its user.  The page answers an accepted upgrade  *)
(* with a success notice (templates/cluster.html:472).                     *)
(***************************************************************************)
AcceptedUpgradeCompletes ==
  \A u \in Upgrades : (pc[u] = "get") ~> (pc[u] = "done")

(***************************************************************************)
(* The cluster dialog presents the label as the version of the cluster     *)
(* (templates/cluster.html:588-589).  With every accepted upgrade run to   *)
(* its end, that is what the workloads should be at.                       *)
(***************************************************************************)
DialogVersionIsTrue ==
  Settled /\ Len(label) = 1 => \A c \in Component : image[c] = label[1]

=============================================================================
