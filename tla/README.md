# kok: a verification project

`kok` ("Kubernetes on Kubernetes") is a Go web application that runs the control
planes of Kubernetes clusters as Pods of one *host* cluster. Every managed
cluster is a namespace of the host; kok's handlers create, enlarge, upgrade,
monitor and delete it by calling the host's API server. kok keeps almost no
state of its own: what a cluster is, and how far an operation on it got, can
only be read off the namespace, its labels and the objects in it. A request
that is cut short is not resumed by anybody. Whether what is left is safe, and
whether sending the request again puts it right, is what this project is about.

The modules are written from the code (`src/`), not from its documents. Where a
document, a comment or a text of the console says something the code does not do,
a run shows it (see *Disagreements*).

## 1. Inventory

| Component | Code | State | Operations | Modelled in |
|---|---|---|---|---|
| Upgrade of a control plane | `controllers/cluster.go` 740-2825 | namespace labels `kubernetes`, row labels, `networkVersion`; image tag, replicas and field owners of etcd, kube-apiserver, -controller-manager, -scheduler; chart versions | `ClusterUpgrade`, goroutine `UpgradeCluster` | `ClusterUpgrade`, `SequentialUpgrade`, `ManagedCluster` |
| High availability switch | `controllers/cluster.go` 5399-5448 | replicas and their owner | `ClusterEnableHA` | `ClusterUpgrade`, `ManagedCluster` |
| Version table | `models/`, `controllers/version.go` | SQLite rows | create, delete, list, seeding at start | `ClusterUpgrade` (partly) |
| Cluster creation | `controllers/cluster.go` 2951-5310, `pkg/cert` | namespace, Services, ConfigMaps with certificates and kubeconfigs, workloads, file `./data/kubeconfig/<name>.kubeconfig` | `ClusterCreate`, its polling goroutine, `controlLog` | `ClusterLifecycle`, `ClusterLives`, as far as an upgrade can tell in `ManagedCluster` |
| Add-on goroutine | `controllers/cluster.go` 252-411 | charts in the managed cluster, Helm release `event-exporter-<name>` | `plugin`, `waitForClusterReady` | `ClusterLifecycle` |
| Monitoring switch | `controllers/cluster.go` 413-738 | Prometheus objects, label `prometheus` | `ClusterMonitor` | `ClusterLifecycle` |
| Cluster deletion | `controllers/cluster.go` 5312-5397 | everything above | `ClusterDelete` | `ClusterLifecycle`, `ClusterLives`, as far as an upgrade can tell in `ManagedCluster` |
| Helm wrapper | `pkg/appmarket`, `controllers/appmarket.go` | Helm releases | `Install`, `UnInstall`, `Search` | `ClusterLifecycle` (as the event exporter meets it) |
| Process | `main.go`, `routers/main.go` | alive or not; the goroutines | start, panic, kill | every module with handlers (partly) |
| Rollout waits | `pkg/control/custom.go` 53-212 | none | `WaitForStatefulSetUpdate`, `WaitForDeploymentUpdate` | `RolloutWait` |
| etcd membership | `images/etcd/entrypoint.sh` | member list, cache file on the volume | start of a member | `EtcdMembership`, `GrowingCluster` |
| Service range arithmetic | `pkg/utils/ip.go` | none | first, DNS and service address of a range | no: see section 7 |
| Kubeconfig download | `controllers/cluster.go` 39-76 | shared file `all.kubeconfig` | download one, download all | no: see section 7 |
| Node join | `controllers/node.go` | none | renders the script for a node | no: see section 7 |
| Cluster pages | `controllers/cluster.go`, `templates/` | none | list, status, dialogs | no: read-only (the status dialog falls back to the host, see the hazard at `pkg/control/pkg.go:24`) |
| Host API wrapper | `pkg/control` | none | client-go calls | its effect is part of the modules that make them |
| Unused packages | `pkg/pki`, `pkg/kibana`, `pkg/version`, `pkg/control/{rollout,etcd,cmd}.go`, `images/etcd/prestop.sh` | - | nothing calls them | no |
| Deployment assets | `kok/`, `dashboard/`, images, `static/` (vendored) | - | - | no |

**How they interact.** The handlers run concurrently (one goroutine per request,
gin), without a lock between them and without looking for each other. Three of
them leave work to goroutines that outlive the answer (`UpgradeCluster`,
`plugin`) or that the handler waits for (the address poll of `ClusterCreate`).
All of them share the host's API server. gin recovers a panic of a handler: the
request fails half way. Nobody recovers a panic of a goroutine: it ends the
process, and every handler and goroutine at work is lost. The kubelet starts the
process again, its data directory is a persistent volume, and it looks for no
unfinished work.

**What is hard here**, with its lines, is the list `hazards` in `PROJECT.json`.
In short: a sequence of up to forty calls that can be cut short after any of
them; errors that panic in one place and are dropped in the next; labels read at
the beginning of an operation and written, changed, several minutes later; two
operations on one cluster that do not know of each other; an address that may
never come; waits whose result is not used.

**What makes each component correct.**

* *Upgrade*: the label tells what may be deployed at all times; a plain label
  (one version) is only there when it is true of all workloads; no component gets
  ahead of the one it depends on; installed charts agree with the labels; the
  goroutine ends.
* *HA*: an upgrade does not take replicas away; etcd is enlarged first.
* *Creation*: running it again, after an error or a kill, ends in one consistent
  cluster, and keeps the certificates its users hold unless a read of them failed;
  it ends although no address comes.
* *Creation and deletion*: for those who hold a kubeconfig, a cluster that serves
  changes neither its certificates nor what it handed out, and is not given up;
  all of that happens while it does not serve.
* *Deletion*: workloads go before what their Pods refer to; once the namespace is
  gone, neither cluster-scoped objects nor the Helm release are left outside it,
  unless the delete or a monitoring request was killed, or a plugin goroutine was
  at work when the delete looked for the release (section 4); a deleted cluster
  stays deleted.
* *Process*: as long as no call fails, requests sent one at a time do not bring it
  down.
* *Upgrade of a cluster that comes and goes*: only a create brings a namespace
  back; the mark of an upgrade is not overwritten by one; the plain label of a
  whole cluster is true across the lives of its name.
* *Rollout waits*: what they report is so; the Pods, and not only the templates,
  come up in the order of the upgrade.
* *etcd*: one cluster for ever, joined by one member at a time, whatever dies;
  the three members come to serve together.

## 2. Modules

### `ClusterUpgrade`

`label` is the namespace label `kubernetes`, `"A-B-C"` as the sequence
`<<A, B, C>>`; `rowLabel` stands for the labels copied from one row of the version
table, `networkLabel` for `networkVersion`. `image`, `replicas` and `owners` (the
field managers of `spec.replicas`) are those of the four workloads. `pc[u]` is the
place of upgrade goroutine `u`, with its locals `target`, `network`, `seen` (the
labels its first `Get` returned) and `row` (`versionInfo`).

Each call of `UpgradeCluster` that changes something or can fail is an action, in
the order of the code: `GetNamespace` (ends when the label is already the
version), `SelectVersion` (the error is dropped: a missing row is the empty
version), `MarkLabels`, `ApplyEtcd` ... `ApplyScheduler` with a `WaitEnds` after
each (the error of the wait is only logged), `InstallCharts` (any subset may fail,
nobody looks; without a row there is no chart to install), `FinishLabel`. The
cluster has a network chart; with network `none` the label is all there is.
`Panic`, `MarkRefused` and `FinishRefused` are the error paths: the first two end
the process, the third is not noticed.

Server-side apply and merge patch are modelled by what they do to `spec.replicas`
(`ApplyAccepted`, `ServerSideApply`, `MergePatch`): kok applies without `Force`,
so it is refused when another manager owns a different value, and
`ClusterEnableHA`'s merge patch makes its own manager the owner of what it
changes. This is the one piece of the host that the module describes in detail,
because the interaction of the two handlers depends on it.

Versions are numbers in release order. The labels of an upgrade grow by one part
per attempt, and a value over 63 characters is refused: `MaxLabelParts` is the
number of versions that fit (nine or so in the program, two to four in the runs).

### `ClusterLifecycle`

All requests name the same cluster. `objects` holds the names of the objects that
exist; content is kept where two pieces must agree: `svcAddress` (the address of
Service kube-apiserver), `ca` (the certificates of one `GenerateAll`: who made
them, and the address in the server's one), and the two kubeconfigs `file` and
`remoteAccess`. `phase` and `labels` are the namespace's.

`CreateOrder`, `LogOrder`, `MonitorOrder` and `DeleteOrder` are the orders in which
the handlers go through the objects; `at[r]` is how far request `r` has got. What
comes before the long list of applies in `ClusterCreate` is one action per call:
`ApplyNamespace`, `ApplyService`, the poll (`PollAddress`, `PollFails`,
`PollTimesOut`, after which the handler goes on all the same),
`PatchLoadBalancer`, `GetCa`, `GenerateCa`, `WriteKubeconfig`,
`ApplyRemoteAccess`. `pluginPc[c]` is the goroutine that `Answer` starts. Errors
that the code drops are parameters of the action (`deleted`, `applied`, `patched`;
`written` for the kubeconfig file, which is then as it was, or empty), so that a
fault is always counted in `errors`.

Four history variables say what the properties have to except. `revived`: Helm has
created the namespace. `overtaken`: a plugin goroutine was at work when the last
delete looked for the Helm release. `alone` and `faults`: the create sent last, as
long as it is the only request at work, and the faults that came before it.

The host is `Accepted` (a terminating namespace takes updates and no new
objects), `NamespaceFinalized` and `AddressAssigned`. `ProcessDies` is the panic of
a goroutine or a kill, `Fails` the panic of a handler.

Abstractions: the namespace controller removes the whole content in one step;
calls to the managed cluster in `ClusterMonitor` and `plugin` succeed exactly when
the kubeconfig file leads to an API server that knows its certificates
(`FileReachesCluster`), or fail as a counted error; of the charts `plugin` installs,
the network chart and the event exporter are kept (the others go where the
network chart goes and no property tells them apart); the checks of the form that
fail before anything changed are left out. Certificates that do not differ in who
made them and for which address are the same, so the lifetime of a certificate is
not modelled.

### `ClusterLives`

The abstract specification of a cluster's life, as the users see it who hold its
kubeconfigs: the `phase` of its namespace, its `identity` (certificates), the
kubeconfigs `handed` out, and whether it is `serving`. `Serve` demands one kubeconfig,
for the identity the cluster has; `HandOut`, `Withdraw`, `GiveUp` and `End` demand that it
does not serve; there is a new identity only after the old one was withdrawn or
ended with its namespace. It has no requests, no calls, no objects and no kills.
`ClusterLifecycle` instantiates it as `Lives`: `identity` is what a reader of ConfigMap
cluster-ca finds, `handed` the contents of the file and of ConfigMap remote-access,
as far as they exist, and `serving` says that all objects of `CreateOrder` are there.
Under the antecedent of the other properties (section 3) every call is one of its
steps or a stutter. Monitoring, charts and labels are stutters; so is a create over a
cluster that serves, all of it; a delete is an `Interrupt` first.

### `SequentialUpgrade`

The abstract specification of an upgrade: a `record` of the versions that may be
deployed, the version `deployed` of each workload, and the `stage` of the attempt
under way. `Begin` writes ahead, `Roll` follows with one workload after the other,
`Complete` shrinks the record, `GiveUp` leaves everything as it is. It has no
goroutines, no calls and no kills. `ClusterUpgrade` instantiates it as
`Sequential` (`record` is `label`, `deployed` is `image`, `stage` is read off the `pc`
of the upgrade at work) and implements it when upgrades are sent one at a time:
a panic, a kill, a refused patch is a `GiveUp`; reading, waiting and the charts
are stutters. A workload that gets `NoVersion` (the row was deleted) is in the
abstract protocol too: the code does it, and the specification says so rather
than assuming it away.

### `ManagedCluster`

Extends `ClusterUpgrade` with a namespace that comes and goes, and has all four
requests of a cluster on it. Its own state is the `phase` of the namespace, the
`workloads` there are, the `service` whose address a create waits for, `config`
(everything else the workloads refer to, as one), `labelOwners` (field managers of
the label), what each upgrade has names for (`mounts`), and the places of creates
and deletes.

*Upgrade.* Each step is the action of `ClusterUpgrade`, guarded by what the host
takes in that phase (`OnHost`) and extended by what it does to the state here.
`MarkNamespace` is followed, as in the code, by the reads of the objects the
templates refer to, whose errors are dropped: a workload that lacks a name is
refused up to twelve minutes later (`Named`, `Takes`). `ApplyWorkload` creates a
workload that a delete has removed, `UpgradePanics` is every refusal and every
failing call, `UnmarkInVain` the last patch, whose error is dropped.

*Create.* `ApplyNamespace` is refused when an upgrade owns the label and the value
differs (`LabelConflict`): kok applies the namespace without `Force` under another
manager's name than the patches use. `ApplyService` and the poll follow
(`PollAddress`; `PollFails`, which panics in a goroutine; `PollTimesOut`, which deletes
the Service and the namespace, drops both errors and lets the handler go on), then
`ApplyConfig` and the four workloads. `CreateFails` is every error path of the handler.

*Delete.* One action per kind of object in the order of the code; `DeleteInVain` is a
delete whose error is dropped.

*HA.* `PatchWorkload`: the patches of `ClusterUpgrade`, where there is a workload.

`failures` counts the calls that fail for a reason of their own and not for the
state of the namespace. `turn` is a history variable. The code looks at nothing
before it starts; `turn` remembers whether an operator who did look would have
sent each request: "kept" (an upgrade of a whole cluster that nobody deletes, a
create where there is none, a delete when no upgrade or create is at work),
"creates" (all of that, except that creates of the name of a whole cluster were
sent), or "lost". The properties say what depends on that operator.

Left to the other modules: the version table, the charts, certificates and the
contents of the ConfigMaps, the goroutine that installs charts after a create.

### `RolloutWait`

The two waits of `pkg/control/custom.go` against the host's controllers. For each
workload: the `template` applied, the one its controller has `observed`, for a
Deployment the replicas each ReplicaSet should have (`want`), how many
`pods` there are of each version and state, for a StatefulSet the published `status`.
The upgrade goes through `Order`: `Apply`, then for a StatefulSet `GetStatefulSet` and
`ListStatefulSetPods` (two reads, with the world moving in between), for a
Deployment `GetLatestReplicaSet` once and `PollDeploymentPods` until it is right, or
`WaitGivesUp`. The controllers are external and modelled with all the freedom
Kubernetes gives them: a Pod may never get ready, may be evicted, a controller may
see a template late. `unsure` is a history variable: workloads whose wait gave up
or went by a ReplicaSet that was not the new one.

### `EtcdMembership`

`entrypoint.sh` step by step in each Pod of the StatefulSet: `Begin` (a start that
finds its cached command line runs it), `MemberAdd` and its two bad ends (refused;
accepted, with the answer lost), `WriteScript`, and the start of etcd: `Bootstrap`,
`Rejoin`, `Join` or `JoinRefused`. The volumes are `cached`, `envs` (the initial cluster
the script was told) and `data`; they outlive the container. etcd itself is
external: a membership change needs a quorum and passes the strict check
(`EnoughStarted`), a member without data joins only with exactly the current
membership (`CanJoin`). The probes are commented out in the code, so Pods start as
soon as their predecessor runs; `CreatePod` says so.

### `GrowingCluster`

The abstract specification of that etcd, as the API servers rely on it: who are
`members`, who of them are `holders` of data, who is `serving`. A cluster is founded
once; `Admit` takes a majority and demands that all members hold data; `Join` is open
to the one member without data, while somebody serves; a holder may `Stop` and `Resume`
at any time. It is stated for any set of nodes. `EtcdMembership` instantiates it as
`Growing` (`holders` is `data`, the volumes with a member on them). The cache, the
command lines, the answers of `member add`, publishing, Pods and the StatefulSet are
stutters; both ends of an accepted `member add` are an `Admit`.

### `MC...`

The instances for TLC: symmetry of the requests, used for safety only, and the
order of the workloads for `RolloutWait`.

### `..._proofs`

The theorems, see section 5.

## 3. Runs

| Run | What it asks | Bounds |
|---|---|---|
| `upgrade_serial` | label, plain label and skew over three upgrades sent one after the other, to any of three versions, older ones included; every step is one of `SequentialUpgrade` | every call may fail, one kill, one row may be deleted and added again, labels of up to three parts, so that the length limit is met |
| `upgrade_overlap` | two upgrades and two HA requests in any interleaving: order of enlarging, replicas never lowered, label plain in the end | three versions, one kill |
| `upgrade_charts` | installed charts agree with labels after upgrades with and without a network version, and every accepted upgrade ends | two upgrades, an HA request (which makes an upgrade panic), one kill; no failing call (a failed chart is not retried, which is the code's choice) |
| `lifecycle_retries` | two creates, a monitoring request and a delete, in any order, one at a time; consistency, certificates, order of removal, a create that puts right what a fault left, nothing left behind (unless a plugin overtook the delete), process stays up; every step is one of `ClusterLives` | two addresses, one fault (a kill, a failing call or a failing write of the file) anywhere: `MaxFaults`; 1.4 million states |
| `lifecycle_liveness` | a create ends | races a delete; one failing call and one kill; the load balancer owes nothing |
| `managed_cluster` | an upgrade, a create, a delete and an HA switch of one name in any interleaving: which requests bring the process down, what the label of a whole cluster is worth, whose mark stands, who revives a namespace, who takes replicas away | two versions, one fault (a kill or a failing call) at any step, an address that may never come; 2.5 million states |
| `rollout_order` | Pods come up in the order of the upgrade; a StatefulSet wait that ends well is right | etcd and two Deployments, one upgrade, one eviction |
| `etcd_growth` | members join one at a time, caches stay right, one cluster for ever, three members come to serve; every step is one of `GrowingCluster` | three members, three kills or lost answers at any step |
| `upgrade_accepted`, `upgrade_dialog`, `lifecycle_deleted`, `rollout_message` | expected violations, section 4 | the smallest instance that shows each |

Why these bounds are enough to meet the interesting cases. An upgrade interacts
with what an earlier one left, and a third one finds the label of a retry that
was itself cut short: three upgrades in sequence, three versions so that one can
go up twice or up and down. For overlapping, two goroutines exhaust the pairwise
races on label and workloads. In the life cycle, a second create with a delete
in between covers a retry of either after a fault at each of its steps; two
addresses let old and new content be told apart. In `ManagedCluster` an upgrade may
outlive its cluster and end up in the one created in its place, a create may meet a
cluster, a delete or what is left of either, and a single fault may hit any of
them; what two requests of a kind do to one another is the subject of the single
components here, and of the theorems. In
`RolloutWait` three workloads are one StatefulSet, a Deployment behind it and a
Deployment behind a Deployment. In `EtcdMembership` three is the program's own
number, and three faults are one in each Pod, or a fault in each of two retries.
None of these is an argument for larger instances; where there is a theorem, that is.

`CHECK_DEADLOCK FALSE` everywhere: when all requests have been sent and have
ended the system rests, as it should.

**Antecedents.** The lifecycle properties say what holds for operators that wait
for an answer (`Serial`), as long as no call, and no write of the kubeconfig file,
failed for a reason of its own (`errors = 0`) and Helm has not created the namespace
behind everybody's back (`~revived`, the subject of `lifecycle_deleted`). Kills are
allowed, with two exceptions: `OnlyKillsStopKok` is about the process before the
first one, and `GoneLeavesNothing` about clusters of which no delete and no
monitoring request was killed. `GoneLeavesNothing` also excepts a delete that a
plugin goroutine overtook (`overtaken`). They are this narrow because the code is:
a failing read of `cluster-ca` does replace the certificates of a running cluster, a
failing poll of the address does panic in a goroutine, a dropped delete error does
leave an object behind, a killed delete leaves what it had not come to, and two
creates at once do overwrite each other. Each of these is listed under `hazards`
with a note. What the failing calls are in the run for, besides the error paths and
the type invariant, is `LoneCreateHeals`: it assumes nothing about what came before,
and says that the next create, if no other request is sent and nothing fails while
it is at work, puts the cluster right. The run has creates one at a time; the
theorem has them overlap.

The properties of `ManagedCluster` speak of requests in turn (`turn`) or of upgrades
that wait for each other (`Serial`), and `OrderlyRequestsKeepKokUp` of runs without a
fault and without HA: one failing call in a goroutine does end the process, and so
does every upgrade after HA. Those of `RolloutWait` speak of waits that did not give
up and did not go by an old ReplicaSet (`unsure`) and, where an old ReplicaSet may
bring a Pod back, of runs without an eviction; the run has the other behaviours as
well.

**Fairness.** `WF` of each request's steps: the Go scheduler runs every goroutine,
every call of the client returns, the waits end after two (address), three
(rollout) and fifteen (plugin) minutes in the code. `WF` of `Restart`: the
Deployment of kok is restarted by the kubelet. `WF` of `NamespaceFinalized`: the
namespace controller. In `EtcdMembership`, `WF` of `CreatePod` (the StatefulSet
controller), of `RestartContainer` (a back-off ends) and of `ContainerStep` (the script
and etcd go on). Nothing is owed by operators, by kills, by lost answers or by
the load balancer, which is the point of `CreateEnds`.

**Mutants.** Each property has a faulty variant of a definition next to the
original (`..._SwapsOrder`, `..._Never`, ...), a slip a change of the code could
make; with it TLC finds the property violated. The variants are not part of any
specification.

## 4. Disagreements between the code and what it says

| Run | The code | It says |
|---|---|---|
| `upgrade_accepted` | after `ClusterEnableHA` every upgrade is refused at its first apply, panics and takes the process down | the console: success (`templates/cluster.html:472`) |
| `upgrade_dialog` | two upgrades to different versions interleave; the last to end writes a plain label over workloads at both versions | the dialog shows the label as the cluster's version (`templates/cluster.html:588-589`) |
| `lifecycle_deleted` | the plugin goroutine of a deleted cluster lets Helm create its namespace again | the console: deleted (`templates/cluster.html:751`) |
| `rollout_message` | the newest ReplicaSet is read once (`pkg/control/custom.go:152`); read before the controller has made the new one, the wait ends well on the old Pod | the log: "has been successfully updated" (`pkg/control/custom.go:205`) |

Known behaviour of the same kind, without a run of its own: with the row of its
version deleted, an upgrade applies empty image tags and writes the plain label,
and repeating it does nothing (`Roll(NoVersion)` of `SequentialUpgrade`); after a
delete that was cut short, a create keeps certificates that may name the address
of the Service before (`ca.host` in `ClusterLifecycle` is not part of
`CompleteClusterAgrees`); a second create with another network plugin installs it
next to the first; an etcd member whose first start was cut between `member add`
and its cache never comes up (`Orphaned`, the exception in `OnlyOrphansAreStuck`);
a delete looks for the release of the event exporter once
(`controllers/cluster.go` 5331), and a plugin goroutine of an earlier create may
install it after that, while the namespace still stands (369-370): the release stays
in `kube-system` of the host when the namespace is gone, and the next cluster of
that name gets no exporter, because it counts as deployed (`overtaken`, the
exception in `GoneLeavesNothing`).

## 5. Proofs

Every theorem is about its component's specification with all constants left
open: any set of requests and versions, any number of kills and failing calls. They
rest on the named assumptions of the modules and on nothing else; no set is assumed
finite. Three assume more. `UpgradesAreSequential`: operators that wait for an
upgrade to end (`Serial`), which is what it is about. `OrderlyKeepsUp`: the same, and
a label with room for two versions, without which the mark itself is refused.
`StandingClusterIsClusterUpgrade`: no create and no delete, which is what it
is about, and that `ClusterUpgrade` is given failing calls if `ManagedCluster` is
(`ApiErrors \/ MaxFaults = 0`); otherwise it is false.

| Module | Theorem | Statement |
|---|---|---|
| `ClusterUpgrade_proofs` | `TypeCorrect` | `Spec => []TypeOK` |
| | `LabelRecordsImages` | `Spec => []LabelNamesImages` |
| | `PlainLabelPromise` | `Spec => []PlainLabelIsTrue` |
| | `SkewIsKept` | `Spec => []NothingAheadOfItsServer` |
| | `HAInOrder` | `Spec => []EnlargedInOrder` |
| | `HAIsKept` | `Spec => ReplicasNeverLowered` |
| | `LabelSettles` | `Spec => []SettledLabelIsPlain` |
| | `ChartsSettle` | `Spec => []SettledChartsAgree` |
| `SequentialUpgrade_proofs` | `UpgradesAreSequential` | `Spec => ImplementsSequential` (a refinement) |
| `ClusterLifecycle_proofs` | `LifecycleTypeOK` | `Spec => []TypeOK` |
| | `PodsFindTheirNeeds` | `Spec => []NeedsPresent` |
| | `CompleteMeansConsistent` | `Spec => []CompleteClusterAgrees` |
| | `CalmProcessStaysUp` | `Spec => []OnlyKillsStopKok` |
| | `CertificatesAreKept` | `Spec => CertificatesKept` |
| | `NothingIsLeft` | `Spec => []GoneLeavesNothing` |
| `ClusterHealing_proofs` | `LoneCreatesHeal` | `Spec => []LoneCreateHeals` |
| `ClusterLives_proofs` | `LifecycleIsLives` | `Spec => ImplementsLives` (a refinement) |
| `ManagedCluster_proofs` | `ManagedTypeCorrect` | `ManagedSpec => []ManagedTypeOK` |
| | `CreateAloneRevives` | `ManagedSpec => OnlyCreateRevives` |
| | `MarkIsKept` | `ManagedSpec => []MarkStands` |
| | `OrderlyKeepsUp` | `ManagedSpec => []OrderlyRequestsKeepKokUp` |
| | `WholeClustersAreTrue` | `ManagedSpec => []WholeClusterLabelIsTrue` |
| | `EnlargedIsKept` | `ManagedSpec => EnlargedStaysEnlarged` |
| | `StandingClusterIsClusterUpgrade` | `ManagedSpec => Spec` of `ClusterUpgrade` (a refinement) |
| `EtcdMembership_proofs` | `EtcdTypeOK` | `Spec => []TypeOK` |
| | `JoinsAreSerial` | `Spec => []OneJoinAtATime` |
| | `CachedCommandLineIsRight` | `Spec => []CachedClusterIsCurrent` |
| | `OneClusterForEver` | `Spec => MembersStay` |
| | `PodsGrowOneCluster` | `Spec => ImplementsGrowing` (a refinement) |
| `RolloutWait_proofs` | `RolloutTypeOK` | `Spec => []TypeOK` |
| | `StatefulSetWaitsAreRight` | `Spec => []StatefulSetSuccessIsTrue` |
| | `UpgradesGoInOrder` | `Spec => []NoPodAheadOfItsServer` |

**Upgrade.** None of the invariants is inductive by itself. `LabelNamesImages` says
nothing about a goroutine between reading and writing the label, and its step
would fail in `MarkLabels`, which writes what was *seen*. The strengthening adds, for
the one upgrade that is at work under `Serial`: what it has seen is still the label
until it marks it; from then on the label ends in its target; and each workload
it has passed is at the version it applies. "One upgrade is at work" is itself
part of the invariant. Skew needs in addition that the label, in its order, bounds
the images. For HA the strengthening says of each handler that the components
before its current one are enlarged, and that a workload with more than one
replica is no longer owned by kok alone, so that an apply with one replica is
refused: that is why `ReplicasNeverLowered` holds, and why `upgrade_accepted` fails.
`LabelSettles` is the one about overlapping upgrades: a label that is not plain has
a goroutine behind it that will still write (`MarkHasOwner`), whoever marked it last.
`ChartsSettle` says of the one upgrade at work that the labels run ahead of the charts
by what it is about to install (`ChartInv`).

**Refinement.** Each action of `ClusterUpgrade` is mapped to a step of
`SequentialUpgrade` or a stutter, from the invariants above: the stage of the
abstract protocol is that of the one upgrade at work, and the version it rolls is
the last one of the label, or none.

**Life cycle.** `LifecycleInv` is the types, the bounds of the positions and "one
request at work", and, while the antecedent of the properties holds (`Calm`), four
parts. `HostInv` is about the host alone: what Pods refer to is there, the Service
goes before the namespace, and while the scheduler is there the contents agree
(it is put up last and taken down first). `CreateInv`, `DeleteInv` and `MonitorInv` say
for each place of a request which prefix of its list is done; in a namespace that
is not active a create changes nothing that was not there. An action disturbs
the part of its own request and of the host only; the frame lemmas say so once
for all actions of a handler. `NothingIsLeft` needs a second invariant, `LeftoverInv`,
about what is not in the namespace and therefore outlives it: which of these
objects a delete at a given position may still find, and that a create that gave
up has none. Its part `ExportedInv` is about the Helm release: from the look of a
delete that nobody overtook until the namespace is gone there is no plugin at work
that could install it again, so the release is gone for good. Creates may be killed
at any step, as what they leave is still found by the delete that follows; a delete
or a monitoring request that was killed is excluded (`Undisturbed`).

`LoneCreatesHeal` is the one theorem here that does not start from `Calm`. `HealInv`
says what is in place after each call of a create that is alone, wherever it began.
With the types and positions of `ShapeInv` it is inductive without a word about the
past, since nobody else is at work, the plugins only add, and a namespace that ended
under the create cannot become active again but through Helm, after which the create
does not count as alone.

`LifecycleIsLives` maps each call to a step of `ClusterLives`. What it needs beyond
`LifecycleInv` is `IdentityInv`: certificates are in a namespace that is there and are
never empty, so that `GenerateCa` is a `Certify` and their removal a `Withdraw`. The
rest is what a cluster that serves tells: it has its scheduler, so its contents agree
and its namespace is active (`ServingAgrees`). A create that writes a kubeconfig over it
writes the one that is there; one that waited in vain for an address, and is about
to give the namespace up, has seen a Service without one, so no scheduler was ever
told an address; a delete that has passed the scheduler has made it stop serving
before it comes to anything users hold.

**Managed cluster.** The actions are first grouped by what they leave alone
(`QuietCreate`, `QuietDelete`, `KokGoes`, `AsideStep`), with a frame lemma for each group;
an invariant is then disturbed by a few actions only. `MarkInv` adds to `MarkStands`
that the label of a marked namespace is owned by `main`: that is the reason an apply
that differs is refused. `EnlargedInv` says that a workload with more than one replica
has `main` among its owners, so that neither an upgrade's nor a create's apply with
one replica is taken. `OrderlyInv` is why the process stays up: the cluster is
either *standing* (whole, nobody deletes, no create has begun to wait in vain for an
address, so that no polling goroutine can delete it) or *building* (no upgrade at
work; a create that is at work is alone and finds the Service it polls). An upgrade
in turn starts while it stands, a delete or a create from nothing while it builds, a
create over a whole cluster changes nothing that an upgrade needs; in either case
none of the refusals that panic in a goroutine can occur. `InTurnInv` allows kills,
failing calls and HA and says why requests in turn do not meet: an upgrade works on
a cluster that is whole, a create starts from nothing and at each step has put up
only workloads of its own version, which is the label by then; a delete only takes
away. A workload no call could put up is missing, and the cluster not whole.

`StandingClusterIsClusterUpgrade` says that the composition adds nothing to a cluster
that stands: each step is a step of `ClusterUpgrade` or does not concern it. So the
theorems about upgrades alone are theorems about upgrades of such a cluster here.

**etcd.** The strict check is what makes joins serial: with up to three members
it lets another one in only when all are started (`AddNeedsAllStarted`), and the one
exception (the second member of a cluster of one) needs the first to be started.
So the membership cannot move between `member add` and the first data of the
member, which is why the cached command line stays right. The bound of three is an
assumption of the module, as it is a constant of the program. For `PodsGrowOneCluster`
the same lemma makes an accepted `member add` an `Admit` (all started, so all hold
data), and the invariant makes the start of a member without data a `Join`: what it
was told is the membership, and nobody else is without data. Pod 0 says "new" at
every start, and founds only once because its data is on a claim of its own
(`controllers/cluster.go` 4056): without that the mutant of this property forgets it.

**Rollout waits.** A workload is `Settled` at a version when its controller has seen
that template and neither a Pod nor a ReplicaSet of an older version is left; no
step of the host undoes that, since only the newest version gets new Pods. The
invariant says that every workload passed with a wait that ended well is settled
at the version it was waited for. That a StatefulSet is, follows from its status:
the generation in it is never that of a template the controller has not seen, so
an apply makes every complete status an old one (`SetSound`). That a Deployment is,
takes more: its wait counts Pods, and an old ReplicaSet without its Pod would bring
one back. `Manned` says that, without evictions, every ReplicaSet that should have a
Pod has one which is not on its way out, so a single Pod of the new one means that
the old ones are given up. Eviction is the exception because the code does not
look at the ReplicaSets' own counts.

**Model-checked only**: what is temporal under fairness (`UpgradeEnds`, `CreateEnds`,
`OnlyOrphansAreStuck`), which is out of the prover's reach. Every invariant and
action property of the passing runs is a theorem.

## 6. Plan

Done, in this order: `ClusterUpgrade` with its proofs, `ClusterLifecycle`,
`SequentialUpgrade` with the refinement, `ManagedCluster`, `RolloutWait`,
`EtcdMembership` with its proofs, `ClusterLifecycle_proofs`, `ManagedCluster_proofs`,
`RolloutWait_proofs`, `ManagedCluster` with failing calls, the address poll and HA,
`ClusterLives` and `GrowingCluster` with the refinements, `LoneCreateHeals` with its
proof. Next:

1. The end of an upgrade in `RolloutWait` (its waits end after three minutes), so that
   the order of the Pods is also checked against what must eventually happen.

Runs stay small instances of one question each; runs of single components are
merged where they ask about the same behaviours.

## 7. Not modelled

* *Service range arithmetic* (`pkg/utils/ip.go`): a pure function on four octets, worked
  out by hand. Each octet is masked by a shift of a `uint8`, and Go's shift by
  eight or more gives 0, so prefixes over 24 come out right. For a prefix under 16
  the second octet is copied as it was written: only a range that is both that
  wide and not written with its network address (`10.96.0.0/8`) gets a first address
  that is not the range's.
* *Download of kubeconfigs* (`controllers/cluster.go` 39-76): `all` removes, creates and
  fills one shared file. Two downloads at once may return a mixture; no document
  or test says anything about it, and no cluster is changed.
* *Node join* (`controllers/node.go`): a page that reads labels and renders a script
  that runs on the node. What makes the version in it right is `PlainLabelIsTrue`.
* *Helm releases*: the history is looked up by chart name, the upgrade is by release
  name. `ClusterLifecycle` has the one case that matters to a namespace (the event
  exporter); in the managed cluster both names are the same.
* *Version comparison of the console* (`templates/cluster.html`): the dialog's only;
  the runs send older versions as well as newer ones.
* Routing, sessions and the read-only pages (no state of the system changes in
  them); the contents of Pod specifications beyond what they refer to; parsing
  and rendering; the Helm chart of kok, the dashboards, Vagrant and Jenkins files;
  packages nothing calls; `prestop.sh`, which no Pod is told to run. The database is
  a table whose only concurrent use is a single-statement read or write.
* *JavaScript*: the only JavaScript files of the repository are Chart.js, a plotting
  library, and `lightyear.js`, the behaviour of a bought page theme (menus,
  tabs, a theme switch). Both are vendored, hold no logic of kok, and are left
  alone. The program is written in Go, with one shell script for etcd.
