-------------------------- MODULE ClusterLifecycle --------------------------
(***************************************************************************)
(* Creating, monitoring and deleting one managed cluster (ClusterCreate,   *)
(* ClusterMonitor, ClusterDelete and the plugin goroutine of               *)
(* controllers/cluster.go).                                                *)
(*                                                                         *)
(* All requests name the same cluster.  A cluster has no record but what   *)
(* the handlers leave behind: a namespace and its labels, the objects in   *)
(* it, a few cluster-scoped objects, a kubeconfig file in the data         *)
(* directory and a Helm release in kube-system of the host.  A handler     *)
(* makes one call after the other to the host API server and panics when a *)
(* call it checks fails; gin recovers a handler, so the request fails half *)
(* way and what was done stays.  A goroutine nobody recovers takes the     *)
(* process with it.                                                        *)
(*                                                                         *)
(* Objects are names; contents are kept where two of them have to agree:   *)
(* the certificates, the two kubeconfigs and the address of the            *)
(* kube-apiserver Service.  The certificates of one GenerateAll are named  *)
(* by the request that made them and the address in the server's one.      *)
(***************************************************************************)
EXTENDS Naturals, Sequences, FiniteSets

CONSTANTS
  Creates,     \* create requests, each sent at most once
  Deletes,     \* delete requests
  Monitors,    \* "enable monitoring" requests
  NoOne,       \* not a request
  Networks,    \* network plugins a create may ask for
  Addresses,   \* addresses the load balancer hands out
  Serial,      \* do operators wait for an answer before the next request?
  MaxErrors,   \* bound: how many calls to an API server or Helm, or writes of
               \* the kubeconfig file, fail
  MaxCrashes,  \* bound: how often the process is killed
  MaxFaults    \* bound: failing calls and kills together

NoAddress == 0         \* the empty string of lbAddr

Requests == Creates \cup Deletes \cup Monitors

ASSUME RequestsAssumption ==
  /\ Creates \cap Deletes = {} /\ Creates \cap Monitors = {}
  /\ Deletes \cap Monitors = {}
  /\ NoOne \notin Requests
ASSUME AddressesAssumption == Addresses \subseteq Nat \ {NoAddress}
ASSUME LifecycleBounds ==
  /\ Serial \in BOOLEAN
  /\ MaxErrors \in Nat
  /\ MaxCrashes \in Nat
  /\ MaxFaults \in Nat

-----------------------------------------------------------------------------
(* The objects, in the order in which the handlers go through them.        *)

\* What ClusterCreate applies once the certificates are there.
CreateOrder ==
  <<"serviceaccount/etcd", "role/etcd", "rolebinding/etcd", "service/etcd",
    "statefulset/etcd", "configmap/kube-apiserver",
    "deployment/kube-apiserver", "configmap/kubeconfig",
    "service/kube-controller-manager", "deployment/kube-controller-manager",
    "service/kube-scheduler", "deployment/kube-scheduler">>

\* controlLog: the error of the first ends it, neither fails the request.
LogOrder == <<"clusteroutput", "clusterfluentdconfig">>

\* ClusterMonitor: errors on the first three panic, the others are dropped.
MonitorOrder ==
  <<"serviceaccount/prometheus", "clusterrole/prometheus",
    "clusterrolebinding/prometheus", "configmap/prometheus",
    "deployment/prometheus", "service/prometheus">>
MonitorChecked == 3

\* Faulty variant: what the workloads mount goes first.
DeleteOrder_ConfigFirst ==
  <<"deployment/prometheus", "clusterrolebinding/prometheus",
    "clusterrole/prometheus", "serviceaccount/prometheus",
    "configmap/prometheus", "service/prometheus",
    "release",
    "configmap/kubeconfig", "configmap/kube-apiserver",
    "configmap/remote-access", "configmap/cluster-ca",
    "deployment/kube-scheduler", "deployment/kube-controller-manager",
    "deployment/kube-apiserver", "statefulset/etcd",
    "service/kube-apiserver", "service/etcd",
    "service/kube-controller-manager", "service/kube-scheduler",
    "role/etcd", "rolebinding/etcd", "serviceaccount/etcd",
    "namespace", "clusteroutput", "clusterfluentdconfig", "file">>

\* ClusterDelete.  The first six only when the label says monitored.
DeleteOrder ==
  <<"deployment/prometheus", "clusterrolebinding/prometheus",
    "clusterrole/prometheus", "serviceaccount/prometheus",
    "configmap/prometheus", "service/prometheus",
    "release",
    "deployment/kube-scheduler", "deployment/kube-controller-manager",
    "deployment/kube-apiserver", "statefulset/etcd",
    "service/kube-apiserver", "service/etcd",
    "service/kube-controller-manager", "service/kube-scheduler",
    "configmap/kubeconfig", "configmap/kube-apiserver",
    "configmap/remote-access", "configmap/cluster-ca",
    "role/etcd", "rolebinding/etcd", "serviceaccount/etcd",
    "namespace", "clusteroutput", "clusterfluentdconfig", "file">>
AfterMonitoring == 7

Elements(s) == {s[i] : i \in 1..Len(s)}

\* Objects outside the namespace: nothing removes them but ClusterDelete.
Outside == {"clusteroutput", "clusterfluentdconfig", "clusterrole/prometheus",
            "clusterrolebinding/prometheus", "file"}

Objects == Elements(CreateOrder) \cup Elements(LogOrder)
           \cup Elements(MonitorOrder)
           \cup {"service/kube-apiserver", "configmap/cluster-ca",
                 "configmap/remote-access", "event-exporter", "file"}

(***************************************************************************)
(* What the Pods of a workload refer to by name: ConfigMaps they mount,    *)
(* their service account and the Services they connect to.                 *)
(***************************************************************************)
EtcdNeeds == {"configmap/cluster-ca", "serviceaccount/etcd", "role/etcd",
              "rolebinding/etcd", "service/etcd"}
ApiserverNeeds == {"configmap/cluster-ca", "configmap/kube-apiserver",
                   "service/etcd"}
ControllerManagerNeeds == {"configmap/cluster-ca", "configmap/kubeconfig",
                           "service/kube-apiserver"}
SchedulerNeeds == {"configmap/cluster-ca", "configmap/kubeconfig",
                   "service/kube-apiserver"}
PrometheusNeeds == {"configmap/prometheus", "serviceaccount/prometheus"}

-----------------------------------------------------------------------------

VARIABLES
  phase,        \* of the namespace: "none", "active" or "terminating"
  labels,       \* its labels, as far as they matter here
  objects,      \* names of the objects there are
  svcAddress,   \* ingress address of Service kube-apiserver
  ca,           \* content of ConfigMap cluster-ca
  remoteAccess, \* content of ConfigMap remote-access
  file,         \* content of ./data/kubeconfig/<name>.kubeconfig
  release,      \* Helm release event-exporter-<name> in kube-system
  charts,       \* network charts installed in the managed cluster
  up,           \* is the kok process running?
  crashes,      \* how often it was killed
  errors,       \* how many calls failed
  revived,      \* history: has Helm created the namespace?
  overtaken,    \* history: did the last delete look for the Helm release while
                \* a plugin goroutine that might install it was at work?
  alone,        \* history: the create sent last, if it was the only request at
                \* work all the time, or NoOne
  faults,       \* history: how many kills and failing calls came before it
  pc,           \* next step of each request
  at,           \* position in the order the request is working through
  network,      \* info.Network of each create
  lbAddr,       \* lbAddr of each create
  clusterCa,    \* clusterCa of each create
  pluginPc      \* next step of each create's plugin goroutine

hostVars   == <<phase, labels, objects, svcAddress, ca, remoteAccess, file,
                release, charts>>
localVars  == <<network, lbAddr, clusterCa>>
historyVars == <<revived, overtaken, alone, faults>>
procVars   == <<up, crashes, revived, overtaken, alone, faults>>
vars == <<phase, labels, objects, svcAddress, ca, remoteAccess, file, release,
          charts, up, crashes, errors, revived, overtaken, alone, faults, pc,
          at, network, lbAddr, clusterCa, pluginPc>>

NoCa == [by |-> NoOne, san |-> NoAddress]
NoKubeconfig == [ca |-> NoCa, host |-> NoAddress]
NoNetwork == "none"
NoLabels == [network |-> NoNetwork, loadBalancer |-> NoAddress,
             monitored |-> FALSE]

AnyAddress == Addresses \cup {NoAddress}
Certificates == [by : Creates \cup {NoOne}, san : AnyAddress]
Kubeconfigs == [ca : Certificates, host : AnyAddress]

Resting == {"idle", "answered", "failed", "lost"}
CreateSteps == {"namespace", "service", "await", "waiting", "patch", "get-ca",
                "generate-ca", "kubeconfig", "remote-access", "apply", "log"}
DeleteSteps == {"get", "delete"}
MonitorSteps == {"install", "monitor", "label"}
PluginResting == {"idle", "done", "lost"}
PluginSteps == {"wait", "network", "exporter"}

TypeOK ==
  /\ phase \in {"none", "active", "terminating"}
  /\ labels \in [network : Networks \cup {NoNetwork},
                 loadBalancer : AnyAddress, monitored : BOOLEAN]
  /\ objects \subseteq Objects
  /\ svcAddress \in AnyAddress
  /\ ca \in Certificates
  /\ remoteAccess \in Kubeconfigs
  /\ file \in Kubeconfigs
  /\ release \in {"none", "deployed", "failed"}
  /\ charts \subseteq Networks
  /\ up \in BOOLEAN
  /\ crashes \in Nat
  /\ errors \in Nat
  /\ revived \in BOOLEAN
  /\ overtaken \in BOOLEAN
  /\ alone \in Creates \cup {NoOne}
  /\ faults \in Nat
  /\ pc \in [Requests ->
               Resting \cup CreateSteps \cup DeleteSteps \cup MonitorSteps]
  /\ at \in [Requests -> Nat]
  /\ network \in [Creates -> Networks \cup {NoNetwork}]
  /\ lbAddr \in [Creates -> AnyAddress]
  /\ clusterCa \in [Creates -> Certificates]
  /\ pluginPc \in [Creates -> PluginResting \cup PluginSteps]

Init ==
  /\ phase = "none"
  /\ labels = NoLabels
  /\ objects = {}
  /\ svcAddress = NoAddress
  /\ ca = NoCa
  /\ remoteAccess = NoKubeconfig
  /\ file = NoKubeconfig
  /\ release = "none"
  /\ charts = {}
  /\ up = TRUE
  /\ crashes = 0
  /\ errors = 0
  /\ revived = FALSE
  /\ overtaken = FALSE
  /\ alone = NoOne
  /\ faults = 0
  /\ pc = [r \in Requests |-> "idle"]
  /\ at = [r \in Requests |-> 1]
  /\ network = [c \in Creates |-> NoNetwork]
  /\ lbAddr = [c \in Creates |-> NoAddress]
  /\ clusterCa = [c \in Creates |-> NoCa]
  /\ pluginPc = [c \in Creates |-> "idle"]

-----------------------------------------------------------------------------
(* The host API server.                                                    *)

\* An apply inside the namespace: an object that is there is updated, a new
\* one is refused unless the namespace is active.
Accepted(o) == phase = "active" \/ (phase = "terminating" /\ o \in objects)

\* The namespace controller removes everything in a terminating namespace,
\* the volumes of etcd included, and the namespace itself.
NamespaceFinalized ==
  /\ phase = "terminating"
  /\ phase' = "none"
  /\ labels' = NoLabels
  /\ objects' = objects \cap Outside
  /\ charts' = {}
  /\ UNCHANGED <<svcAddress, ca, remoteAccess, file, release, procVars, errors,
                 pc, at, localVars, pluginPc>>

\* The load balancer gives the Service an address, some time or never.
AddressAssigned ==
  /\ "service/kube-apiserver" \in objects
  /\ svcAddress = NoAddress
  /\ svcAddress' \in Addresses
  /\ UNCHANGED <<phase, labels, objects, ca, remoteAccess, file, release,
                 charts, procVars, errors, pc, at, localVars, pluginPc>>

\* The kubeconfig file leads to the managed cluster's API server.
FileReachesCluster ==
  /\ {"file", "deployment/kube-apiserver", "service/kube-apiserver",
      "configmap/cluster-ca"} \subseteq objects
  /\ file.host = svcAddress
  /\ file.ca = ca

-----------------------------------------------------------------------------
(* The kok process.                                                        *)

Goto(r, step) == pc' = [pc EXCEPT ![r] = step]

ProcessDies ==
  /\ up' = FALSE
  /\ pc' = [r \in Requests |-> IF pc[r] \in Resting THEN pc[r] ELSE "lost"]
  /\ pluginPc' = [c \in Creates |-> IF pluginPc[c] \in PluginResting
                                    THEN pluginPc[c] ELSE "lost"]

Crash ==
  /\ up
  /\ crashes < MaxCrashes
  /\ crashes + errors < MaxFaults
  /\ crashes' = crashes + 1
  /\ ProcessDies
  /\ UNCHANGED <<hostVars, errors, historyVars, at, localVars>>

\* The data directory is a persistent volume; nothing else comes back.
Restart ==
  /\ ~up
  /\ up' = TRUE
  /\ UNCHANGED <<hostVars, crashes, errors, historyVars, pc, at, localVars,
                 pluginPc>>

\* Operators that wait for answers have at most one request at work; the
\* plugin goroutine is none of theirs.
MaySend(r) ==
  /\ up
  /\ pc[r] = "idle"
  /\ Serial => \A q \in Requests : pc[q] \in Resting

\* What is remembered of a request that is sent.
Sent(r) ==
  /\ alone' = IF r \in Creates /\ \A q \in Requests : pc[q] \in Resting
              THEN r ELSE NoOne
  /\ faults' = errors + crashes
  /\ UNCHANGED <<revived, overtaken>>

\* A call fails for a reason of its own.
CallFails ==
  /\ errors < MaxErrors
  /\ crashes + errors < MaxFaults
  /\ errors' = errors + 1

NoCallFails == UNCHANGED errors

\* The handler panics and gin answers for it.
Fails(r) ==
  /\ Goto(r, "failed")
  /\ UNCHANGED <<hostVars, procVars, at, localVars, pluginPc>>

-----------------------------------------------------------------------------
(* ClusterCreate.                                                          *)

ClusterCreate(c, n) ==
  /\ MaySend(c)
  /\ Sent(c)
  /\ network' = [network EXCEPT ![c] = n]
  /\ Goto(c, "namespace")
  /\ UNCHANGED <<hostVars, up, crashes, errors, at, lbAddr, clusterCa,
                 pluginPc>>

\* Faulty variant: the labels are replaced, not merged.
ApplyNamespace_Replaces(c) ==
  /\ pc[c] = "namespace"
  /\ phase' = IF phase = "none" THEN "active" ELSE phase
  /\ labels' = [network |-> network[c]]
  /\ Goto(c, "service")
  /\ UNCHANGED <<objects, svcAddress, ca, remoteAccess, file, release, charts,
                 procVars, errors, at, localVars, pluginPc>>

\* Faulty variant: a namespace that is there is taken for a cluster.
ApplyNamespace_Returns(c) ==
  /\ pc[c] = "namespace"
  /\ phase' = IF phase = "none" THEN "active" ELSE phase
  /\ labels' = [labels EXCEPT !.network = network[c]]
  /\ Goto(c, IF phase = "none" THEN "service" ELSE "answered")
  /\ UNCHANGED <<objects, svcAddress, ca, remoteAccess, file, release, charts,
                 procVars, errors, at, localVars, pluginPc>>

\* Labels that other managers wrote stay: loadBalancer and prometheus were
\* patched in.  A terminating namespace takes the labels as well.
ApplyNamespace(c) ==
  /\ pc[c] = "namespace"
  /\ phase' = IF phase = "none" THEN "active" ELSE phase
  /\ labels' = [labels EXCEPT !.network = network[c]]
  /\ Goto(c, "service")
  /\ UNCHANGED <<objects, svcAddress, ca, remoteAccess, file, release, charts,
                 procVars, errors, at, localVars, pluginPc>>

ApplyService(c) ==
  /\ pc[c] = "service"
  /\ Accepted("service/kube-apiserver")
  /\ objects' = objects \cup {"service/kube-apiserver"}
  /\ svcAddress' = IF "service/kube-apiserver" \in objects THEN svcAddress
                   ELSE NoAddress
  /\ Goto(c, "await")
  /\ UNCHANGED <<phase, labels, ca, remoteAccess, file, release, charts,
                 procVars, errors, at, localVars, pluginPc>>

\* The address is polled by a goroutine once a second; the handler waits for
\* it.  "waiting" means that it was asked for in vain.
Polling(c) == pc[c] \in {"await", "waiting"}

PollAddress(c) ==
  /\ Polling(c)
  /\ "service/kube-apiserver" \in objects
  /\ svcAddress # NoAddress
  /\ lbAddr' = [lbAddr EXCEPT ![c] = svcAddress]
  /\ Goto(c, "patch")
  /\ UNCHANGED <<hostVars, procVars, errors, at, network, clusterCa, pluginPc>>

\* Faulty variant: an address that is there is not seen.
PollInVain_Always(c) ==
  /\ pc[c] = "await"
  /\ "service/kube-apiserver" \in objects
  /\ Goto(c, "waiting")
  /\ UNCHANGED <<hostVars, procVars, errors, at, localVars, pluginPc>>

PollInVain(c) ==
  /\ pc[c] = "await"
  /\ "service/kube-apiserver" \in objects
  /\ svcAddress = NoAddress
  /\ Goto(c, "waiting")
  /\ UNCHANGED <<hostVars, procVars, errors, at, localVars, pluginPc>>

\* A Service it cannot read makes the goroutine panic: gin does not recover
\* that one.
PollFails(c) ==
  /\ Polling(c)
  /\ \/ "service/kube-apiserver" \notin objects /\ NoCallFails
     \/ CallFails
  /\ ProcessDies
  /\ UNCHANGED <<hostVars, crashes, historyVars, at, localVars>>

\* Faulty variant: the goroutine forgets to return after the timeout.
PollTimesOut_GoesOn(c, serviceGone, namespaceGone) ==
  /\ pc[c] = "waiting"
  /\ IF serviceGone /\ namespaceGone THEN NoCallFails ELSE CallFails
  /\ objects' = IF serviceGone THEN objects \ {"service/kube-apiserver"}
                ELSE objects
  /\ phase' = IF namespaceGone /\ phase = "active" THEN "terminating"
              ELSE phase
  /\ UNCHANGED <<labels, svcAddress, ca, remoteAccess, file, release, charts,
                 procVars, pc, at, localVars, pluginPc>>

\* Faulty variant: the address is waited for without a timeout.
PollTimesOut_Never(c, serviceGone, namespaceGone) == FALSE

\* After two minutes without an address the Service and the namespace are
\* deleted, also when the address came after the last poll.  The handler goes
\* on all the same: nobody looks at its err.
PollTimesOut(c, serviceGone, namespaceGone) ==
  /\ pc[c] = "waiting"
  /\ IF serviceGone /\ namespaceGone THEN NoCallFails ELSE CallFails
  /\ objects' = IF serviceGone THEN objects \ {"service/kube-apiserver"}
                ELSE objects
  /\ phase' = IF namespaceGone /\ phase = "active" THEN "terminating"
              ELSE phase
  /\ Goto(c, "patch")
  /\ UNCHANGED <<labels, svcAddress, ca, remoteAccess, file, release, charts,
                 procVars, at, localVars, pluginPc>>

\* The error of the patch is dropped.
PatchLoadBalancer(c, patched) ==
  /\ pc[c] = "patch"
  /\ patched => phase # "none"
  /\ IF patched = (phase # "none") THEN NoCallFails ELSE CallFails
  /\ labels' = IF patched THEN [labels EXCEPT !.loadBalancer = lbAddr[c]]
               ELSE labels
  /\ Goto(c, "get-ca")
  /\ UNCHANGED <<phase, objects, svcAddress, ca, remoteAccess, file, release,
                 charts, procVars, at, localVars, pluginPc>>

\* Faulty variant: new certificates for every create.
GetCa_Never(c) ==
  /\ pc[c] = "get-ca"
  /\ Goto(c, "generate-ca")
  /\ UNCHANGED <<hostVars, procVars, errors, at, localVars, pluginPc>>

\* Certificates that are there are kept.  Any error of the read counts as
\* "not there".
GetCa(c) ==
  /\ pc[c] = "get-ca"
  /\ \/ /\ "configmap/cluster-ca" \in objects
        /\ clusterCa' = [clusterCa EXCEPT ![c] = ca]
        /\ Goto(c, "kubeconfig")
        /\ NoCallFails
     \/ /\ IF "configmap/cluster-ca" \in objects THEN CallFails ELSE NoCallFails
        /\ Goto(c, "generate-ca")
        /\ UNCHANGED clusterCa
  /\ UNCHANGED <<hostVars, procVars, at, network, lbAddr, pluginPc>>

\* Generating two dozen keys takes seconds; then they are applied over
\* whatever is there by now.
GenerateCa(c) ==
  /\ pc[c] = "generate-ca"
  /\ Accepted("configmap/cluster-ca")
  /\ ca' = [by |-> c, san |-> lbAddr[c]]
  /\ clusterCa' = [clusterCa EXCEPT ![c] = ca']
  /\ objects' = objects \cup {"configmap/cluster-ca"}
  /\ Goto(c, "kubeconfig")
  /\ UNCHANGED <<phase, labels, svcAddress, remoteAccess, file, release,
                 charts, procVars, errors, at, network, lbAddr, pluginPc>>

\* What kubeconfigs are made of.
Kubeconfig(c) == [ca |-> clusterCa[c], host |-> lbAddr[c]]

\* Faulty variant: a kubeconfig file that is there is kept.
WriteKubeconfig_Once(c, written) ==
  /\ pc[c] = "kubeconfig"
  /\ written /\ NoCallFails
  /\ file' = IF "file" \in objects THEN file ELSE Kubeconfig(c)
  /\ objects' = objects \cup {"file"}
  /\ Goto(c, "remote-access")
  /\ UNCHANGED <<phase, labels, svcAddress, ca, remoteAccess, release, charts,
                 procVars, at, localVars, pluginPc>>

\* The error of the write is dropped: the file is as it was, or empty.
WriteKubeconfig(c, written) ==
  /\ pc[c] = "kubeconfig"
  /\ IF written THEN NoCallFails ELSE CallFails
  /\ \/ /\ file' = IF written THEN Kubeconfig(c) ELSE NoKubeconfig
        /\ objects' = objects \cup {"file"}
     \/ ~written /\ UNCHANGED <<file, objects>>
  /\ Goto(c, "remote-access")
  /\ UNCHANGED <<phase, labels, svcAddress, ca, remoteAccess, release, charts,
                 procVars, at, localVars, pluginPc>>

\* The error of this apply is dropped.
ApplyRemoteAccess(c, applied) ==
  /\ pc[c] = "remote-access"
  /\ applied => Accepted("configmap/remote-access")
  /\ IF applied = Accepted("configmap/remote-access") THEN NoCallFails
     ELSE CallFails
  /\ IF applied
     THEN /\ remoteAccess' = Kubeconfig(c)
          /\ objects' = objects \cup {"configmap/remote-access"}
     ELSE UNCHANGED <<remoteAccess, objects>>
  /\ at' = [at EXCEPT ![c] = 1]
  /\ Goto(c, "apply")
  /\ UNCHANGED <<phase, labels, svcAddress, ca, file, release, charts,
                 procVars, localVars, pluginPc>>

\* One apply after the other.
ApplyControlPlane(c) ==
  /\ pc[c] = "apply"
  /\ Accepted(CreateOrder[at[c]])
  /\ objects' = objects \cup {CreateOrder[at[c]]}
  /\ IF at[c] < Len(CreateOrder)
     THEN at' = [at EXCEPT ![c] = @ + 1] /\ UNCHANGED pc
     ELSE at' = [at EXCEPT ![c] = 1] /\ Goto(c, "log")
  /\ UNCHANGED <<phase, labels, svcAddress, ca, remoteAccess, file, release,
                 charts, procVars, errors, localVars, pluginPc>>

\* Any apply of the above that is refused ends the request with a panic.
CreateRefused(c) ==
  \/ pc[c] = "service" /\ ~Accepted("service/kube-apiserver")
  \/ pc[c] = "generate-ca" /\ ~Accepted("configmap/cluster-ca")
  \/ pc[c] = "apply" /\ ~Accepted(CreateOrder[at[c]])

CreateFails(c) ==
  /\ pc[c] \in {"namespace", "service", "generate-ca", "apply"}
  /\ CallFails \/ (CreateRefused(c) /\ NoCallFails)
  /\ Fails(c)

\* The handler answers and leaves the plugins to a goroutine.
Answer(c) ==
  /\ Goto(c, "answered")
  /\ pluginPc' = [pluginPc EXCEPT ![c] = "wait"]

\* controlLog: cluster-scoped, so no namespace is in its way.
ControlLog(c) ==
  /\ pc[c] = "log"
  /\ objects' = objects \cup {LogOrder[at[c]]}
  /\ IF at[c] < Len(LogOrder)
     THEN at' = [at EXCEPT ![c] = @ + 1] /\ UNCHANGED <<pc, pluginPc>>
     ELSE UNCHANGED at /\ Answer(c)
  /\ UNCHANGED <<phase, labels, svcAddress, ca, remoteAccess, file, release,
                 charts, procVars, errors, localVars>>

ControlLogFails(c) ==
  /\ pc[c] = "log"
  /\ CallFails
  /\ Answer(c)
  /\ UNCHANGED <<hostVars, procVars, at, localVars>>

CreateStep(c) ==
  \/ ApplyNamespace(c)
  \/ ApplyService(c)
  \/ PollAddress(c)
  \/ PollInVain(c)
  \/ PollFails(c)
  \/ \E s, n \in BOOLEAN : PollTimesOut(c, s, n)
  \/ \E p \in BOOLEAN : PatchLoadBalancer(c, p)
  \/ GetCa(c)
  \/ GenerateCa(c)
  \/ \E w \in BOOLEAN : WriteKubeconfig(c, w)
  \/ \E a \in BOOLEAN : ApplyRemoteAccess(c, a)
  \/ ApplyControlPlane(c)
  \/ CreateFails(c)
  \/ ControlLog(c)
  \/ ControlLogFails(c)

-----------------------------------------------------------------------------
(* The plugin goroutine, for up to 15 minutes after the answer.            *)

\* It asks for the Deployments by name, whoever created them.
PluginReady(c) ==
  /\ pluginPc[c] = "wait"
  /\ {"deployment/kube-scheduler", "deployment/kube-controller-manager"}
       \subseteq objects
  /\ pluginPc' = [pluginPc EXCEPT ![c] = "network"]
  /\ UNCHANGED <<hostVars, procVars, errors, pc, at, localVars>>

PluginTimesOut(c) ==
  /\ pluginPc[c] = "wait"
  /\ pluginPc' = [pluginPc EXCEPT ![c] = "done"]
  /\ UNCHANGED <<hostVars, procVars, errors, pc, at, localVars>>

\* The network chart goes where the kubeconfig file leads; errors are only
\* logged.
InstallNetwork(c, installed) ==
  /\ pluginPc[c] = "network"
  /\ installed => FileReachesCluster
  /\ IF installed = FileReachesCluster THEN NoCallFails ELSE CallFails
  /\ charts' = IF installed /\ network[c] # NoNetwork
               THEN charts \cup {network[c]} ELSE charts
  /\ pluginPc' = [pluginPc EXCEPT ![c] = "exporter"]
  /\ UNCHANGED <<phase, labels, objects, svcAddress, ca, remoteAccess, file,
                 release, procVars, pc, at, localVars>>

\* The event exporter goes into the namespace, which Helm creates when it is
\* not there.  A deployed release is not replaced, a failed one is.
InstallExporter(c) ==
  /\ pluginPc[c] = "exporter"
  /\ IF release = "deployed"
     THEN UNCHANGED <<phase, objects, release, revived, alone>>
     ELSE IF phase = "terminating"
          THEN /\ release' = "failed"
               /\ UNCHANGED <<phase, objects, revived, alone>>
          ELSE /\ phase' = "active"
               /\ objects' = objects \cup {"event-exporter"}
               /\ release' = "deployed"
               /\ revived' = (revived \/ phase = "none")
               /\ alone' = IF phase = "none" THEN NoOne ELSE alone
  /\ pluginPc' = [pluginPc EXCEPT ![c] = "done"]
  /\ UNCHANGED <<labels, svcAddress, ca, remoteAccess, file, charts, up,
                 crashes, overtaken, faults, errors, pc, at, localVars>>

ExporterFails(c) ==
  /\ pluginPc[c] = "exporter"
  /\ CallFails
  /\ release' \in {release, IF release = "deployed" THEN release ELSE "failed"}
  /\ pluginPc' = [pluginPc EXCEPT ![c] = "done"]
  /\ UNCHANGED <<phase, labels, objects, svcAddress, ca, remoteAccess, file,
                 charts, procVars, pc, at, localVars>>

PluginStep(c) ==
  \/ PluginReady(c)
  \/ PluginTimesOut(c)
  \/ \E i \in BOOLEAN : InstallNetwork(c, i)
  \/ InstallExporter(c)
  \/ ExporterFails(c)

-----------------------------------------------------------------------------
(* ClusterDelete.                                                          *)

ClusterDelete(d) ==
  /\ MaySend(d)
  /\ Sent(d)
  /\ Goto(d, "get")
  /\ UNCHANGED <<hostVars, up, crashes, errors, at, localVars, pluginPc>>

\* The label alone decides whether there is monitoring to take down.
GetCluster(d) ==
  /\ pc[d] = "get"
  /\ phase # "none"
  /\ at' = [at EXCEPT ![d] = IF labels.monitored THEN 1 ELSE AfterMonitoring]
  /\ Goto(d, "delete")
  /\ UNCHANGED <<hostVars, procVars, errors, localVars, pluginPc>>

GetClusterFails(d) ==
  /\ pc[d] = "get"
  /\ CallFails \/ (phase = "none" /\ NoCallFails)
  /\ Fails(d)

AtStep(d, o) == pc[d] = "delete" /\ DeleteOrder[at[d]] = o

NextDelete(d) ==
  IF at[d] < Len(DeleteOrder)
  THEN at' = [at EXCEPT ![d] = @ + 1] /\ UNCHANGED pc
  ELSE UNCHANGED at /\ Goto(d, "answered")

\* Errors are dropped: an object that could not be deleted stays.
DeleteObject(d, deleted) ==
  /\ pc[d] = "delete"
  /\ DeleteOrder[at[d]] \in Objects
  /\ IF deleted THEN NoCallFails ELSE CallFails
  /\ objects' = IF deleted THEN objects \ {DeleteOrder[at[d]]} ELSE objects
  /\ NextDelete(d)
  /\ UNCHANGED <<phase, labels, svcAddress, ca, remoteAccess, file, release,
                 charts, procVars, localVars, pluginPc>>

PluginAtWork == \E c \in Creates : pluginPc[c] \in PluginSteps

\* Faulty variant: the release is looked for by the name of its chart, as
\* Install does, and never found.
UninstallRelease_ByChart(d, uninstalled) ==
  /\ AtStep(d, "release")
  /\ NoCallFails
  /\ overtaken' = PluginAtWork
  /\ NextDelete(d)
  /\ UNCHANGED <<hostVars, up, crashes, revived, alone, faults, localVars,
                 pluginPc>>

\* A release that is found is uninstalled, with what it deployed.  A plugin
\* goroutine at work may install it after that.
UninstallRelease(d, uninstalled) ==
  /\ AtStep(d, "release")
  /\ IF uninstalled THEN NoCallFails ELSE CallFails
  /\ IF uninstalled /\ release # "none"
     THEN release' = "none" /\ objects' = objects \ {"event-exporter"}
     ELSE UNCHANGED <<release, objects>>
  /\ overtaken' = PluginAtWork
  /\ NextDelete(d)
  /\ UNCHANGED <<phase, labels, svcAddress, ca, remoteAccess, file, charts,
                 up, crashes, revived, alone, faults, localVars, pluginPc>>

\* An uninstall that returns an error without a result: logging it panics.
UninstallPanics(d) ==
  /\ AtStep(d, "release")
  /\ release # "none"
  /\ CallFails
  /\ Fails(d)

DeleteNamespace(d, deleted) ==
  /\ AtStep(d, "namespace")
  /\ IF deleted THEN NoCallFails ELSE CallFails
  /\ phase' = IF deleted /\ phase = "active" THEN "terminating" ELSE phase
  /\ NextDelete(d)
  /\ UNCHANGED <<labels, objects, svcAddress, ca, remoteAccess, file, release,
                 charts, procVars, localVars, pluginPc>>

DeleteStep(d) ==
  \/ GetCluster(d)
  \/ GetClusterFails(d)
  \/ \E ok \in BOOLEAN : \/ DeleteObject(d, ok)
                         \/ UninstallRelease(d, ok)
                         \/ DeleteNamespace(d, ok)
  \/ UninstallPanics(d)

-----------------------------------------------------------------------------
(* ClusterMonitor.                                                         *)

ClusterMonitor(m) ==
  /\ MaySend(m)
  /\ Sent(m)
  /\ Goto(m, "install")
  /\ UNCHANGED <<hostVars, up, crashes, errors, at, localVars, pluginPc>>

\* The chart and a token in the managed cluster come first.
InstallPrometheus(m) ==
  /\ pc[m] = "install"
  /\ FileReachesCluster
  /\ at' = [at EXCEPT ![m] = 1]
  /\ Goto(m, "monitor")
  /\ UNCHANGED <<hostVars, procVars, errors, localVars, pluginPc>>

\* Cluster-scoped objects are never refused for the namespace's sake.
MonitorAccepted(o) == o \in Outside \/ Accepted(o)

NextMonitor(m) ==
  IF at[m] < Len(MonitorOrder)
  THEN at' = [at EXCEPT ![m] = @ + 1] /\ UNCHANGED pc
  ELSE UNCHANGED at /\ Goto(m, "label")

ApplyMonitoring(m) ==
  /\ pc[m] = "monitor"
  /\ MonitorAccepted(MonitorOrder[at[m]])
  /\ objects' = objects \cup {MonitorOrder[at[m]]}
  /\ NextMonitor(m)
  /\ UNCHANGED <<phase, labels, svcAddress, ca, remoteAccess, file, release,
                 charts, procVars, errors, localVars, pluginPc>>

\* The errors of the last three applies are dropped.  The Deployment mounts
\* the ConfigMap by the name its apply returned: without one it is refused, too.
MonitoringRefused(m) ==
  /\ pc[m] = "monitor"
  /\ at[m] > MonitorChecked
  /\ IF MonitorAccepted(MonitorOrder[at[m]]) THEN CallFails ELSE NoCallFails
  /\ IF MonitorOrder[at[m]] = "configmap/prometheus"
     THEN at' = [at EXCEPT ![m] = @ + 2] /\ UNCHANGED pc
     ELSE NextMonitor(m)
  /\ UNCHANGED <<hostVars, procVars, localVars, pluginPc>>

\* The managed cluster may not answer yet.
MonitorFails(m) ==
  /\ \/ pc[m] = "install" /\ NoCallFails
     \/ /\ pc[m] = "monitor"
        /\ at[m] <= MonitorChecked
        /\ CallFails \/ (~MonitorAccepted(MonitorOrder[at[m]]) /\ NoCallFails)
  /\ Fails(m)

PatchMonitored(m, patched) ==
  /\ pc[m] = "label"
  /\ patched => phase # "none"
  /\ IF patched = (phase # "none") THEN NoCallFails ELSE CallFails
  /\ labels' = [labels EXCEPT !.monitored = @ \/ patched]
  /\ Goto(m, "answered")
  /\ UNCHANGED <<phase, objects, svcAddress, ca, remoteAccess, file, release,
                 charts, procVars, at, localVars, pluginPc>>

MonitorStep(m) ==
  \/ InstallPrometheus(m)
  \/ ApplyMonitoring(m)
  \/ MonitoringRefused(m)
  \/ MonitorFails(m)
  \/ \E p \in BOOLEAN : PatchMonitored(m, p)

-----------------------------------------------------------------------------

Operator ==
  \/ \E c \in Creates, n \in Networks : ClusterCreate(c, n)
  \/ \E d \in Deletes : ClusterDelete(d)
  \/ \E m \in Monitors : ClusterMonitor(m)

Next ==
  \/ Operator
  \/ \E c \in Creates : CreateStep(c) \/ PluginStep(c)
  \/ \E d \in Deletes : DeleteStep(d)
  \/ \E m \in Monitors : MonitorStep(m)
  \/ NamespaceFinalized
  \/ AddressAssigned
  \/ Crash
  \/ Restart

Spec == Init /\ [][Next]_vars

\* Every call returns, the wait for an address and the wait for the cluster
\* have timeouts, the kubelet restarts the process and the namespace
\* controller does its work.  Operators, crashes and the load balancer owe
\* nothing.
Fairness ==
  /\ \A c \in Creates : WF_vars(CreateStep(c)) /\ WF_vars(PluginStep(c))
  /\ \A d \in Deletes : WF_vars(DeleteStep(d))
  /\ \A m \in Monitors : WF_vars(MonitorStep(m))
  /\ WF_vars(NamespaceFinalized)
  /\ WF_vars(Restart)

FairSpec == Spec /\ Fairness

-----------------------------------------------------------------------------
(* Properties.                                                             *)

\* Nobody is waiting for an answer.
AllAnswered == \A r \in Requests : pc[r] \in Resting

\* Everything ClusterCreate is there for.
Complete == Elements(CreateOrder) \subseteq objects

\* The kubeconfigs that kok and the console give to users and nodes.
HandedOut ==
  (IF "file" \in objects THEN {file} ELSE {}) \cup
  (IF "configmap/remote-access" \in objects THEN {remoteAccess} ELSE {})

\* The certificates that create, and all who read the ConfigMap, find.
Identity == IF "configmap/cluster-ca" \in objects THEN ca ELSE NoCa

\* The cluster as its users see it.
Lives == INSTANCE ClusterLives
  WITH identity <- Identity, handed <- HandedOut, serving <- Complete

(***************************************************************************)
(* With requests sent one at a time, however often they are killed and     *)
(* sent again, creates, monitoring and deletes are steps of ClusterLives:  *)
(* a create over a cluster that serves disturbs neither its certificates   *)
(* nor the kubeconfigs handed out and does not give its namespace up for   *)
(* want of an address; a delete makes it stop serving before it takes any  *)
(* of that away.                                                           *)
(***************************************************************************)
ImplementsLives ==
  /\ Lives!Init
  /\ [][ Serial /\ errors' = 0 /\ ~revived'
           => Lives!Next \/ UNCHANGED Lives!vars ]_vars

(***************************************************************************)
(* Certificates, once stored, are not replaced while they are there, if    *)
(* requests are sent one at a time and no call fails: sending a create     *)
(* again, or after one that crashed anywhere, must not cut off the nodes   *)
(* and users who hold kubeconfigs of the old ones.  (A read of cluster-ca  *)
(* that fails, or a second create, does replace them.)                     *)
(***************************************************************************)
CertificatesKept ==
  [][ /\ Serial /\ errors = 0 /\ ~revived
      /\ "configmap/cluster-ca" \in objects \cap objects'
      => ca' = ca ]_vars

(***************************************************************************)
(* Whatever crashed and was retried, a cluster that is complete hands out  *)
(* one set of certificates and one address: the file kok itself uses, the  *)
(* ConfigMap remote-access and the label the console shows agree with the  *)
(* Service and with cluster-ca.                                            *)
(***************************************************************************)
CompleteClusterAgrees ==
  Serial /\ errors = 0 /\ ~revived /\ Complete =>
    /\ {"file", "configmap/remote-access", "configmap/cluster-ca",
        "service/kube-apiserver"} \subseteq objects
    /\ file = [ca |-> ca, host |-> svcAddress]
    /\ remoteAccess = file
    /\ labels.loadBalancer = svcAddress

(***************************************************************************)
(* Sending a create again puts a cluster right, whatever became of the     *)
(* requests before it: kills, failing calls, certificates that were        *)
(* replaced under their users, two creates or a create and a delete over   *)
(* each other.  If nobody else is at work and no call fails while it is,   *)
(* and the namespace stays, then what it leaves when it is answered is     *)
(* complete and agrees with itself.                                        *)
(***************************************************************************)
LoneCreateHeals ==
  /\ alone \in Creates /\ pc[alone] = "answered"
  /\ errors + crashes = faults
  /\ phase = "active"
  => /\ Complete
     /\ {"file", "configmap/remote-access", "configmap/cluster-ca",
         "service/kube-apiserver"} \subseteq objects
     /\ file = [ca |-> ca, host |-> svcAddress]
     /\ remoteAccess = file
     /\ labels.loadBalancer = svcAddress

(***************************************************************************)
(* At every step of a create, of a delete and after a crash in either, the *)
(* Pods of every workload there is find all that they refer to: a Pod that *)
(* is rescheduled half way through is not stuck in ContainerCreating.      *)
(***************************************************************************)
NeedsPresent ==
  Serial /\ errors = 0 /\ ~revived =>
    /\ "statefulset/etcd" \in objects => EtcdNeeds \subseteq objects
    /\ "deployment/kube-apiserver" \in objects
         => ApiserverNeeds \subseteq objects
    /\ "deployment/kube-controller-manager" \in objects
         => ControllerManagerNeeds \subseteq objects
    /\ "deployment/kube-scheduler" \in objects
         => SchedulerNeeds \subseteq objects
    /\ "deployment/prometheus" \in objects
         => PrometheusNeeds \subseteq objects

(***************************************************************************)
(* Once the namespace of a cluster is gone and no request is at work,      *)
(* nothing outside it remembers the cluster, whether it was deleted, or    *)
(* given up for want of an address, whatever was monitored in between and  *)
(* whichever creates were killed.  Two things must not have happened: a    *)
(* delete or a monitoring request that was killed (nobody comes back to    *)
(* what it left), and a delete that looked for the Helm release while a    *)
(* plugin goroutine was at work: that one may install the release between  *)
(* this look and the end of the namespace, and it stays, in kube-system.   *)
(***************************************************************************)
GoneLeavesNothing ==
  /\ Serial /\ errors = 0 /\ ~revived /\ ~overtaken
  /\ \A r \in Deletes \cup Monitors : pc[r] # "lost"
  /\ AllAnswered
  /\ phase = "none"
  => objects = {} /\ release = "none"

(***************************************************************************)
(* As long as no call fails, requests sent one at a time do not bring the  *)
(* process down: the timeout of the address poll deletes the Service the   *)
(* poll reads, and must end it.  (A read that fails for a reason of its    *)
(* own panics in that goroutine with one request, too.)                    *)
(***************************************************************************)
OnlyKillsStopKok == Serial /\ errors = 0 /\ ~revived /\ crashes = 0 => up

(***************************************************************************)
(* A create that was sent is answered, fails or is lost with the process,  *)
(* although the load balancer may never come up with an address.           *)
(***************************************************************************)
CreateEnds ==
  \A c \in Creates : (pc[c] = "namespace") ~> (pc[c] \in Resting)

(***************************************************************************)
(* A cluster whose deletion was reported (templates/cluster.html:751) is   *)
(* there again only when somebody creates it.                              *)
(***************************************************************************)
DeletedStaysGone ==
  [][ phase = "none" /\ phase' # "none"
        => \E c \in Creates : pc[c] = "namespace" ]_vars

=============================================================================
