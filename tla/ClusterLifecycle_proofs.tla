----------------------- MODULE ClusterLifecycle_proofs -----------------------
(***************************************************************************)
(* Proofs about ClusterLifecycle, for any number of requests and any       *)
(* bounds: what a create, a delete and their retries promise when they are *)
(* sent one at a time and no call fails for a reason of its own.           *)
(*                                                                         *)
(* The argument is one invariant.  Between its calls a create in an active *)
(* namespace has in place what its earlier calls wrote (CreateInv); once   *)
(* the namespace is not active any more, an apply changes nothing that is  *)
(* not there already.  A delete has taken away what it has passed          *)
(* (DeleteInv).  The scheduler is put up last and taken down first, so     *)
(* while it is there the contents agree (AgreeInv).  As the Service goes   *)
(* before the namespace does (ServiceInv), nobody polls for the address of *)
(* a Service that is gone.  What is not in the namespace outlives it and   *)
(* has an invariant of its own (LeftoverInv).                              *)
(***************************************************************************)
EXTENDS ClusterLifecycle, TLAPS

\* A request in the middle of its list is inside the list.
AtInBounds ==
  \A r \in Requests :
    /\ pc[r] = "apply" => at[r] \in 1..Len(CreateOrder)
    /\ pc[r] = "log" => at[r] \in 1..Len(LogOrder)
    /\ pc[r] = "delete" => at[r] \in 1..Len(DeleteOrder)
    /\ pc[r] = "monitor" => at[r] \in 1..Len(MonitorOrder)

\* Operators that wait for answers have at most one request at work.
OneAtWork ==
  Serial => \A q, r \in Requests :
              pc[q] \notin Resting /\ pc[r] \notin Resting => q = r

ShapeInv == TypeOK /\ AtInBounds /\ OneAtWork

\* What the properties are stated for.
Calm == Serial /\ errors = 0 /\ ~revived

AfterPoll == {"patch", "get-ca", "generate-ca", "kubeconfig",
              "remote-access", "apply"}

\* The Service goes before the namespace does, and a workload that was told
\* its address has one.
ServiceInv ==
  /\ phase # "active" => "service/kube-apiserver" \notin objects
  /\ \/ "deployment/kube-controller-manager" \in objects
     \/ "deployment/kube-scheduler" \in objects
     => svcAddress # NoAddress

\* The scheduler is the last object a create applies and the first a delete
\* removes: while it is there, everything agrees.
AgreeInv ==
  "deployment/kube-scheduler" \in objects =>
    /\ {"file", "configmap/remote-access"} \subseteq objects
    /\ file = [ca |-> ca, host |-> svcAddress]
    /\ remoteAccess = file
    /\ labels.loadBalancer = svcAddress

\* A create in an active namespace has what its earlier calls wrote; in one
\* that is not it changes nothing any more.
CreateInv ==
  \A c \in Creates :
    /\ Polling(c) => phase = "active" /\ "service/kube-apiserver" \in objects
    /\ pc[c] = "waiting" =>
         /\ "deployment/kube-controller-manager" \notin objects
         /\ "deployment/kube-scheduler" \notin objects
    /\ pc[c] = "generate-ca" => "configmap/cluster-ca" \notin objects
    /\ pc[c] \in AfterPoll /\ phase = "active" =>
         /\ "service/kube-apiserver" \in objects
         /\ svcAddress # NoAddress /\ lbAddr[c] = svcAddress
         /\ pc[c] # "patch" => labels.loadBalancer = svcAddress
         /\ pc[c] \in {"kubeconfig", "remote-access", "apply"} =>
              "configmap/cluster-ca" \in objects /\ clusterCa[c] = ca
         /\ pc[c] \in {"remote-access", "apply"} =>
              "file" \in objects /\ file = [ca |-> ca, host |-> svcAddress]
         /\ pc[c] = "apply" =>
              /\ "configmap/remote-access" \in objects
              /\ remoteAccess = file
              /\ \A k \in 1..(at[c] - 1) : CreateOrder[k] \in objects

\* A delete has removed the workloads it has passed.
DeleteInv ==
  \A d \in Deletes : pc[d] = "delete" =>
    /\ at[d] \in 2..6 => "deployment/prometheus" \notin objects
    /\ at[d] > 8 => "deployment/kube-scheduler" \notin objects
    /\ at[d] > 9 => "deployment/kube-controller-manager" \notin objects
    /\ at[d] > 10 => "deployment/kube-apiserver" \notin objects
    /\ at[d] > 11 => "statefulset/etcd" \notin objects
    /\ at[d] > 12 => "service/kube-apiserver" \notin objects

\* Monitoring is set up in an active namespace, what Prometheus mounts first.
MonitorInv ==
  \A m \in Monitors : pc[m] = "monitor" =>
    /\ phase = "active"
    /\ at[m] > 1 => "serviceaccount/prometheus" \in objects
    /\ at[m] = 5 => "configmap/prometheus" \in objects

HostInv == NeedsPresent /\ ServiceInv /\ AgreeInv

CalmBody ==
  /\ HostInv
  /\ CreateInv
  /\ DeleteInv
  /\ MonitorInv
  /\ crashes = 0 => up

LifecycleInv == ShapeInv /\ (Calm => CalmBody)

-----------------------------------------------------------------------------
(* The orders.                                                             *)

\* How long the lists of calls are.
LEMMA Lengths ==
  /\ Len(CreateOrder) = 12
  /\ Len(LogOrder) = 2
  /\ Len(MonitorOrder) = 6
  /\ Len(DeleteOrder) = 26
  BY DEF CreateOrder, LogOrder, MonitorOrder, DeleteOrder

\* The lists name objects of the cluster.
LEMMA OrdersAreObjects ==
  /\ \A k \in 1..12 : CreateOrder[k] \in Objects
  /\ \A k \in 1..2 : LogOrder[k] \in Objects
  /\ \A k \in 1..6 : MonitorOrder[k] \in Objects
  BY Lengths DEF Objects, Elements

\* Where ClusterCreate puts up a workload, and what it has put up by then.
LEMMA CreatePositions ==
  /\ CreateOrder[1] = "serviceaccount/etcd"
  /\ CreateOrder[2] = "role/etcd"
  /\ CreateOrder[3] = "rolebinding/etcd"
  /\ CreateOrder[4] = "service/etcd"
  /\ CreateOrder[6] = "configmap/kube-apiserver"
  /\ CreateOrder[8] = "configmap/kubeconfig"
  /\ \A k \in 1..12 :
       /\ CreateOrder[k] = "statefulset/etcd" => k = 5
       /\ CreateOrder[k] = "deployment/kube-apiserver" => k = 7
       /\ CreateOrder[k] = "deployment/kube-controller-manager" => k = 10
       /\ CreateOrder[k] = "deployment/kube-scheduler" => k = 12
       /\ CreateOrder[k] # "deployment/prometheus"
  BY DEF CreateOrder

\* controlLog applies two objects, both outside the namespace.
LEMMA LogPositions ==
  \A k \in 1..2 : LogOrder[k] \in {"clusteroutput", "clusterfluentdconfig"}
  BY DEF LogOrder

\* Where ClusterMonitor applies what Prometheus mounts.
LEMMA MonitorPositions ==
  /\ MonitorOrder[1] = "serviceaccount/prometheus"
  /\ MonitorOrder[4] = "configmap/prometheus"
  /\ \A k \in 1..6 :
       /\ MonitorOrder[k] = "deployment/prometheus" => k = 5
       /\ MonitorOrder[k] = "configmap/prometheus" => k = 4
       /\ MonitorOrder[k] \notin {"statefulset/etcd",
            "deployment/kube-apiserver", "deployment/kube-controller-manager",
            "deployment/kube-scheduler", "service/kube-apiserver"}
  BY DEF MonitorOrder

\* ClusterDelete removes a workload before anything its Pods refer to.
LEMMA DeletePositions ==
  /\ DeleteOrder[1] = "deployment/prometheus"
  /\ DeleteOrder[8] = "deployment/kube-scheduler"
  /\ DeleteOrder[9] = "deployment/kube-controller-manager"
  /\ DeleteOrder[10] = "deployment/kube-apiserver"
  /\ DeleteOrder[11] = "statefulset/etcd"
  /\ DeleteOrder[12] = "service/kube-apiserver"
  /\ \A k \in 1..26 :
       /\ DeleteOrder[k] \in PrometheusNeeds => k \in 2..6
       /\ DeleteOrder[k] \in EtcdNeeds \cup ApiserverNeeds
            \cup ControllerManagerNeeds \cup SchedulerNeeds => k > 11
       /\ DeleteOrder[k] \in {"file", "configmap/remote-access"} => k > 11
       /\ DeleteOrder[k] = "release" => k = 7
       /\ DeleteOrder[k] = "namespace" => k = 23
  BY DEF DeleteOrder, PrometheusNeeds, EtcdNeeds, ApiserverNeeds,
         ControllerManagerNeeds, SchedulerNeeds

-----------------------------------------------------------------------------
(* Types, positions and the one request at work.                           *)

\* Nobody is at work in the beginning.
LEMMA ShapeInitial == Init => ShapeInv
<1> SUFFICES ASSUME Init
             PROVE  ShapeInv
  OBVIOUS
<1> USE DEF Init
<1>1. TypeOK
  BY DEF TypeOK, NoLabels, NoCa, NoKubeconfig, NoNetwork, AnyAddress,
         Certificates, Kubeconfigs, Resting, PluginResting
<1>2. AtInBounds /\ OneAtWork
  BY DEF AtInBounds, OneAtWork, Resting
<1> QED
  BY <1>1, <1>2 DEF ShapeInv

\* A request at work goes on and the others stay where they are.
LEMMA OneAtWorkKept ==
  ASSUME OneAtWork, NEW r \in Requests, pc[r] \notin Resting,
         \A q \in Requests \ {r} : pc'[q] = pc[q]
  PROVE  OneAtWork'
  BY DEF OneAtWork

\* With the process every request comes to rest.
LEMMA ShapeDies ==
  ASSUME ShapeInv, ProcessDies, crashes' \in Nat, errors' \in Nat,
         UNCHANGED <<hostVars, historyVars, at, localVars>>
  PROVE  ShapeInv'
<1> USE DEF ShapeInv, ProcessDies, hostVars, historyVars, localVars
<1>1. TypeOK'
  BY DEF TypeOK, Resting, PluginResting
<1>2. \A r \in Requests : pc'[r] \in Resting
  BY DEF TypeOK, Resting
<1>3. AtInBounds'
  BY <1>2 DEF AtInBounds, Resting
<1>4. OneAtWork'
  BY <1>2 DEF OneAtWork
<1> QED
  BY <1>1, <1>3, <1>4

\* A handler that panics is at rest.
LEMMA ShapeFails ==
  ASSUME ShapeInv, NEW r \in Requests, pc[r] \notin Resting, Fails(r),
         errors' \in Nat
  PROVE  ShapeInv'
<1> USE DEF ShapeInv, Fails, Goto, hostVars, procVars, localVars
<1>1. TypeOK'
  BY DEF TypeOK, Resting
<1>2. AtInBounds'
  BY DEF TypeOK, AtInBounds
<1>3. OneAtWork'
  BY OneAtWorkKept DEF TypeOK
<1> QED
  BY <1>1, <1>2, <1>3

\* The objects that are applied by name.
LEMMA NamedObjects ==
  {"service/kube-apiserver", "configmap/cluster-ca",
   "configmap/remote-access", "event-exporter", "file"} \subseteq Objects
  BY DEF Objects

\* A step of a create moves that create only, unless it ends the process.
LEMMA CreateFrame ==
  ASSUME TypeOK, NEW c \in Creates, CreateStep(c), ~PollFails(c)
  PROVE  /\ pc[c] \notin Resting
         /\ \A q \in Requests \ {c} : pc'[q] = pc[q]
         /\ UNCHANGED <<up, crashes, revived, alone, faults>>
         /\ errors' \in {errors, errors + 1}
  BY DEF CreateStep, ApplyNamespace, ApplyService, PollAddress, PollInVain,
     PollTimesOut, PatchLoadBalancer, GetCa, GenerateCa, WriteKubeconfig,
     ApplyRemoteAccess, ApplyControlPlane, CreateFails, ControlLog,
     ControlLogFails, Polling, CallFails, NoCallFails, Fails, Answer, Goto,
     procVars, Resting, TypeOK

\* A step of a delete moves that delete only.
LEMMA DeleteFrame ==
  ASSUME TypeOK, NEW d \in Deletes, DeleteStep(d)
  PROVE  /\ pc[d] \notin Resting
         /\ \A q \in Requests \ {d} : pc'[q] = pc[q]
         /\ UNCHANGED <<up, crashes, revived, alone, faults>>
         /\ errors' \in {errors, errors + 1}
  BY DEF DeleteStep, GetCluster, GetClusterFails, DeleteObject,
     UninstallRelease, DeleteNamespace, UninstallPanics, Fails, CallFails,
     NoCallFails, NextDelete, AtStep, Goto, procVars, Resting, TypeOK

\* A step of the monitoring switch moves that request only.
LEMMA MonitorFrame ==
  ASSUME TypeOK, NEW m \in Monitors, MonitorStep(m)
  PROVE  /\ pc[m] \notin Resting
         /\ \A q \in Requests \ {m} : pc'[q] = pc[q]
         /\ UNCHANGED <<up, crashes, revived, alone, faults>>
         /\ errors' \in {errors, errors + 1}
  BY DEF MonitorStep, InstallPrometheus, ApplyMonitoring, MonitoringRefused,
     MonitorFails, PatchMonitored, NextMonitor, CallFails, NoCallFails, Fails,
     Goto, procVars, Resting, TypeOK

\* A create goes through its calls one at a time.
LEMMA ShapeOfCreate ==
  ASSUME ShapeInv, NEW c \in Creates, CreateStep(c)
  PROVE  ShapeInv'
<1> USE DEF Goto, hostVars, procVars, localVars
<1>1. c \in Requests /\ TypeOK /\ AtInBounds /\ OneAtWork
  BY DEF Requests, ShapeInv
<1>2. CASE PollFails(c)
  BY <1>1, <1>2, ShapeDies DEF PollFails, TypeOK, CallFails, NoCallFails
<1>3. ~PollFails(c) => pc[c] \notin Resting /\ OneAtWork'
  BY <1>1, CreateFrame, OneAtWorkKept
<1>4. ASSUME ApplyNamespace(c)
      PROVE  (TypeOK /\ AtInBounds)'
  BY <1>1, <1>4 DEF ApplyNamespace, TypeOK, AtInBounds, CreateSteps
<1>5. ASSUME ApplyService(c)
      PROVE  (TypeOK /\ AtInBounds)'
  BY <1>1, <1>5, NamedObjects
  DEF ApplyService, AnyAddress, TypeOK, AtInBounds, CreateSteps
<1>6. ASSUME PollAddress(c)
      PROVE  (TypeOK /\ AtInBounds)'
  BY <1>1, <1>6 DEF PollAddress, TypeOK, AtInBounds, CreateSteps
<1>7. ASSUME PollInVain(c)
      PROVE  (TypeOK /\ AtInBounds)'
  BY <1>1, <1>7 DEF PollInVain, TypeOK, AtInBounds, CreateSteps
<1>8. ASSUME NEW s \in BOOLEAN, NEW n \in BOOLEAN, PollTimesOut(c, s, n)
      PROVE  (TypeOK /\ AtInBounds)'
  BY <1>1, <1>8
  DEF PollTimesOut, CallFails, NoCallFails, TypeOK, AtInBounds, CreateSteps
<1>9. ASSUME NEW p \in BOOLEAN, PatchLoadBalancer(c, p)
      PROVE  (TypeOK /\ AtInBounds)'
  BY <1>1, <1>9, Lengths
  DEF PatchLoadBalancer, CallFails, NoCallFails, TypeOK, AtInBounds,
      CreateSteps
<1>10. ASSUME GetCa(c)
      PROVE  (TypeOK /\ AtInBounds)'
  BY <1>1, <1>10, Lengths
  DEF GetCa, CallFails, NoCallFails, TypeOK, AtInBounds, CreateSteps
<1>11. ASSUME GenerateCa(c)
      PROVE  (TypeOK /\ AtInBounds)'
  BY <1>1, <1>11, NamedObjects
  DEF GenerateCa, Certificates, TypeOK, AtInBounds, CreateSteps
<1>12. ASSUME NEW w \in BOOLEAN, WriteKubeconfig(c, w)
      PROVE  (TypeOK /\ AtInBounds)'
  <2>1. Kubeconfig(c) \in Kubeconfigs /\ NoKubeconfig \in Kubeconfigs
    BY <1>1 DEF Kubeconfig, NoKubeconfig, NoCa, Kubeconfigs, Certificates,
       AnyAddress, TypeOK
  <2> QED
    BY <1>1, <1>12, <2>1, NamedObjects
    DEF WriteKubeconfig, CallFails, NoCallFails, TypeOK, AtInBounds,
        CreateSteps
<1>13. ASSUME NEW a \in BOOLEAN, ApplyRemoteAccess(c, a)
      PROVE  (TypeOK /\ AtInBounds)'
  BY <1>1, <1>13, NamedObjects, Lengths
  DEF ApplyRemoteAccess, Kubeconfig, CallFails, NoCallFails, Kubeconfigs,
      TypeOK, AtInBounds, CreateSteps
<1>14. ASSUME ApplyControlPlane(c)
      PROVE  (TypeOK /\ AtInBounds)'
  BY <1>1, <1>14, OrdersAreObjects, Lengths
  DEF ApplyControlPlane, TypeOK, AtInBounds, CreateSteps
<1>15. CASE CreateFails(c)
  BY <1>1, <1>15, ShapeFails
  DEF CreateFails, CallFails, NoCallFails, TypeOK, Resting
<1>16. ASSUME ControlLog(c)
      PROVE  (TypeOK /\ AtInBounds)'
  BY <1>1, <1>16, OrdersAreObjects, Lengths
  DEF ControlLog, Answer, TypeOK, AtInBounds, Resting, PluginSteps
<1>17. ASSUME ControlLogFails(c)
      PROVE  (TypeOK /\ AtInBounds)'
  BY <1>1, <1>17
  DEF ControlLogFails, Answer, CallFails, TypeOK, AtInBounds, Resting,
      PluginSteps
<1> QED
  BY <1>2, <1>4, <1>5, <1>6, <1>7, <1>8, <1>9, <1>10, <1>11, <1>12, <1>13,
     <1>14, <1>15, <1>16, <1>17, <1>3 DEF CreateStep, ShapeInv

\* So does a delete.
LEMMA ShapeOfDelete ==
  ASSUME ShapeInv, NEW d \in Deletes, DeleteStep(d)
  PROVE  ShapeInv'
<1> USE DEF Goto, hostVars, procVars, localVars
<1>1. d \in Requests /\ TypeOK /\ AtInBounds /\ OneAtWork
  BY DEF Requests, ShapeInv
<1>2. pc[d] \notin Resting /\ OneAtWork'
  BY <1>1, DeleteFrame, OneAtWorkKept
<1>3. ASSUME GetCluster(d)
      PROVE  (TypeOK /\ AtInBounds)'
  BY <1>1, <1>3, Lengths
  DEF GetCluster, AfterMonitoring, TypeOK, AtInBounds, DeleteSteps
<1>4. CASE GetClusterFails(d)
  BY <1>1, <1>4, ShapeFails
  DEF GetClusterFails, CallFails, NoCallFails, TypeOK, Resting
<1>5. ASSUME NEW ok \in BOOLEAN, DeleteObject(d, ok)
      PROVE  (TypeOK /\ AtInBounds)'
  BY <1>1, <1>5, Lengths
  DEF DeleteObject, NextDelete, CallFails, NoCallFails, TypeOK, AtInBounds,
      Resting
<1>6. ASSUME NEW ok \in BOOLEAN, UninstallRelease(d, ok)
      PROVE  (TypeOK /\ AtInBounds)'
  BY <1>1, <1>6, Lengths
  DEF UninstallRelease, PluginAtWork, AtStep, NextDelete, CallFails,
      NoCallFails, TypeOK, AtInBounds, Resting
<1>7. ASSUME NEW ok \in BOOLEAN, DeleteNamespace(d, ok)
      PROVE  (TypeOK /\ AtInBounds)'
  BY <1>1, <1>7, Lengths
  DEF DeleteNamespace, AtStep, NextDelete, CallFails, NoCallFails, TypeOK,
      AtInBounds, Resting
<1>8. CASE UninstallPanics(d)
  BY <1>1, <1>8, ShapeFails
  DEF UninstallPanics, AtStep, CallFails, TypeOK, Resting
<1> QED
  BY <1>3, <1>4, <1>5, <1>6, <1>7, <1>8, <1>2 DEF DeleteStep, ShapeInv

\* And the monitoring switch.
LEMMA ShapeOfMonitor ==
  ASSUME ShapeInv, NEW m \in Monitors, MonitorStep(m)
  PROVE  ShapeInv'
<1> USE DEF Goto, hostVars, procVars, localVars
<1>1. m \in Requests /\ TypeOK /\ AtInBounds /\ OneAtWork
  BY DEF Requests, ShapeInv
<1>2. pc[m] \notin Resting /\ OneAtWork'
  BY <1>1, MonitorFrame, OneAtWorkKept
<1>3. ASSUME InstallPrometheus(m)
      PROVE  (TypeOK /\ AtInBounds)'
  BY <1>1, <1>3, Lengths
  DEF InstallPrometheus, TypeOK, AtInBounds, MonitorSteps
<1>4. ASSUME ApplyMonitoring(m)
      PROVE  (TypeOK /\ AtInBounds)'
  BY <1>1, <1>4, OrdersAreObjects, Lengths
  DEF ApplyMonitoring, NextMonitor, TypeOK, AtInBounds, MonitorSteps
<1>5. ASSUME MonitoringRefused(m)
      PROVE  (TypeOK /\ AtInBounds)'
  BY <1>1, <1>5, Lengths, MonitorPositions
  DEF MonitoringRefused, NextMonitor, CallFails, NoCallFails, TypeOK,
      AtInBounds, MonitorSteps
<1>6. CASE MonitorFails(m)
  BY <1>1, <1>6, ShapeFails
  DEF MonitorFails, CallFails, NoCallFails, TypeOK, Resting
<1>7. ASSUME NEW p \in BOOLEAN, PatchMonitored(m, p)
      PROVE  (TypeOK /\ AtInBounds)'
  BY <1>1, <1>7, Lengths
  DEF PatchMonitored, CallFails, NoCallFails, TypeOK, AtInBounds, Resting
<1> QED
  BY <1>3, <1>4, <1>5, <1>6, <1>7, <1>2 DEF MonitorStep, ShapeInv

\* What neither sends nor moves a request leaves the shape alone.
LEMMA ShapeAside ==
  ASSUME ShapeInv, UNCHANGED <<pc, at>>, TypeOK'
  PROVE  ShapeInv'
  BY DEF ShapeInv, AtInBounds, OneAtWork

\* The plugin goroutine sends nothing and has no position.
LEMMA ShapeOfPlugin ==
  ASSUME ShapeInv, NEW c \in Creates, PluginStep(c)
  PROVE  ShapeInv'
<1> USE DEF ShapeInv, hostVars, procVars, localVars, CallFails, NoCallFails
<1>1. CASE PluginReady(c)
  BY <1>1, ShapeAside DEF PluginReady, TypeOK, PluginSteps
<1>2. CASE PluginTimesOut(c)
  BY <1>2, ShapeAside DEF PluginTimesOut, TypeOK, PluginResting
<1>3. ASSUME NEW i \in BOOLEAN, InstallNetwork(c, i)
      PROVE  ShapeInv'
  BY <1>3, ShapeAside DEF InstallNetwork, TypeOK, PluginSteps
<1>4. CASE InstallExporter(c)
  <2> USE <1>4 DEF InstallExporter
  <2>1. objects' \subseteq Objects /\ phase' \in {phase, "active"}
    BY NamedObjects DEF TypeOK
  <2>2. release' \in {release, "failed", "deployed"} /\ revived' \in BOOLEAN
    BY DEF TypeOK
  <2>3. TypeOK'
    BY <2>1, <2>2 DEF TypeOK, PluginResting
  <2> QED
    BY <2>3, ShapeAside
<1>5. CASE ExporterFails(c)
  BY <1>5, ShapeAside DEF ExporterFails, TypeOK, PluginResting
<1> QED
  BY <1>1, <1>2, <1>3, <1>4, <1>5 DEF PluginStep

\* A request is sent when nobody else waits for an answer.
LEMMA ShapeOfSending ==
  ASSUME ShapeInv, NEW r \in Requests, NEW step \in {"namespace", "get",
         "install"}, MaySend(r), Goto(r, step), UNCHANGED at, TypeOK'
  PROVE  ShapeInv'
<1> USE DEF ShapeInv, Goto, MaySend
<1>1. AtInBounds'
  BY DEF TypeOK, AtInBounds
<1>2. OneAtWork'
  BY DEF TypeOK, OneAtWork
<1> QED
  BY <1>1, <1>2

\* Operators send what rests.
LEMMA ShapeOfOperator ==
  ASSUME ShapeInv, Operator
  PROVE  ShapeInv'
<1> USE DEF ShapeInv, Sent, hostVars, procVars, localVars, Requests
<1>1. ASSUME NEW c \in Creates, NEW n \in Networks, ClusterCreate(c, n)
      PROVE  ShapeInv'
  <2> USE <1>1 DEF ClusterCreate
  <2>1. TypeOK'
    BY DEF TypeOK, Goto, CreateSteps
  <2> QED
    BY <2>1, ShapeOfSending
<1>2. ASSUME NEW d \in Deletes, ClusterDelete(d)
      PROVE  ShapeInv'
  <2> USE <1>2 DEF ClusterDelete
  <2>1. TypeOK'
    BY DEF TypeOK, Goto, DeleteSteps
  <2> QED
    BY <2>1, ShapeOfSending
<1>3. ASSUME NEW m \in Monitors, ClusterMonitor(m)
      PROVE  ShapeInv'
  <2> USE <1>3 DEF ClusterMonitor
  <2>1. TypeOK'
    BY DEF TypeOK, Goto, MonitorSteps
  <2> QED
    BY <2>1, ShapeOfSending
<1> QED
  BY <1>1, <1>2, <1>3 DEF Operator

\* Types, positions and the one request at work are kept by every step.
LEMMA ShapeStep == ShapeInv /\ [Next]_vars => ShapeInv'
<1> SUFFICES ASSUME ShapeInv, [Next]_vars
             PROVE  ShapeInv'
  OBVIOUS
<1> USE DEF ShapeInv, hostVars, procVars, historyVars, localVars
<1>1. CASE NamespaceFinalized
  BY <1>1, ShapeAside
  DEF NamespaceFinalized, TypeOK, NoLabels, NoNetwork, AnyAddress
<1>2. CASE AddressAssigned
  BY <1>2, ShapeAside DEF AddressAssigned, TypeOK, AnyAddress
<1>3. CASE Crash
  BY <1>3, ShapeDies DEF Crash, TypeOK
<1>4. CASE Restart
  BY <1>4, ShapeAside DEF Restart, TypeOK
<1>5. CASE UNCHANGED vars
  BY <1>5, ShapeAside DEF vars, TypeOK
<1> QED
  BY <1>1, <1>2, <1>3, <1>4, <1>5, ShapeOfOperator, ShapeOfCreate,
     ShapeOfPlugin, ShapeOfDelete, ShapeOfMonitor DEF Next

-----------------------------------------------------------------------------
(* The calm invariant, one request after the other.                        *)

\* Failed calls and crashes are only counted up, and a revival is not forgotten.
LEMMA StaysCalm ==
  ASSUME TypeOK, Next, Calm'
  PROVE  Calm /\ ~CallFails /\ crashes' \in {crashes, crashes + 1}
<1> USE DEF hostVars, procVars, historyVars, localVars
<1>1. /\ errors' \in {errors, errors + 1} /\ crashes' \in {crashes, crashes + 1}
      /\ revived => revived'
  <2>1. CASE Operator
    BY <2>1 DEF Operator, ClusterCreate, ClusterDelete, ClusterMonitor, Sent
  <2>2. ASSUME NEW c \in Creates, CreateStep(c)
        PROVE  /\ errors' \in {errors, errors + 1}
               /\ UNCHANGED <<crashes, revived>>
    BY <2>2, CreateFrame DEF PollFails, CallFails, NoCallFails
  <2>3. ASSUME NEW c \in Creates, PluginStep(c)
        PROVE  /\ errors' \in {errors, errors + 1} /\ UNCHANGED crashes
               /\ revived => revived'
    BY <2>3
    DEF PluginStep, PluginReady, PluginTimesOut, InstallNetwork,
        InstallExporter, ExporterFails, CallFails, NoCallFails, TypeOK
  <2>4. CASE NamespaceFinalized \/ AddressAssigned \/ Crash \/ Restart
    BY <2>4 DEF NamespaceFinalized, AddressAssigned, Crash, Restart
  <2> QED
    BY <2>1, <2>2, <2>3, <2>4, DeleteFrame, MonitorFrame DEF Next
<1>2. errors = 0 /\ ~revived /\ Serial
  BY <1>1 DEF Calm, TypeOK
<1>3. ~CallFails
  BY <1>2 DEF CallFails, Calm
<1> QED
  BY <1>1, <1>2, <1>3 DEF Calm

\* The requests of the other kinds are at rest, and so is what is said of
\* them.
LEMMA OthersRest ==
  ASSUME ShapeInv, Calm, NEW r \in Requests, pc[r] \notin Resting,
         \A q \in Requests \ {r} : pc'[q] = pc[q]
  PROVE  /\ r \notin Creates => CreateInv'
         /\ r \notin Deletes => DeleteInv'
         /\ r \notin Monitors => MonitorInv'
         /\ \A q \in Requests \ {r} : pc'[q] \in Resting
<1>1. \A q \in Requests \ {r} : pc'[q] \in Resting
  BY DEF ShapeInv, OneAtWork, Calm
<1>2. r \notin Creates => CreateInv'
  BY <1>1 DEF CreateInv, Requests, Resting, Polling, AfterPoll
<1>3. r \notin Deletes => DeleteInv'
  BY <1>1 DEF DeleteInv, Requests, Resting
<1>4. r \notin Monitors => MonitorInv'
  BY <1>1 DEF MonitorInv, Requests, Resting
<1> QED
  BY <1>1, <1>2, <1>3, <1>4

\* When every request is at rest, only the host's state is left to look at.
LEMMA AllRest ==
  ASSUME \A q \in Requests : pc'[q] \in Resting
  PROVE  CreateInv' /\ DeleteInv' /\ MonitorInv'
  BY DEF CreateInv, DeleteInv, MonitorInv, Requests, Resting, Polling,
         AfterPoll

\* A create leaves behind it what its next calls rely on.
LEMMA CalmOfCreate ==
  ASSUME LifecycleInv, NEW c \in Creates, CreateStep(c), Calm'
  PROVE  CalmBody'
<1> USE DEF Goto, hostVars, procVars, localVars
<1>1. c \in Requests /\ c \notin Deletes /\ c \notin Monitors
  BY RequestsAssumption DEF Requests
<1>2. TypeOK /\ AtInBounds /\ Calm /\ CalmBody /\ ~CallFails
  BY StaysCalm DEF LifecycleInv, ShapeInv, Next
<1>3. ~PollFails(c)
  BY <1>2 DEF PollFails, CalmBody, CreateInv
<1>4. /\ DeleteInv' /\ MonitorInv' /\ (crashes' = 0 => up')
      /\ \A q \in Requests \ {c} : pc'[q] \in Resting
  BY <1>1, <1>2, <1>3, CreateFrame, OthersRest DEF CalmBody, LifecycleInv
<1>5. UNCHANGED hostVars => HostInv'
  BY <1>2 DEF CalmBody, HostInv, NeedsPresent, ServiceInv, AgreeInv, Calm
<1>6. CASE ApplyNamespace(c)
  <2>1. HostInv'
    BY <1>2, <1>6
    DEF ApplyNamespace, CalmBody, HostInv, NeedsPresent, ServiceInv, AgreeInv
  <2>2. CreateInv'
    BY <1>4, <1>6
    DEF ApplyNamespace, CreateInv, AfterPoll, Polling, Requests, Resting
  <2> QED
    BY <1>4, <2>1, <2>2 DEF CalmBody
<1>7. CASE ApplyService(c)
  <2>1. HostInv'
    BY <1>2, <1>7
    DEF ApplyService, Accepted, CalmBody, HostInv, NeedsPresent, ServiceInv,
        AgreeInv, Calm, ControllerManagerNeeds, SchedulerNeeds
  <2>2. CreateInv'
    BY <1>2, <1>7
    DEF ApplyService, Accepted, CalmBody, CreateInv, AfterPoll, HostInv,
        ServiceInv
  <2> QED
    BY <1>4, <2>1, <2>2 DEF CalmBody
<1>8. CASE PollAddress(c)
  <2>1. HostInv'
    BY <1>5, <1>8 DEF PollAddress
  <2>2. CreateInv'
    BY <1>2, <1>8 DEF PollAddress, CalmBody, CreateInv, TypeOK
  <2> QED
    BY <1>4, <2>1, <2>2 DEF CalmBody
<1>9. CASE PollInVain(c)
  <2>1. HostInv'
    BY <1>5, <1>9 DEF PollInVain
  <2>2. CreateInv'
    BY <1>2, <1>9
    DEF PollInVain, CalmBody, CreateInv, AfterPoll, HostInv, ServiceInv
  <2> QED
    BY <1>4, <2>1, <2>2 DEF CalmBody
<1>10. ASSUME NEW s \in BOOLEAN, NEW n \in BOOLEAN, PollTimesOut(c, s, n)
      PROVE  CalmBody'
  <2>1. HostInv'
    BY <1>2, <1>10
    DEF PollTimesOut, NoCallFails, CalmBody, HostInv, NeedsPresent,
        ServiceInv, AgreeInv, CreateInv, EtcdNeeds, ApiserverNeeds,
        PrometheusNeeds
  <2>2. CreateInv'
    BY <1>2, <1>4, <1>10
    DEF PollTimesOut, CreateInv, Polling, TypeOK, Requests, Resting
  <2> QED
    BY <1>4, <2>1, <2>2 DEF CalmBody
<1>11. ASSUME NEW p \in BOOLEAN, PatchLoadBalancer(c, p)
      PROVE  CalmBody'
  <2>1. HostInv'
    BY <1>2, <1>11
    DEF PatchLoadBalancer, CalmBody, HostInv, NeedsPresent, ServiceInv,
        AgreeInv, CreateInv, AfterPoll, Calm, SchedulerNeeds
  <2>2. CreateInv'
    BY <1>2, <1>11
    DEF PatchLoadBalancer, CalmBody, CreateInv, AfterPoll, Polling
  <2> QED
    BY <1>4, <2>1, <2>2 DEF CalmBody
<1>12. CASE GetCa(c)
  <2>1. HostInv'
    BY <1>5, <1>12 DEF GetCa
  <2>2. CreateInv'
    BY <1>2, <1>12
    DEF GetCa, CalmBody, CreateInv, AfterPoll, Polling, TypeOK, Requests
  <2> QED
    BY <1>4, <2>1, <2>2 DEF CalmBody
<1>13. CASE GenerateCa(c)
  <2>1. HostInv'
    BY <1>2, <1>13
    DEF GenerateCa, CalmBody, HostInv, NeedsPresent, ServiceInv, AgreeInv,
        CreateInv, Calm, SchedulerNeeds
  <2>2. CreateInv'
    BY <1>2, <1>4, <1>13
    DEF GenerateCa, Accepted, CalmBody, CreateInv, AfterPoll, TypeOK,
        Requests, Resting
  <2> QED
    BY <1>4, <2>1, <2>2 DEF CalmBody
<1>14. ASSUME NEW w \in BOOLEAN, WriteKubeconfig(c, w)
      PROVE  CalmBody'
  <2>1. HostInv'
    BY <1>2, <1>14
    DEF WriteKubeconfig, Kubeconfig, CalmBody, HostInv, NeedsPresent,
        ServiceInv, AgreeInv, CreateInv, AfterPoll, Calm, SchedulerNeeds
  <2>2. CreateInv'
    BY <1>2, <1>14
    DEF WriteKubeconfig, Kubeconfig, CalmBody, CreateInv, AfterPoll, Polling
  <2> QED
    BY <1>4, <2>1, <2>2 DEF CalmBody
<1>15. ASSUME NEW a \in BOOLEAN, ApplyRemoteAccess(c, a)
      PROVE  CalmBody'
  <2>1. HostInv'
    BY <1>2, <1>15
    DEF ApplyRemoteAccess, Kubeconfig, CalmBody, HostInv, NeedsPresent,
        ServiceInv,
        AgreeInv, CreateInv, AfterPoll, Calm, SchedulerNeeds
  <2>2. CreateInv'
    BY <1>2, <1>15
    DEF ApplyRemoteAccess, Kubeconfig, Accepted, CalmBody, CreateInv,
        AfterPoll, Polling,
        TypeOK
  <2> QED
    BY <1>4, <2>1, <2>2 DEF CalmBody
<1>16. CASE ApplyControlPlane(c)
  <2>1. HostInv'
    BY <1>1, <1>2, <1>16, Lengths, CreatePositions
    DEF ApplyControlPlane, Accepted, CalmBody, HostInv, NeedsPresent,
        ServiceInv, AgreeInv, CreateInv, AfterPoll, AtInBounds, EtcdNeeds,
        ApiserverNeeds, ControllerManagerNeeds, SchedulerNeeds
  <2>2. CreateInv'
    BY <1>2, <1>4, <1>16, Lengths
    DEF ApplyControlPlane, CalmBody, CreateInv, AfterPoll, Polling, TypeOK,
        Requests, Resting
  <2> QED
    BY <1>4, <2>1, <2>2 DEF CalmBody
<1>17. CASE CreateFails(c)
  <2>1. HostInv'
    BY <1>5, <1>17 DEF CreateFails, Fails
  <2>2. CreateInv'
    BY <1>2, <1>17
    DEF CreateFails, Fails, CalmBody, CreateInv, AfterPoll, Polling
  <2> QED
    BY <1>4, <2>1, <2>2 DEF CalmBody
<1>18. CASE ControlLog(c)
  <2>1. HostInv'
    BY <1>1, <1>2, <1>18, Lengths, LogPositions
    DEF ControlLog, CalmBody, HostInv, NeedsPresent, ServiceInv, AgreeInv,
        AtInBounds
  <2>2. CreateInv'
    BY <1>2, <1>18, Lengths, LogPositions
    DEF ControlLog, Answer, CalmBody, CreateInv, AfterPoll, Polling, TypeOK,
        AtInBounds, Requests
  <2> QED
    BY <1>4, <2>1, <2>2 DEF CalmBody
<1>19. CASE ControlLogFails(c)
  <2>1. HostInv'
    BY <1>5, <1>19 DEF ControlLogFails
  <2>2. CreateInv'
    BY <1>2, <1>19 DEF ControlLogFails
  <2> QED
    BY <1>4, <2>1, <2>2 DEF CalmBody
<1> QED
  BY <1>3, <1>6, <1>7, <1>8, <1>9, <1>10, <1>11, <1>12, <1>13, <1>14, <1>15,
     <1>16, <1>17, <1>18, <1>19 DEF CreateStep

\* A delete takes things away in an order that leaves no Pod in need.
LEMMA CalmOfDelete ==
  ASSUME LifecycleInv, NEW d \in Deletes, DeleteStep(d), Calm'
  PROVE  CalmBody'
<1> USE DEF Goto, hostVars, procVars, localVars
<1>1. d \in Requests /\ d \notin Creates /\ d \notin Monitors
  BY RequestsAssumption DEF Requests
<1>2. TypeOK /\ AtInBounds /\ Calm /\ CalmBody /\ ~CallFails
  BY StaysCalm DEF LifecycleInv, ShapeInv, Next
<1>3. /\ CreateInv' /\ MonitorInv' /\ (crashes' = 0 => up')
      /\ \A q \in Requests \ {d} : pc'[q] \in Resting
  BY <1>1, <1>2, DeleteFrame, OthersRest DEF CalmBody, LifecycleInv
<1>4. UNCHANGED hostVars => HostInv'
  BY <1>2 DEF CalmBody, HostInv, NeedsPresent, ServiceInv, AgreeInv, Calm
<1>5. CASE GetCluster(d)
  <2>1. HostInv'
    BY <1>4, <1>5 DEF GetCluster
  <2>2. DeleteInv'
    BY <1>2, <1>5 DEF GetCluster, AfterMonitoring, CalmBody, DeleteInv, TypeOK
  <2> QED
    BY <1>3, <2>1, <2>2 DEF CalmBody
<1>6. CASE GetClusterFails(d)
  <2>1. HostInv'
    BY <1>4, <1>6 DEF GetClusterFails, Fails
  <2>2. DeleteInv'
    BY <1>2, <1>6 DEF GetClusterFails, Fails, CalmBody, DeleteInv
  <2> QED
    BY <1>3, <2>1, <2>2 DEF CalmBody
<1>7. ASSUME NEW ok \in BOOLEAN, DeleteObject(d, ok)
      PROVE  CalmBody'
  <2>1. HostInv'
    BY <1>1, <1>2, <1>7, Lengths, DeletePositions
    DEF DeleteObject, NoCallFails, CalmBody, HostInv, NeedsPresent,
        ServiceInv, AgreeInv, DeleteInv, AtInBounds
  <2>2. DeleteInv'
    BY <1>2, <1>7, Lengths, DeletePositions
    DEF DeleteObject, NextDelete, CalmBody, DeleteInv, TypeOK, Requests
  <2> QED
    BY <1>3, <2>1, <2>2 DEF CalmBody
<1>8. ASSUME NEW ok \in BOOLEAN, UninstallRelease(d, ok)
      PROVE  CalmBody'
  <2>1. HostInv'
    BY <1>2, <1>8
    DEF UninstallRelease, NoCallFails, CalmBody, HostInv, NeedsPresent,
        ServiceInv, AgreeInv, EtcdNeeds, ApiserverNeeds,
        ControllerManagerNeeds, SchedulerNeeds, PrometheusNeeds
  <2>2. DeleteInv'
    BY <1>2, <1>8, Lengths, DeletePositions
    DEF UninstallRelease, AtStep, NextDelete, CalmBody, DeleteInv, TypeOK,
        Requests
  <2> QED
    BY <1>3, <2>1, <2>2 DEF CalmBody
<1>9. ASSUME NEW ok \in BOOLEAN, DeleteNamespace(d, ok)
      PROVE  CalmBody'
  <2>1. HostInv'
    BY <1>1, <1>2, <1>9, Lengths, DeletePositions
    DEF DeleteNamespace, AtStep, NoCallFails, CalmBody, HostInv, NeedsPresent,
        ServiceInv, AgreeInv, DeleteInv, AtInBounds
  <2>2. DeleteInv'
    BY <1>2, <1>9, Lengths, DeletePositions
    DEF DeleteNamespace, AtStep, NextDelete, CalmBody, DeleteInv, TypeOK,
        Requests
  <2> QED
    BY <1>3, <2>1, <2>2 DEF CalmBody
<1>10. CASE UninstallPanics(d)
  <2>1. HostInv'
    BY <1>4, <1>10 DEF UninstallPanics, Fails
  <2>2. DeleteInv'
    BY <1>2, <1>10 DEF UninstallPanics
  <2> QED
    BY <1>3, <2>1, <2>2 DEF CalmBody
<1> QED
  BY <1>5, <1>6, <1>7, <1>8, <1>9, <1>10 DEF DeleteStep

\* What Prometheus mounts is there before Prometheus.
LEMMA CalmOfMonitor ==
  ASSUME LifecycleInv, NEW m \in Monitors, MonitorStep(m), Calm'
  PROVE  CalmBody'
<1> USE DEF Goto, hostVars, procVars, localVars
<1>1. m \in Requests /\ m \notin Creates /\ m \notin Deletes
  BY RequestsAssumption DEF Requests
<1>2. TypeOK /\ AtInBounds /\ Calm /\ CalmBody /\ ~CallFails
  BY StaysCalm DEF LifecycleInv, ShapeInv, Next
<1>3. /\ CreateInv' /\ DeleteInv' /\ (crashes' = 0 => up')
      /\ \A q \in Requests \ {m} : pc'[q] \in Resting
  BY <1>1, <1>2, MonitorFrame, OthersRest DEF CalmBody, LifecycleInv
<1>4. UNCHANGED hostVars => HostInv'
  BY <1>2 DEF CalmBody, HostInv, NeedsPresent, ServiceInv, AgreeInv, Calm
<1>5. CASE InstallPrometheus(m)
  <2>1. HostInv'
    BY <1>4, <1>5 DEF InstallPrometheus
  <2>2. MonitorInv'
    BY <1>2, <1>5
    DEF InstallPrometheus, FileReachesCluster, CalmBody, MonitorInv, HostInv,
        ServiceInv, TypeOK
  <2> QED
    BY <1>3, <2>1, <2>2 DEF CalmBody
<1>6. CASE ApplyMonitoring(m)
  <2>1. HostInv'
    BY <1>1, <1>2, <1>6, Lengths, MonitorPositions
    DEF ApplyMonitoring, CalmBody, HostInv, NeedsPresent, ServiceInv,
        AgreeInv, MonitorInv, AtInBounds, PrometheusNeeds
  <2>2. MonitorInv'
    BY <1>2, <1>6, MonitorPositions
    DEF ApplyMonitoring, NextMonitor, CalmBody, MonitorInv, TypeOK, Requests
  <2> QED
    BY <1>3, <2>1, <2>2 DEF CalmBody
<1>7. CASE MonitoringRefused(m)
  <2>1. HostInv'
    BY <1>4, <1>7 DEF MonitoringRefused
  <2>2. MonitorInv'
    BY <1>2, <1>7
    DEF MonitoringRefused, MonitorAccepted, Accepted, CalmBody, MonitorInv
  <2> QED
    BY <1>3, <2>1, <2>2 DEF CalmBody
<1>8. CASE MonitorFails(m)
  <2>1. HostInv'
    BY <1>4, <1>8 DEF MonitorFails, Fails
  <2>2. MonitorInv'
    BY <1>2, <1>8 DEF MonitorFails, Fails, CalmBody, MonitorInv
  <2> QED
    BY <1>3, <2>1, <2>2 DEF CalmBody
<1>9. ASSUME NEW p \in BOOLEAN, PatchMonitored(m, p)
      PROVE  CalmBody'
  <2>1. HostInv'
    BY <1>2, <1>9
    DEF PatchMonitored, NoCallFails, CalmBody, HostInv, NeedsPresent,
        ServiceInv, AgreeInv
  <2>2. MonitorInv'
    BY <1>2, <1>9 DEF PatchMonitored, CalmBody, MonitorInv
  <2> QED
    BY <1>3, <2>1, <2>2 DEF CalmBody
<1> QED
  BY <1>5, <1>6, <1>7, <1>8, <1>9 DEF MonitorStep

\* The plugin goroutine touches nothing of this, as long as Helm finds the
\* namespace there.
LEMMA CalmOfPlugin ==
  ASSUME LifecycleInv, NEW c \in Creates, PluginStep(c), Calm'
  PROVE  CalmBody'
<1> USE DEF LifecycleInv, ShapeInv, hostVars, procVars, localVars, CallFails,
            NoCallFails
<1>1. /\ Calm /\ CalmBody
      /\ UNCHANGED <<labels, svcAddress, ca, remoteAccess, file, pc, at, lbAddr,
                     clusterCa, up, crashes>>
  BY DEF PluginStep, PluginReady, PluginTimesOut, InstallNetwork,
         InstallExporter, ExporterFails, Calm, TypeOK
<1>2. phase' = phase /\ objects' \in {objects, objects \cup {"event-exporter"}}
  BY <1>1 DEF PluginStep, PluginReady, PluginTimesOut, InstallNetwork,
         InstallExporter, ExporterFails, Calm, TypeOK
<1>3. HostInv'
  BY <1>1, <1>2 DEF CalmBody, Calm, HostInv, NeedsPresent, ServiceInv, AgreeInv,
     EtcdNeeds, ApiserverNeeds, ControllerManagerNeeds, SchedulerNeeds,
     PrometheusNeeds
<1>4. CreateInv' /\ DeleteInv' /\ MonitorInv'
  BY <1>1, <1>2 DEF CalmBody, CreateInv, DeleteInv, MonitorInv, Polling
<1> QED
  BY <1>1, <1>3, <1>4 DEF CalmBody

\* A request that has been sent has done nothing yet.
LEMMA CalmOfOperator ==
  ASSUME LifecycleInv, Operator, Calm'
  PROVE  CalmBody'
<1> USE DEF LifecycleInv, ShapeInv, hostVars, procVars, localVars
<1>1. PICK r \in Requests, step \in {"namespace", "get", "install"} :
        /\ MaySend(r) /\ Goto(r, step)
        /\ UNCHANGED <<hostVars, up, crashes, revived, errors, at, lbAddr,
                       clusterCa>>
  BY DEF Operator, ClusterCreate, ClusterDelete, ClusterMonitor, Sent, Requests
<1>2. Calm /\ CalmBody
  BY <1>1 DEF Calm
<1>3. HostInv' /\ (crashes' = 0 => up')
  BY <1>1, <1>2 DEF CalmBody, Calm, HostInv, NeedsPresent, ServiceInv, AgreeInv
<1>4. \A q \in Requests :
        pc'[q] \in Resting \cup {"namespace", "get", "install"}
  BY <1>1, <1>2 DEF MaySend, Calm, Goto, TypeOK
<1>5. CreateInv' /\ DeleteInv' /\ MonitorInv'
  BY <1>4 DEF CreateInv, DeleteInv, MonitorInv, Requests, Resting, Polling,
              AfterPoll
<1> QED
  BY <1>3, <1>5 DEF CalmBody

\* Every step keeps the host as the next call expects it.
LEMMA CalmStep ==
  ASSUME LifecycleInv, [Next]_vars, Calm'
  PROVE  CalmBody'
<1> USE DEF LifecycleInv, ShapeInv, hostVars, procVars, historyVars,
           localVars
<1>1. CASE NamespaceFinalized
  <2> USE <1>1 DEF NamespaceFinalized
  <2>1. Calm /\ CalmBody
    BY DEF Calm
  <2>2. HostInv'
    BY <2>1 DEF CalmBody, HostInv, NeedsPresent, ServiceInv, AgreeInv, Outside
  <2>3. CreateInv' /\ DeleteInv' /\ MonitorInv'
    BY <2>1 DEF CalmBody, HostInv, ServiceInv, CreateInv, DeleteInv, MonitorInv,
                Polling, AfterPoll
  <2> QED
    BY <2>1, <2>2, <2>3 DEF CalmBody
<1>2. CASE AddressAssigned
  <2> USE <1>2 DEF AddressAssigned
  <2>1. Calm /\ CalmBody
    BY DEF Calm
  <2>2. svcAddress' # NoAddress
    BY AddressesAssumption
  <2>3. HostInv'
    BY <2>1, <2>2
    DEF CalmBody, Calm, HostInv, NeedsPresent, ServiceInv, AgreeInv
  <2>4. CreateInv' /\ DeleteInv' /\ MonitorInv'
    BY <2>1, <2>2 DEF CalmBody, CreateInv, DeleteInv, MonitorInv, Polling
  <2> QED
    BY <2>1, <2>3, <2>4 DEF CalmBody
<1>3. CASE Crash
  <2> USE <1>3 DEF Crash, ProcessDies
  <2>1. Calm /\ CalmBody
    BY DEF Calm
  <2>2. CreateInv' /\ DeleteInv' /\ MonitorInv'
    BY AllRest DEF Resting
  <2>3. HostInv'
    BY <2>1 DEF CalmBody, Calm, HostInv, NeedsPresent, ServiceInv, AgreeInv
  <2> QED
    BY <2>1, <2>2, <2>3 DEF CalmBody, TypeOK
<1>4. CASE Restart \/ UNCHANGED vars
  <2>1. /\ UNCHANGED <<hostVars, errors, revived, crashes, pc, at, localVars>>
        /\ up => up'
    BY <1>4 DEF Restart, vars
  <2>2. Calm /\ CalmBody
    BY <2>1 DEF Calm
  <2>3. HostInv'
    BY <2>1, <2>2
    DEF CalmBody, Calm, HostInv, NeedsPresent, ServiceInv, AgreeInv
  <2>4. CreateInv' /\ DeleteInv' /\ MonitorInv'
    BY <2>1, <2>2 DEF CalmBody, CreateInv, DeleteInv, MonitorInv, Polling
  <2> QED
    BY <2>1, <2>2, <2>3, <2>4 DEF CalmBody
<1> QED
  BY <1>1, <1>2, <1>3, <1>4, CalmOfOperator, CalmOfCreate, CalmOfPlugin,
     CalmOfDelete, CalmOfMonitor DEF Next

\* A host without the cluster.
LEMMA LifecycleInitial == Init => LifecycleInv
<1> SUFFICES ASSUME Init
             PROVE  LifecycleInv
  OBVIOUS
<1> USE DEF Init
<1>1. HostInv
  BY DEF HostInv, NeedsPresent, ServiceInv, AgreeInv
<1>2. CreateInv /\ DeleteInv /\ MonitorInv
  BY DEF CreateInv, DeleteInv, MonitorInv, Requests, Polling, AfterPoll
<1> QED
  BY <1>1, <1>2, ShapeInitial DEF LifecycleInv, CalmBody

\* The invariant that all theorems but the last rest on.
LEMMA LifecycleInvariant == Spec => []LifecycleInv
<1>1. LifecycleInv /\ [Next]_vars => LifecycleInv'
  BY ShapeStep, CalmStep DEF LifecycleInv
<1> QED
  BY <1>1, LifecycleInitial, PTL DEF Spec

-----------------------------------------------------------------------------
(* The theorems.                                                           *)

\* Every variable keeps its type.
THEOREM LifecycleTypeOK == Spec => []TypeOK
<1>1. LifecycleInv => TypeOK
  BY DEF LifecycleInv, ShapeInv
<1> QED
  BY <1>1, LifecycleInvariant, PTL

\* Pods of a workload always find what they refer to.
THEOREM PodsFindTheirNeeds == Spec => []NeedsPresent
<1>1. LifecycleInv => NeedsPresent
  BY DEF LifecycleInv, CalmBody, HostInv, NeedsPresent, Calm
<1> QED
  BY <1>1, LifecycleInvariant, PTL

\* A complete cluster has one set of certificates and one address.
THEOREM CompleteMeansConsistent == Spec => []CompleteClusterAgrees
<1>1. LifecycleInv => CompleteClusterAgrees
  <2> SUFFICES ASSUME LifecycleInv, Calm, Complete
               PROVE  /\ {"file", "configmap/remote-access",
                          "configmap/cluster-ca", "service/kube-apiserver"}
                           \subseteq objects
                      /\ file = [ca |-> ca, host |-> svcAddress]
                      /\ remoteAccess = file
                      /\ labels.loadBalancer = svcAddress
    BY DEF CompleteClusterAgrees, Calm
  <2>1. "deployment/kube-scheduler" \in objects
    <3>1. CreateOrder[12] = "deployment/kube-scheduler"
      BY DEF CreateOrder
    <3> QED
      BY <3>1, Lengths DEF Complete, Elements
  <2> QED
    BY <2>1 DEF LifecycleInv, CalmBody, HostInv, NeedsPresent, AgreeInv, Calm,
                SchedulerNeeds
<1> QED
  BY <1>1, LifecycleInvariant, PTL

\* As long as no call fails, requests sent one at a time do not bring the
\* process down.
THEOREM CalmProcessStaysUp == Spec => []OnlyKillsStopKok
<1>1. LifecycleInv => OnlyKillsStopKok
  BY DEF LifecycleInv, CalmBody, OnlyKillsStopKok, Calm
<1> QED
  BY <1>1, LifecycleInvariant, PTL

\* Creates that are sent one at a time do not replace certificates that are
\* there, as long as no read of them fails.
THEOREM CertificatesAreKept == Spec => CertificatesKept
<1>1. LifecycleInv /\ [Next]_vars
      => [ Calm /\ "configmap/cluster-ca" \in objects \cap objects'
           => ca' = ca ]_vars
  <2> SUFFICES ASSUME LifecycleInv, Next, Calm,
                      "configmap/cluster-ca" \in objects
               PROVE  ca' = ca
    BY DEF vars
  <2>1. ASSUME NEW c \in Creates, GenerateCa(c)
        PROVE  FALSE
    BY <2>1 DEF GenerateCa, LifecycleInv, CalmBody, CreateInv
  <2> QED
    BY <2>1
    DEF Next, Operator, ClusterCreate, ClusterDelete, ClusterMonitor,
        CreateStep, ApplyNamespace, ApplyService, PollAddress, PollInVain,
        PollFails, PollTimesOut, PatchLoadBalancer, GetCa, WriteKubeconfig,
        ApplyRemoteAccess, ApplyControlPlane, CreateFails, Fails, ControlLog,
        ControlLogFails, PluginStep, PluginReady, PluginTimesOut,
        InstallNetwork, InstallExporter, ExporterFails, DeleteStep, GetCluster,
        GetClusterFails, DeleteObject, UninstallRelease, UninstallPanics,
        DeleteNamespace, MonitorStep, InstallPrometheus, ApplyMonitoring,
        MonitoringRefused, MonitorFails, PatchMonitored, NamespaceFinalized,
        AddressAssigned, Crash, Restart, hostVars
<1>2. [ Calm /\ "configmap/cluster-ca" \in objects \cap objects'
        => ca' = ca ]_vars
      => [ /\ Serial /\ errors = 0 /\ ~revived
           /\ "configmap/cluster-ca" \in objects \cap objects'
           => ca' = ca ]_vars
  BY DEF Calm
<1> QED
  BY <1>1, <1>2, LifecycleInvariant, PTL DEF Spec, CertificatesKept

-----------------------------------------------------------------------------
(* What a cluster leaves outside its namespace.                            *)

\* What is said of the outside needs more than Calm: no delete or monitoring
\* request was cut short.
Undisturbed == Calm /\ \A r \in Deletes \cup Monitors : pc[r] # "lost"

\* A delete that has come to its k-th object at least, and at most to its n-th.
DeleteBetween(k, n) == \E d \in Deletes : pc[d] = "delete" /\ at[d] \in k..n

\* The certificates tell whether a cluster lives: they are there from the
\* moment it has an address until a delete is past its Service.
CertificatesInv ==
  "configmap/cluster-ca" \in objects =>
    /\ svcAddress # NoAddress
    /\ "service/kube-apiserver" \in objects \/ DeleteBetween(1, 19)

\* Objects outside belong to a cluster that lives or are still to be deleted.
OutsideInv ==
  LET lives == phase = "active" /\ "configmap/cluster-ca" \in objects IN
  /\ phase = "none" => objects \subseteq Outside
  /\ "clusteroutput" \in objects => lives \/ DeleteBetween(20, 24)
  /\ "clusterfluentdconfig" \in objects => lives \/ DeleteBetween(20, 25)
  /\ "file" \in objects => lives \/ DeleteBetween(20, 26)
  /\ \/ "clusterrole/prometheus" \in objects
     \/ "clusterrolebinding/prometheus" \in objects
     => /\ lives
        /\ \/ labels.monitored
           \/ \E m \in Monitors : pc[m] \in {"monitor", "label"}

\* A create without an address gets no further than the certificates.
GivenUpInv ==
  \A c \in Creates :
    /\ pc[c] = "waiting" => "configmap/cluster-ca" \notin objects
    /\ pc[c] \in {"patch", "get-ca", "generate-ca"} /\ phase # "active" =>
         "configmap/cluster-ca" \notin objects
    /\ pc[c] \in {"kubeconfig", "remote-access", "apply", "log"} =>
         phase = "active" /\ "configmap/cluster-ca" \in objects

DeletedInv ==
  \A d \in Deletes : pc[d] = "delete" =>
    /\ at[d] > 2 => "clusterrolebinding/prometheus" \notin objects
    /\ at[d] > 3 => "clusterrole/prometheus" \notin objects
    /\ at[d] > 19 => "configmap/cluster-ca" \notin objects

MonitoredInv ==
  \A m \in Monitors : pc[m] \in {"monitor", "label"} =>
    phase = "active" /\ "configmap/cluster-ca" \in objects

\* The exporter is installed, or may be, only while its cluster lives and no
\* delete has passed the release.
ExportedInv ==
  ~overtaken /\ (release # "none" \/ PluginAtWork) =>
    /\ phase = "active"
    /\ "configmap/cluster-ca" \in objects
    /\ ~DeleteBetween(8, 26)

LeftoverInv ==
  /\ ExportedInv
  /\ CertificatesInv
  /\ OutsideInv
  /\ GivenUpInv
  /\ DeletedInv
  /\ MonitoredInv

\* What the orders say of objects outside the namespace and of certificates.
LEMMA CreateStaysInside ==
  \A k \in 1..12 : CreateOrder[k] \notin Outside \cup {"configmap/cluster-ca"}
  BY DEF CreateOrder, Outside

\* Where ClusterDelete removes what is not in the namespace.
LEMMA DeleteEnds ==
  /\ DeleteOrder[2] = "clusterrolebinding/prometheus"
  /\ DeleteOrder[3] = "clusterrole/prometheus"
  /\ DeleteOrder[19] = "configmap/cluster-ca"
  /\ DeleteOrder[24] = "clusteroutput"
  /\ DeleteOrder[25] = "clusterfluentdconfig"
  /\ DeleteOrder[26] = "file"
  /\ \A k \in 1..26 :
       /\ DeleteOrder[k] = "service/kube-apiserver" => k = 12
       /\ DeleteOrder[k] = "configmap/cluster-ca" => k = 19
  BY DEF DeleteOrder

\* While a request of another kind is at work, no delete is.
LEMMA NoDeleteAtWork ==
  ASSUME ShapeInv, Serial, NEW r \in Requests \ Deletes, pc[r] \notin Resting,
         \A q \in Requests \ {r} : pc'[q] = pc[q]
  PROVE  /\ \A k, n \in Nat : ~DeleteBetween(k, n)
         /\ \A k, n \in Nat : ~DeleteBetween(k, n)'
         /\ DeletedInv'
<1>1. \A d \in Deletes : pc[d] \in Resting /\ pc'[d] \in Resting
  BY DEF ShapeInv, OneAtWork, Requests
<1> QED
  BY <1>1 DEF DeleteBetween, DeletedInv, Resting

\* While none of the monitoring requests is at work, nothing is said of them.
LEMMA NoMonitorAtWork ==
  ASSUME ShapeInv, Serial, NEW r \in Requests \ Monitors, pc[r] \notin Resting,
         \A q \in Requests \ {r} : pc'[q] = pc[q]
  PROVE  /\ \A m \in Monitors : pc[m] \in Resting /\ pc'[m] \in Resting
         /\ MonitoredInv'
<1>1. \A m \in Monitors : pc[m] \in Resting /\ pc'[m] \in Resting
  BY DEF ShapeInv, OneAtWork, Requests
<1> QED
  BY <1>1 DEF MonitoredInv, Resting

\* Two deletes are never at work.
LEMMA OneDeleteAtWork ==
  ASSUME ShapeInv, Serial, NEW d \in Deletes, pc[d] \notin Resting,
         \A q \in Requests \ {d} : pc'[q] = pc[q]
  PROVE  \A k, n \in Nat :
           /\ DeleteBetween(k, n) <=> pc[d] = "delete" /\ at[d] \in k..n
           /\ DeleteBetween(k, n)' <=> pc'[d] = "delete" /\ at'[d] \in k..n
<1>1. \A e \in Deletes \ {d} : pc[e] \in Resting /\ pc'[e] \in Resting
  BY DEF ShapeInv, OneAtWork, Requests
<1> QED
  BY <1>1 DEF DeleteBetween, Resting

\* While no create is at work, nothing is said of them.
LEMMA NoCreateAtWork ==
  ASSUME ShapeInv, Serial, NEW r \in Requests \ Creates, pc[r] \notin Resting,
         \A q \in Requests \ {r} : pc'[q] = pc[q]
  PROVE  GivenUpInv'
<1>1. \A c \in Creates : pc'[c] \in Resting
  BY DEF ShapeInv, OneAtWork, Requests
<1> QED
  BY <1>1 DEF GivenUpInv, Resting

\* A request that was cut short is never taken up again.
LEMMA StaysLost ==
  ASSUME TypeOK, Next, NEW r \in Requests, pc[r] = "lost"
  PROVE  pc'[r] = "lost"
<1> USE DEF Resting
<1>1. ASSUME ProcessDies
      PROVE  pc'[r] = "lost"
  BY <1>1 DEF ProcessDies
<1>2. CASE Operator
  BY <1>2 DEF Operator, ClusterCreate, ClusterDelete, ClusterMonitor, MaySend,
     Goto, TypeOK
<1>3. ASSUME NEW c \in Creates, CreateStep(c)
      PROVE  pc'[r] = "lost"
  BY <1>1, <1>3, CreateFrame DEF PollFails
<1>4. ASSUME NEW c \in Creates, PluginStep(c)
      PROVE  pc'[r] = "lost"
  BY <1>4 DEF PluginStep, PluginReady, PluginTimesOut, InstallNetwork,
     InstallExporter, ExporterFails
<1>5. ASSUME NEW d \in Deletes, DeleteStep(d)
      PROVE  pc'[r] = "lost"
  BY <1>5, DeleteFrame
<1>6. ASSUME NEW m \in Monitors, MonitorStep(m)
      PROVE  pc'[r] = "lost"
  BY <1>6, MonitorFrame
<1>7. CASE NamespaceFinalized \/ AddressAssigned \/ Crash \/ Restart
  BY <1>1, <1>7 DEF NamespaceFinalized, AddressAssigned, Crash, Restart
<1> QED
  BY <1>2, <1>3, <1>4, <1>5, <1>6, <1>7 DEF Next

\* So a system that is undisturbed after a step was it before.
LEMMA StaysUndisturbed ==
  ASSUME TypeOK, Next, Undisturbed'
  PROVE  Undisturbed /\ Calm /\ ~CallFails
  BY StaysCalm, StaysLost DEF Undisturbed, Requests

\* A create that is answered leaves its plugin to a cluster that lives; one
\* that gives up had no exporter.
LEMMA ExportedOfCreate ==
  ASSUME LifecycleInv, Undisturbed => LeftoverInv,
         NEW c \in Creates, CreateStep(c), Undisturbed'
  PROVE  ExportedInv'
<1> USE DEF Goto, hostVars, procVars, localVars
<1>1. c \in Requests /\ c \notin Deletes
  BY RequestsAssumption DEF Requests
<1>2. TypeOK /\ Calm /\ CalmBody /\ LeftoverInv /\ ~CallFails
  BY StaysUndisturbed DEF LifecycleInv, ShapeInv, Next
<1>3. ~PollFails(c)
  BY <1>2 DEF PollFails, CalmBody, CreateInv
<1>4. ~DeleteBetween(8, 26)'
  BY <1>1, <1>2, <1>3, CreateFrame, NoDeleteAtWork DEF LifecycleInv, Calm
<1>5. CASE \E s, n \in BOOLEAN : PollTimesOut(c, s, n)
  <2>1. overtaken \/ (release = "none" /\ ~PluginAtWork)
    BY <1>2, <1>5 DEF PollTimesOut, LeftoverInv, GivenUpInv, ExportedInv
  <2>2. UNCHANGED <<release, pluginPc, overtaken>>
    BY <1>5 DEF PollTimesOut
  <2> QED
    BY <2>1, <2>2 DEF ExportedInv, PluginAtWork
<1>6. CASE ControlLog(c)
  <2>1. phase' = "active" /\ "configmap/cluster-ca" \in objects'
    BY <1>2, <1>6 DEF ControlLog, LeftoverInv, GivenUpInv
  <2> QED
    BY <1>4, <2>1 DEF ExportedInv
<1>7. CASE ~ControlLog(c) /\ ~\E s, n \in BOOLEAN : PollTimesOut(c, s, n)
  <2>1. /\ UNCHANGED <<release, pluginPc, overtaken>>
        /\ objects \subseteq objects' /\ (phase = "active" => phase' = "active")
    BY <1>2, <1>3, <1>7
    DEF CreateStep, ApplyNamespace, ApplyService, PollAddress, PollInVain,
        PatchLoadBalancer, GetCa, GenerateCa, WriteKubeconfig,
        ApplyRemoteAccess, ApplyControlPlane, CreateFails, Fails,
        ControlLogFails
  <2> QED
    BY <1>2, <1>4, <2>1 DEF LeftoverInv, ExportedInv, PluginAtWork
<1> QED
  BY <1>5, <1>6, <1>7

\* A delete that was not overtaken leaves no release, and nobody to install
\* one, behind it.
LEMMA ExportedOfDelete ==
  ASSUME LifecycleInv, Undisturbed => LeftoverInv,
         NEW d \in Deletes, DeleteStep(d), Undisturbed'
  PROVE  ExportedInv'
<1> USE DEF Goto, hostVars, procVars, localVars
<1>1. d \in Requests
  BY DEF Requests
<1>2. TypeOK /\ AtInBounds /\ Calm /\ LeftoverInv /\ ~CallFails
  BY StaysUndisturbed DEF LifecycleInv, ShapeInv, Next
<1>3. /\ DeleteBetween(8, 26) <=> pc[d] = "delete" /\ at[d] \in 8..26
      /\ DeleteBetween(8, 26)' <=> pc'[d] = "delete" /\ at'[d] \in 8..26
  BY <1>1, <1>2, DeleteFrame, OneDeleteAtWork DEF LifecycleInv, Calm
<1>4. CASE \E ok \in BOOLEAN : UninstallRelease(d, ok)
  <2>1. release' = "none" /\ overtaken' = PluginAtWork
    BY <1>2, <1>4 DEF UninstallRelease
  <2>2. PluginAtWork' = PluginAtWork
    BY <1>4 DEF UninstallRelease, PluginAtWork
  <2> QED
    BY <2>1, <2>2 DEF ExportedInv
<1>5. CASE GetCluster(d) \/ GetClusterFails(d)
  <2>1. UNCHANGED <<release, pluginPc, overtaken, phase, objects>>
    BY <1>5 DEF GetCluster, GetClusterFails, Fails
  <2>2. pc[d] = "get" /\ (pc'[d] = "delete" => at'[d] \in {1, 7})
    BY <1>1, <1>2, <1>5
    DEF GetCluster, GetClusterFails, Fails, AfterMonitoring, TypeOK
  <2> QED
    BY <1>2, <1>3, <2>1, <2>2 DEF LeftoverInv, ExportedInv, PluginAtWork
<1>6. CASE /\ ~GetCluster(d) /\ ~GetClusterFails(d)
           /\ ~\E ok \in BOOLEAN : UninstallRelease(d, ok)
  <2>1. PICK ok \in BOOLEAN : DeleteObject(d, ok) \/ DeleteNamespace(d, ok)
    BY <1>2, <1>6 DEF DeleteStep, UninstallPanics
  <2>2. UNCHANGED <<release, pluginPc, overtaken>>
    BY <2>1 DEF DeleteObject, DeleteNamespace
  <2>3. ASSUME DeleteObject(d, ok), at[d] \in 1..7
        PROVE  ExportedInv'
    <3>1. /\ DeleteOrder[at[d]] \in Objects /\ phase' = phase
          /\ objects' = objects \/ objects' = objects \ {DeleteOrder[at[d]]}
      BY <2>3 DEF DeleteObject
    <3>2. DeleteOrder[7] = "release" /\ "release" \notin Objects
      BY Lengths DEF DeleteOrder, Objects, Elements, CreateOrder, LogOrder,
         MonitorOrder
    <3>3. at[d] # 7 /\ DeleteOrder[at[d]] # "configmap/cluster-ca"
      BY <2>3, <3>1, <3>2, DeleteEnds
    <3>4. pc'[d] = "delete" => at'[d] = at[d] + 1
      BY <1>1, <1>2, <2>3 DEF DeleteObject, NextDelete, TypeOK
    <3>5. ~DeleteBetween(8, 26) /\ ~DeleteBetween(8, 26)'
      BY <1>3, <2>3, <3>3, <3>4
    <3> QED
      BY <1>2, <2>2, <3>1, <3>3, <3>5
      DEF LeftoverInv, ExportedInv, PluginAtWork
  <2>4. ASSUME pc[d] = "delete", at[d] \in 8..26
        PROVE  ExportedInv'
    BY <1>2, <1>3, <2>2, <2>4 DEF LeftoverInv, ExportedInv, PluginAtWork
  <2>5. pc[d] = "delete" /\ at[d] \in 1..26
    BY <1>1, <1>2, <2>1, Lengths
    DEF DeleteObject, DeleteNamespace, AtStep, AtInBounds
  <2>6. DeleteNamespace(d, ok) => at[d] = 23
    BY <2>5, DeletePositions DEF DeleteNamespace, AtStep
  <2>7. at[d] \in 1..7 \/ at[d] \in 8..26
    BY <2>5
  <2>8. CASE at[d] \in 1..7
    BY <2>1, <2>3, <2>6, <2>8
  <2> QED
    BY <2>4, <2>5, <2>7, <2>8
<1> QED
  BY <1>4, <1>5, <1>6

\* Monitoring takes nothing away.
LEMMA ExportedOfMonitor ==
  ASSUME LifecycleInv, Undisturbed => LeftoverInv,
         NEW m \in Monitors, MonitorStep(m), Undisturbed'
  PROVE  ExportedInv'
<1> USE DEF Goto, hostVars, procVars, localVars
<1>1. m \in Requests /\ m \notin Deletes
  BY RequestsAssumption DEF Requests
<1>2. TypeOK /\ Calm /\ LeftoverInv
  BY StaysUndisturbed DEF LifecycleInv, ShapeInv, Next
<1>3. ~DeleteBetween(8, 26)'
  BY <1>1, <1>2, MonitorFrame, NoDeleteAtWork DEF LifecycleInv, Calm
<1>4. /\ UNCHANGED <<release, pluginPc, overtaken, phase>>
      /\ objects \subseteq objects'
  BY DEF MonitorStep, InstallPrometheus, ApplyMonitoring, MonitoringRefused,
     MonitorFails, PatchMonitored, Fails
<1> QED
  BY <1>2, <1>3, <1>4 DEF LeftoverInv, ExportedInv, PluginAtWork

\* A create goes outside its namespace only when it has certificates.
LEMMA LeftoverOfCreate ==
  ASSUME LifecycleInv, Undisturbed => LeftoverInv,
         NEW c \in Creates, CreateStep(c), Undisturbed'
  PROVE  LeftoverInv'
<1> USE DEF Goto, hostVars, procVars, localVars
<1>1. c \in Requests /\ c \notin Deletes /\ c \notin Monitors
  BY RequestsAssumption DEF Requests
<1>2. TypeOK /\ AtInBounds /\ Calm /\ CalmBody /\ LeftoverInv /\ ~CallFails
  BY StaysUndisturbed DEF LifecycleInv, ShapeInv, Next
<1>3. ~PollFails(c)
  BY <1>2 DEF PollFails, CalmBody, CreateInv
<1>4. /\ DeletedInv' /\ MonitoredInv' /\ ExportedInv'
      /\ \A m \in Monitors : pc[m] \in Resting /\ pc'[m] \in Resting
      /\ \A i, j \in Nat : ~DeleteBetween(i, j) /\ ~DeleteBetween(i, j)'
  BY <1>1, <1>2, <1>3, CreateFrame, NoDeleteAtWork, NoMonitorAtWork,
     ExportedOfCreate DEF LifecycleInv, Calm
<1>5. \A q \in Creates \ {c} : pc'[q] \in Resting
  BY <1>2, <1>3, CreateFrame, OthersRest DEF LifecycleInv, Requests
<1>6. CASE ApplyNamespace(c)
  <2>1. CertificatesInv'
    BY <1>2, <1>4, <1>6 DEF ApplyNamespace, LeftoverInv, CertificatesInv
  <2>2. OutsideInv'
    BY <1>2, <1>4, <1>6
    DEF ApplyNamespace, LeftoverInv, OutsideInv, Resting, TypeOK
  <2>3. GivenUpInv'
    BY <1>2, <1>6 DEF ApplyNamespace, LeftoverInv, GivenUpInv
  <2> QED
    BY <1>4, <2>1, <2>2, <2>3 DEF LeftoverInv
<1>7. CASE ApplyService(c)
  <2>1. CertificatesInv'
    BY <1>2, <1>4, <1>7 DEF ApplyService, LeftoverInv, CertificatesInv
  <2>2. OutsideInv'
    BY <1>2, <1>4, <1>7 DEF ApplyService, Accepted, LeftoverInv, OutsideInv
  <2>3. GivenUpInv'
    BY <1>2, <1>7 DEF ApplyService, LeftoverInv, GivenUpInv
  <2> QED
    BY <1>4, <2>1, <2>2, <2>3 DEF LeftoverInv
<1>8. CASE PollAddress(c)
  <2>1. CertificatesInv'
    BY <1>8 DEF PollAddress, CertificatesInv
  <2>2. OutsideInv'
    BY <1>1, <1>2, <1>4, <1>8 DEF PollAddress, LeftoverInv, OutsideInv
  <2>3. GivenUpInv'
    BY <1>2, <1>8
    DEF PollAddress, LeftoverInv, GivenUpInv, CreateInv, CalmBody
  <2> QED
    BY <1>4, <2>1, <2>2, <2>3 DEF LeftoverInv
<1>9. CASE PollInVain(c)
  <2>1. CertificatesInv'
    BY <1>2, <1>9 DEF PollInVain, LeftoverInv, CertificatesInv
  <2>2. OutsideInv'
    BY <1>2, <1>4, <1>9 DEF PollInVain, LeftoverInv, OutsideInv
  <2>3. GivenUpInv'
    BY <1>2, <1>9 DEF PollInVain, LeftoverInv, CertificatesInv, GivenUpInv
  <2> QED
    BY <1>4, <2>1, <2>2, <2>3 DEF LeftoverInv
<1>10. ASSUME NEW s \in BOOLEAN, NEW n \in BOOLEAN, PollTimesOut(c, s, n)
      PROVE  LeftoverInv'
  <2>1. CertificatesInv'
    BY <1>2, <1>10 DEF PollTimesOut, LeftoverInv, CertificatesInv, GivenUpInv
  <2>2. OutsideInv'
    BY <1>2, <1>4, <1>10 DEF PollTimesOut, LeftoverInv, OutsideInv, GivenUpInv
  <2>3. GivenUpInv'
    BY <1>2, <1>10 DEF PollTimesOut, LeftoverInv, GivenUpInv
  <2> QED
    BY <1>4, <2>1, <2>2, <2>3 DEF LeftoverInv
<1>11. ASSUME NEW p \in BOOLEAN, PatchLoadBalancer(c, p)
      PROVE  LeftoverInv'
  <2>1. CertificatesInv'
    BY <1>2, <1>4, <1>11 DEF PatchLoadBalancer, LeftoverInv, CertificatesInv
  <2>2. OutsideInv'
    BY <1>2, <1>4, <1>11
    DEF PatchLoadBalancer, LeftoverInv, OutsideInv, Resting, TypeOK
  <2>3. GivenUpInv'
    BY <1>2, <1>11 DEF PatchLoadBalancer, LeftoverInv, GivenUpInv
  <2> QED
    BY <1>4, <2>1, <2>2, <2>3 DEF LeftoverInv
<1>12. CASE GetCa(c)
  <2>1. CertificatesInv'
    BY <1>2, <1>4, <1>12 DEF GetCa, LeftoverInv, CertificatesInv
  <2>2. OutsideInv'
    BY <1>2, <1>4, <1>12 DEF GetCa, LeftoverInv, OutsideInv, Resting
  <2>3. GivenUpInv'
    BY <1>2, <1>12 DEF GetCa, LeftoverInv, Requests, GivenUpInv, TypeOK
  <2> QED
    BY <1>4, <2>1, <2>2, <2>3 DEF LeftoverInv
<1>13. CASE GenerateCa(c)
  <2>1. CertificatesInv'
    BY <1>2, <1>13
    DEF GenerateCa, Accepted, CertificatesInv, CreateInv, AfterPoll, CalmBody
  <2>2. OutsideInv'
    BY <1>2, <1>4, <1>13 DEF GenerateCa, Accepted, LeftoverInv, OutsideInv
  <2>3. GivenUpInv'
    BY <1>2, <1>13, <1>5
    DEF GenerateCa, Accepted, LeftoverInv, Resting, GivenUpInv
  <2> QED
    BY <1>4, <2>1, <2>2, <2>3 DEF LeftoverInv
<1>14. ASSUME NEW w \in BOOLEAN, WriteKubeconfig(c, w)
      PROVE  LeftoverInv'
  <2>1. CertificatesInv'
    BY <1>2, <1>4, <1>14 DEF WriteKubeconfig, LeftoverInv, CertificatesInv
  <2>2. OutsideInv'
    BY <1>2, <1>14 DEF WriteKubeconfig, LeftoverInv, OutsideInv, GivenUpInv
  <2>3. GivenUpInv'
    BY <1>2, <1>14 DEF WriteKubeconfig, LeftoverInv, GivenUpInv
  <2> QED
    BY <1>4, <2>1, <2>2, <2>3 DEF LeftoverInv
<1>15. ASSUME NEW a \in BOOLEAN, ApplyRemoteAccess(c, a)
      PROVE  LeftoverInv'
  <2>1. CertificatesInv'
    BY <1>2, <1>4, <1>15 DEF ApplyRemoteAccess, LeftoverInv, CertificatesInv
  <2>2. OutsideInv'
    BY <1>2, <1>4, <1>15
    DEF ApplyRemoteAccess, Accepted, LeftoverInv, OutsideInv
  <2>3. GivenUpInv'
    BY <1>2, <1>15 DEF ApplyRemoteAccess, LeftoverInv, GivenUpInv
  <2> QED
    BY <1>4, <2>1, <2>2, <2>3 DEF LeftoverInv
<1>16. CASE ApplyControlPlane(c)
  <2>1. CertificatesInv'
    BY <1>2, <1>4, <1>16
    DEF ApplyControlPlane, LeftoverInv, CertificatesInv, GivenUpInv
  <2>2. OutsideInv'
    BY <1>1, <1>2, <1>4, <1>16, Lengths, CreateStaysInside
    DEF ApplyControlPlane, Accepted, LeftoverInv, OutsideInv, Outside,
        Resting, AtInBounds
  <2>3. GivenUpInv'
    BY <1>2, <1>16
    DEF ApplyControlPlane, LeftoverInv, Requests, GivenUpInv, TypeOK
  <2> QED
    BY <1>4, <2>1, <2>2, <2>3 DEF LeftoverInv
<1>17. CASE CreateFails(c)
  <2>1. CertificatesInv'
    BY <1>2, <1>4, <1>17 DEF CreateFails, Fails, LeftoverInv, CertificatesInv
  <2>2. OutsideInv'
    BY <1>2, <1>4, <1>17 DEF CreateFails, Fails, LeftoverInv, OutsideInv
  <2>3. GivenUpInv'
    BY <1>2, <1>17 DEF CreateFails, Fails, LeftoverInv, GivenUpInv
  <2> QED
    BY <1>4, <2>1, <2>2, <2>3 DEF LeftoverInv
<1>18. CASE ControlLog(c)
  <2>1. CertificatesInv'
    BY <1>2, <1>4, <1>18
    DEF ControlLog, LeftoverInv, CertificatesInv, GivenUpInv
  <2>2. OutsideInv'
    BY <1>1, <1>2, <1>4, <1>18, Lengths, LogPositions
    DEF ControlLog, LeftoverInv, OutsideInv, Resting, GivenUpInv, AtInBounds
  <2>3. GivenUpInv'
    BY <1>2, <1>18
    DEF ControlLog, Answer, LeftoverInv, Requests, GivenUpInv, TypeOK
  <2> QED
    BY <1>4, <2>1, <2>2, <2>3 DEF LeftoverInv
<1>19. CASE ControlLogFails(c)
  <2>1. CertificatesInv'
    BY <1>2, <1>19 DEF ControlLogFails
  <2>2. OutsideInv'
    BY <1>2, <1>19 DEF ControlLogFails
  <2>3. GivenUpInv'
    BY <1>2, <1>19 DEF ControlLogFails
  <2> QED
    BY <1>4, <2>1, <2>2, <2>3 DEF LeftoverInv
<1> QED
  BY <1>3, <1>6, <1>7, <1>8, <1>9, <1>10, <1>11, <1>12, <1>13, <1>14, <1>15,
     <1>16, <1>17, <1>18, <1>19 DEF CreateStep

\* A delete passes the objects outside one after the other.
LEMMA LeftoverOfDelete ==
  ASSUME LifecycleInv, Undisturbed => LeftoverInv,
         NEW d \in Deletes, DeleteStep(d), Undisturbed'
  PROVE  LeftoverInv'
<1> USE DEF Goto, hostVars, procVars, localVars
<1>1. d \in Requests /\ d \notin Creates /\ d \notin Monitors
  BY RequestsAssumption DEF Requests
<1>2. TypeOK /\ AtInBounds /\ Calm /\ CalmBody /\ LeftoverInv /\ ~CallFails
  BY StaysUndisturbed DEF LifecycleInv, ShapeInv, Next
<1>3. /\ GivenUpInv' /\ MonitoredInv' /\ ExportedInv'
      /\ \A m \in Monitors : pc[m] \in Resting /\ pc'[m] \in Resting
      /\ \A i, j \in Nat :
           /\ DeleteBetween(i, j) <=> pc[d] = "delete" /\ at[d] \in i..j
           /\ DeleteBetween(i, j)' <=> pc'[d] = "delete" /\ at'[d] \in i..j
  BY <1>1, <1>2, DeleteFrame, NoCreateAtWork, NoMonitorAtWork,
     OneDeleteAtWork, ExportedOfDelete DEF LifecycleInv, Calm
<1>4. \A q \in Deletes \ {d} : pc'[q] \in Resting
  BY <1>2, DeleteFrame, OthersRest DEF LifecycleInv, Requests
<1>5. CASE GetCluster(d)
  <2>1. CertificatesInv'
    BY <1>2, <1>3, <1>5 DEF GetCluster, LeftoverInv, CertificatesInv
  <2>2. OutsideInv'
    BY <1>2, <1>3, <1>5 DEF GetCluster, LeftoverInv, OutsideInv
  <2>3. DeletedInv'
    BY <1>2, <1>3, <1>5, Lengths
    DEF GetCluster, AfterMonitoring, LeftoverInv, OutsideInv, Resting,
        DeletedInv, TypeOK, AtInBounds, Calm
  <2> QED
    BY <1>3, <2>1, <2>2, <2>3 DEF LeftoverInv
<1>6. CASE GetClusterFails(d)
  <2>1. CertificatesInv'
    BY <1>2, <1>3, <1>6
    DEF GetClusterFails, Fails, LeftoverInv, CertificatesInv
  <2>2. OutsideInv'
    BY <1>2, <1>3, <1>6 DEF GetClusterFails, Fails, LeftoverInv, OutsideInv
  <2>3. DeletedInv'
    BY <1>2, <1>6 DEF GetClusterFails, Fails, LeftoverInv, DeletedInv
  <2> QED
    BY <1>3, <2>1, <2>2, <2>3 DEF LeftoverInv
<1>7. ASSUME NEW ok \in BOOLEAN, DeleteObject(d, ok)
      PROVE  LeftoverInv'
  <2>1. CertificatesInv'
    BY <1>1, <1>2, <1>3, <1>7, Lengths, DeleteEnds
    DEF DeleteObject, NextDelete, LeftoverInv, CertificatesInv, DeletedInv,
        TypeOK
  <2>2. OutsideInv'
    BY <1>1, <1>2, <1>3, <1>7, Lengths, DeleteEnds
    DEF DeleteObject, NextDelete, LeftoverInv, OutsideInv, DeletedInv, TypeOK,
        AtInBounds
  <2>3. DeletedInv'
    BY <1>2, <1>7, Lengths, DeleteEnds
    DEF DeleteObject, NextDelete, LeftoverInv, CertificatesInv, Requests,
        DeletedInv, TypeOK
  <2> QED
    BY <1>3, <2>1, <2>2, <2>3 DEF LeftoverInv
<1>8. ASSUME NEW ok \in BOOLEAN, UninstallRelease(d, ok)
      PROVE  LeftoverInv'
  <2>1. CertificatesInv'
    BY <1>2, <1>3, <1>8, Lengths, DeletePositions
    DEF UninstallRelease, AtStep, NextDelete, LeftoverInv, CertificatesInv,
        TypeOK
  <2>2. OutsideInv'
    BY <1>1, <1>2, <1>3, <1>8, DeletePositions
    DEF UninstallRelease, AtStep, LeftoverInv, OutsideInv, Resting
  <2>3. DeletedInv'
    BY <1>2, <1>8, Lengths, DeletePositions
    DEF UninstallRelease, AtStep, NextDelete, LeftoverInv, Requests,
        DeletedInv, TypeOK
  <2> QED
    BY <1>3, <2>1, <2>2, <2>3 DEF LeftoverInv
<1>9. ASSUME NEW ok \in BOOLEAN, DeleteNamespace(d, ok)
      PROVE  LeftoverInv'
  <2>1. CertificatesInv'
    BY <1>1, <1>2, <1>3, <1>9, DeletePositions
    DEF DeleteNamespace, AtStep, LeftoverInv, CertificatesInv
  <2>2. OutsideInv'
    BY <1>1, <1>2, <1>3, <1>9, Lengths, DeletePositions
    DEF DeleteNamespace, AtStep, NextDelete, LeftoverInv, OutsideInv,
        DeletedInv, TypeOK, AtInBounds
  <2>3. DeletedInv'
    BY <1>2, <1>9, Lengths, DeletePositions
    DEF DeleteNamespace, AtStep, NextDelete, LeftoverInv, Requests,
        DeletedInv, TypeOK
  <2> QED
    BY <1>3, <2>1, <2>2, <2>3 DEF LeftoverInv
<1>10. CASE UninstallPanics(d)
  <2>1. CertificatesInv'
    BY <1>2, <1>10 DEF UninstallPanics
  <2>2. OutsideInv'
    BY <1>2, <1>10 DEF UninstallPanics
  <2>3. DeletedInv'
    BY <1>2, <1>10 DEF UninstallPanics
  <2> QED
    BY <1>3, <2>1, <2>2, <2>3 DEF LeftoverInv
<1> QED
  BY <1>5, <1>6, <1>7, <1>8, <1>9, <1>10 DEF DeleteStep

\* Monitoring is switched on for a cluster that lives.
LEMMA LeftoverOfMonitor ==
  ASSUME LifecycleInv, Undisturbed => LeftoverInv,
         NEW m \in Monitors, MonitorStep(m), Undisturbed'
  PROVE  LeftoverInv'
<1> USE DEF Goto, hostVars, procVars, localVars
<1>1. m \in Requests /\ m \notin Creates /\ m \notin Deletes
  BY RequestsAssumption DEF Requests
<1>2. TypeOK /\ AtInBounds /\ Calm /\ CalmBody /\ LeftoverInv /\ ~CallFails
  BY StaysUndisturbed DEF LifecycleInv, ShapeInv, Next
<1>3. /\ GivenUpInv' /\ DeletedInv' /\ ExportedInv'
      /\ \A i, j \in Nat : ~DeleteBetween(i, j) /\ ~DeleteBetween(i, j)'
  BY <1>1, <1>2, MonitorFrame, NoDeleteAtWork, NoCreateAtWork,
     ExportedOfMonitor DEF LifecycleInv, Calm
<1>4. \A q \in Monitors \ {m} : pc'[q] \in Resting
  BY <1>2, MonitorFrame, OthersRest DEF LifecycleInv, Requests
<1>5. CASE InstallPrometheus(m)
  <2>1. CertificatesInv'
    BY <1>2, <1>3, <1>5 DEF InstallPrometheus, LeftoverInv, CertificatesInv
  <2>2. OutsideInv'
    BY <1>2, <1>3, <1>5 DEF InstallPrometheus, LeftoverInv, OutsideInv
  <2>3. MonitoredInv'
    BY <1>2, <1>3, <1>5
    DEF InstallPrometheus, FileReachesCluster, LeftoverInv, OutsideInv,
        MonitoredInv
  <2> QED
    BY <1>3, <2>1, <2>2, <2>3 DEF LeftoverInv
<1>6. CASE ApplyMonitoring(m)
  <2>1. CertificatesInv'
    BY <1>2, <1>3, <1>6
    DEF ApplyMonitoring, LeftoverInv, CertificatesInv, MonitoredInv
  <2>2. OutsideInv'
    BY <1>2, <1>6
    DEF ApplyMonitoring, NextMonitor, LeftoverInv, OutsideInv, MonitoredInv,
        TypeOK
  <2>3. MonitoredInv'
    BY <1>2, <1>6 DEF ApplyMonitoring, LeftoverInv, MonitoredInv
  <2> QED
    BY <1>3, <2>1, <2>2, <2>3 DEF LeftoverInv
<1>7. CASE MonitoringRefused(m)
  <2>1. CertificatesInv'
    BY <1>2, <1>3, <1>7 DEF MonitoringRefused, LeftoverInv, CertificatesInv
  <2>2. OutsideInv'
    BY <1>2, <1>3, <1>7
    DEF MonitoringRefused, MonitorAccepted, Accepted, LeftoverInv, OutsideInv
  <2>3. MonitoredInv'
    BY <1>2, <1>7 DEF MonitoringRefused, LeftoverInv, MonitoredInv
  <2> QED
    BY <1>3, <2>1, <2>2, <2>3 DEF LeftoverInv
<1>8. CASE MonitorFails(m)
  <2>1. CertificatesInv'
    BY <1>2, <1>3, <1>8 DEF MonitorFails, Fails, LeftoverInv, CertificatesInv
  <2>2. OutsideInv'
    BY <1>2, <1>3, <1>8
    DEF MonitorFails, MonitorAccepted, Accepted, Fails, LeftoverInv,
        OutsideInv
  <2>3. MonitoredInv'
    BY <1>2, <1>8 DEF MonitorFails, Fails, LeftoverInv, MonitoredInv
  <2> QED
    BY <1>3, <2>1, <2>2, <2>3 DEF LeftoverInv
<1>9. ASSUME NEW p \in BOOLEAN, PatchMonitored(m, p)
      PROVE  LeftoverInv'
  <2>1. CertificatesInv'
    BY <1>2, <1>3, <1>9 DEF PatchMonitored, LeftoverInv, CertificatesInv
  <2>2. OutsideInv'
    BY <1>2, <1>3, <1>9
    DEF PatchMonitored, NoCallFails, LeftoverInv, CertificatesInv, OutsideInv,
        Outside
  <2>3. MonitoredInv'
    BY <1>2, <1>9 DEF PatchMonitored, LeftoverInv, MonitoredInv
  <2> QED
    BY <1>3, <2>1, <2>2, <2>3 DEF LeftoverInv
<1> QED
  BY <1>5, <1>6, <1>7, <1>8, <1>9 DEF MonitorStep

\* The plugin goroutine installs the exporter and touches nothing else.
LEMMA LeftoverOfPlugin ==
  ASSUME LifecycleInv, Undisturbed => LeftoverInv,
         NEW c \in Creates, PluginStep(c), Undisturbed'
  PROVE  LeftoverInv'
<1> USE DEF LifecycleInv, ShapeInv, hostVars, procVars, localVars, CallFails,
            NoCallFails
<1>1. Calm /\ LeftoverInv
  BY DEF PluginStep, PluginReady, PluginTimesOut, InstallNetwork,
         InstallExporter, ExporterFails, Calm, Undisturbed, TypeOK
<1>2. UNCHANGED <<labels, svcAddress, pc, at>>
  BY DEF PluginStep, PluginReady, PluginTimesOut, InstallNetwork,
         InstallExporter, ExporterFails
<1>3. phase' = phase /\ objects' \in {objects, objects \cup {"event-exporter"}}
  BY <1>1 DEF PluginStep, PluginReady, PluginTimesOut, InstallNetwork,
         InstallExporter, ExporterFails, Calm, Undisturbed, TypeOK
<1>4. phase = "none" => objects' = objects
  BY <1>1 DEF PluginStep, PluginReady, PluginTimesOut, InstallNetwork,
         InstallExporter, ExporterFails, Calm, Undisturbed, TypeOK
<1>5. CertificatesInv' /\ OutsideInv'
  BY <1>1, <1>2, <1>3, <1>4
  DEF LeftoverInv, CertificatesInv, OutsideInv, DeleteBetween
<1>6. GivenUpInv' /\ DeletedInv' /\ MonitoredInv'
  BY <1>1, <1>2, <1>3, <1>4
  DEF LeftoverInv, GivenUpInv, DeletedInv, MonitoredInv
<1>7. ExportedInv'
  <2>1. PluginAtWork /\ UNCHANGED overtaken
    BY DEF PluginStep, PluginReady, PluginTimesOut, InstallNetwork,
           InstallExporter, ExporterFails, PluginAtWork, PluginSteps
  <2>2. DeleteBetween(8, 26)' <=> DeleteBetween(8, 26)
    BY <1>2 DEF DeleteBetween
  <2> QED
    BY <1>1, <1>3, <2>1, <2>2 DEF LeftoverInv, ExportedInv
<1> QED
  BY <1>5, <1>6, <1>7 DEF LeftoverInv

\* A delete that has been sent has still everything to remove.
LEMMA LeftoverOfOperator ==
  ASSUME LifecycleInv, Undisturbed => LeftoverInv, Operator, Undisturbed'
  PROVE  LeftoverInv'
<1> USE DEF LifecycleInv, ShapeInv, hostVars, procVars, localVars
<1>1. PICK r \in Requests, step \in {"namespace", "get", "install"} :
        /\ MaySend(r) /\ Goto(r, step)
        /\ UNCHANGED <<hostVars, up, crashes, revived, overtaken, errors, at,
                       pluginPc>>
  BY DEF Operator, ClusterCreate, ClusterDelete, ClusterMonitor, Sent, Requests
<1>2. Calm /\ LeftoverInv
  BY StaysUndisturbed DEF Next
<1>3. \A q \in Requests : pc[q] \in Resting
  BY <1>1, <1>2 DEF MaySend, Calm
<1>4. \A q \in Requests :
        pc'[q] \in Resting \cup {"namespace", "get", "install"}
  BY <1>1, <1>3 DEF Goto, TypeOK
<1>5. GivenUpInv' /\ DeletedInv' /\ MonitoredInv'
  BY <1>4 DEF GivenUpInv, DeletedInv, MonitoredInv, Requests, Resting
<1>6. CertificatesInv' /\ OutsideInv'
  BY <1>1, <1>2, <1>3 DEF LeftoverInv, CertificatesInv, OutsideInv,
     DeleteBetween, Requests, Resting
<1>7. ExportedInv'
  <2>1. ~DeleteBetween(8, 26)'
    BY <1>4 DEF DeleteBetween, Requests, Resting
  <2> QED
    BY <1>1, <1>2, <2>1 DEF LeftoverInv, ExportedInv, PluginAtWork
<1> QED
  BY <1>5, <1>6, <1>7 DEF LeftoverInv

\* What is outside belongs to a cluster that lives or is about to be removed.
LEMMA LeftoverStep ==
  ASSUME LifecycleInv, Undisturbed => LeftoverInv, [Next]_vars, Undisturbed'
  PROVE  LeftoverInv'
<1> USE DEF LifecycleInv, ShapeInv, hostVars, procVars, historyVars,
           localVars
<1>1. CASE NamespaceFinalized
  <2> USE <1>1 DEF NamespaceFinalized
  <2>1. Calm /\ CalmBody /\ LeftoverInv
    BY DEF Calm, Undisturbed
  <2>2. CertificatesInv' /\ OutsideInv'
    BY <2>1 DEF LeftoverInv, CertificatesInv, OutsideInv, DeleteBetween, Outside
  <2>3. GivenUpInv' /\ DeletedInv' /\ MonitoredInv'
    BY <2>1 DEF LeftoverInv, GivenUpInv, DeletedInv, MonitoredInv, Outside
  <2>4. ExportedInv'
    BY <2>1 DEF LeftoverInv, ExportedInv, PluginAtWork
  <2> QED
    BY <2>2, <2>3, <2>4 DEF LeftoverInv
<1>2. CASE AddressAssigned
  <2> USE <1>2 DEF AddressAssigned
  <2>1. LeftoverInv
    BY DEF Calm, Undisturbed
  <2>2. CertificatesInv' /\ OutsideInv'
    BY <2>1 DEF LeftoverInv, CertificatesInv, OutsideInv, DeleteBetween
  <2>3. GivenUpInv' /\ DeletedInv' /\ MonitoredInv'
    BY <2>1 DEF LeftoverInv, GivenUpInv, DeletedInv, MonitoredInv
  <2>4. ExportedInv'
    BY <2>1 DEF LeftoverInv, ExportedInv, PluginAtWork, DeleteBetween
  <2> QED
    BY <2>2, <2>3, <2>4 DEF LeftoverInv
<1>3. CASE Crash
  <2> USE <1>3 DEF Crash
  <2>1. LeftoverInv
    BY StaysUndisturbed DEF Next
  <2>2. \A r \in Requests : pc'[r] \in Resting
    BY DEF ProcessDies, Resting
  <2>3. \A r \in Deletes \cup Monitors : pc[r] \in Resting
    BY DEF Undisturbed, ProcessDies, Requests
  <2>4. GivenUpInv' /\ DeletedInv' /\ MonitoredInv'
    BY <2>2 DEF GivenUpInv, DeletedInv, MonitoredInv, Requests, Resting
  <2>5. \A i, j \in Nat : ~DeleteBetween(i, j) /\ ~DeleteBetween(i, j)'
    BY <2>2, <2>3 DEF DeleteBetween, Requests, Resting
  <2>6. CertificatesInv' /\ OutsideInv'
    BY <2>1, <2>3, <2>5 DEF LeftoverInv, CertificatesInv, OutsideInv, Resting
  <2>7. ExportedInv'
    BY <2>1, <2>5
    DEF LeftoverInv, ExportedInv, PluginAtWork, ProcessDies, PluginResting,
        PluginSteps
  <2> QED
    BY <2>4, <2>6, <2>7 DEF LeftoverInv
<1>4. CASE Restart \/ UNCHANGED vars
  <2>1. UNCHANGED <<hostVars, errors, revived, overtaken, pc, at, localVars,
                    pluginPc>>
    BY <1>4 DEF Restart, vars
  <2>2. LeftoverInv
    BY <2>1 DEF Calm, Undisturbed
  <2>3. CertificatesInv' /\ OutsideInv'
    BY <2>1, <2>2 DEF LeftoverInv, CertificatesInv, OutsideInv, DeleteBetween
  <2>4. GivenUpInv' /\ DeletedInv' /\ MonitoredInv'
    BY <2>1, <2>2 DEF LeftoverInv, GivenUpInv, DeletedInv, MonitoredInv
  <2>5. ExportedInv'
    BY <2>1, <2>2 DEF LeftoverInv, ExportedInv, PluginAtWork, DeleteBetween
  <2> QED
    BY <2>3, <2>4, <2>5 DEF LeftoverInv
<1> QED
  BY <1>1, <1>2, <1>3, <1>4, LeftoverOfOperator, LeftoverOfCreate,
     LeftoverOfPlugin, LeftoverOfDelete, LeftoverOfMonitor DEF Next

\* Nothing is outside in the beginning.
LEMMA LeftoverInitial == Init => (Undisturbed => LeftoverInv)
<1> SUFFICES ASSUME Init
             PROVE  LeftoverInv
  OBVIOUS
<1> USE DEF Init
<1>1. CertificatesInv /\ OutsideInv
  BY DEF CertificatesInv, OutsideInv
<1>2. GivenUpInv /\ DeletedInv /\ MonitoredInv
  BY DEF GivenUpInv, DeletedInv, MonitoredInv, Requests
<1>3. ExportedInv
  BY DEF ExportedInv, PluginAtWork, PluginSteps
<1> QED
  BY <1>1, <1>2, <1>3 DEF LeftoverInv

\* Once the namespace is gone and nobody is at work, nothing is left outside,
\* the Helm release included unless its plugin overtook the delete.
THEOREM NothingIsLeft == Spec => []GoneLeavesNothing
<1>1. LifecycleInv /\ (Undisturbed => LeftoverInv) /\ [Next]_vars
      => (Undisturbed => LeftoverInv)'
  BY LeftoverStep
<1>2. LifecycleInv /\ (Undisturbed => LeftoverInv) => GoneLeavesNothing
  <2> SUFFICES ASSUME Undisturbed, LeftoverInv, ~overtaken, AllAnswered,
                      phase = "none"
               PROVE  objects = {} /\ release = "none"
    BY DEF GoneLeavesNothing, Undisturbed, Calm
  <2>1. \A k, n \in Nat : ~DeleteBetween(k, n)
    BY DEF AllAnswered, DeleteBetween, Requests, Resting
  <2>2. objects = {}
    BY <2>1 DEF LeftoverInv, OutsideInv, Outside
  <2>3. release = "none"
    BY DEF LeftoverInv, ExportedInv
  <2> QED
    BY <2>2, <2>3
<1> QED
  BY <1>1, <1>2, LeftoverInitial, LifecycleInvariant, PTL DEF Spec

====
