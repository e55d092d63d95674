------------------------- MODULE ClusterLives_proofs -------------------------
(***************************************************************************)
(* ClusterLifecycle implements ClusterLives, for any number of requests    *)
(* and kills, as long as requests are sent one at a time and no call fails *)
(* for a reason of its own.                                                *)
(*                                                                         *)
(* The invariant of ClusterLifecycle_proofs does most of it: the scheduler *)
(* is the last object a create applies and the first a delete removes, so  *)
(* a cluster that is complete agrees with itself and is in an active       *)
(* namespace, and every call that could hurt one that serves finds, or has *)
(* made, it incomplete.  What is added is where certificates are: inside   *)
(* the namespace, and never empty (IdentityInv).  Then every call is one   *)
(* step of ClusterLives or none.                                           *)
(***************************************************************************)
EXTENDS ClusterLifecycle_proofs

\* Certificates are never empty and go with the namespace.
IdentityInv ==
  "configmap/cluster-ca" \in objects => ca # NoCa /\ phase # "none"

\* What a step of the handlers has to be.
LivesStep == Lives!Next \/ UNCHANGED Lives!vars

\* What ClusterLives sees of the cluster.
LivesVars == <<phase, Identity, HandedOut, Complete>>

-----------------------------------------------------------------------------
(* The mapping.                                                            *)

\* Nothing of the cluster changes for its users.
LEMMA LivesStutters ==
  ASSUME UNCHANGED LivesVars
  PROVE  LivesStep
  BY DEF LivesStep, LivesVars, Lives!vars

\* The view depends on the namespace, the objects and three contents.
LEMMA SameView ==
  ASSUME UNCHANGED <<phase, objects, ca, remoteAccess, file>>
  PROVE  LivesStep
  BY LivesStutters DEF LivesVars, Identity, HandedOut, Complete

\* What is complete lacks nothing of what create applies.
LEMMA CompleteHasAll ==
  /\ Complete <=> \A k \in 1..12 : CreateOrder[k] \in objects
  /\ Complete => "deployment/kube-scheduler" \in objects
<1>1. CreateOrder[12] = "deployment/kube-scheduler"
  BY DEF CreateOrder
<1> QED
  BY <1>1, Lengths DEF Complete, Elements

\* Create applies neither certificates nor kubeconfigs in its list, and
\* nothing of another kind is in it.
LEMMA CreateAppliesNoIdentity ==
  \A k \in 1..12 :
    CreateOrder[k] \notin {"configmap/cluster-ca", "file", "event-exporter",
      "configmap/remote-access", "service/kube-apiserver", "clusteroutput",
      "clusterfluentdconfig"}
  BY DEF CreateOrder

\* Monitoring has no part in what makes a cluster.
LEMMA MonitoringIsAside ==
  \A k \in 1..6 :
    /\ MonitorOrder[k] \notin {"configmap/cluster-ca", "file",
                               "configmap/remote-access"}
    /\ \A j \in 1..12 : MonitorOrder[k] # CreateOrder[j]
  BY DEF MonitorOrder, CreateOrder

\* A cluster that serves agrees with itself and is in an active namespace.
LEMMA ServingAgrees ==
  ASSUME LifecycleInv, Calm, Complete
  PROVE  /\ phase = "active"
         /\ {"file", "configmap/remote-access", "configmap/cluster-ca",
             "service/kube-apiserver"} \subseteq objects
         /\ "deployment/kube-scheduler" \in objects
         /\ file = [ca |-> ca, host |-> svcAddress]
         /\ remoteAccess = file
<1>1. "deployment/kube-scheduler" \in objects
  BY CompleteHasAll
<1> QED
  BY <1>1 DEF LifecycleInv, CalmBody, HostInv, NeedsPresent, ServiceInv,
              AgreeInv, Calm, SchedulerNeeds

\* The kubeconfigs that are handed out are kubeconfigs.
LEMMA HandedOutType == TypeOK => HandedOut \subseteq Kubeconfigs
  BY DEF TypeOK, HandedOut

\* An object that is no part of the view may come and go.
LEMMA AsideObject ==
  ASSUME UNCHANGED <<phase, ca, remoteAccess, file>>,
         NEW o, o \notin {"configmap/cluster-ca", "file",
                          "configmap/remote-access"},
         \A k \in 1..12 : CreateOrder[k] # o,
         objects' \in {objects \cup {o}, objects \ {o}}
  PROVE  LivesStep
<1>1. Complete' = Complete
  BY Lengths DEF Complete, Elements
<1>2. Identity' = Identity /\ HandedOut' = HandedOut
  BY DEF Identity, HandedOut
<1> QED
  BY <1>1, <1>2, LivesStutters DEF LivesVars

\* A kubeconfig may be written or removed while the cluster does not serve.
LEMMA HandsOut ==
  ASSUME TypeOK', ~Complete, UNCHANGED <<phase, ca>>,
         NEW o \in {"file", "configmap/remote-access"},
         objects' \in {objects \cup {o}, objects \ {o}}
  PROVE  LivesStep
<1>1. Complete' = Complete
  BY Lengths, CreateAppliesNoIdentity DEF Complete, Elements
<1>2. Identity' = Identity
  BY DEF Identity
<1>3. HandedOut' \in SUBSET Kubeconfigs
  BY HandedOutType DEF TypeOK, HandedOut
<1>4. Lives!HandOut
  BY <1>1, <1>2, <1>3 DEF Lives!HandOut
<1> QED
  BY <1>4 DEF LivesStep, Lives!Next

\* An object of the list may go at any time: the cluster stops serving.
LEMMA Interrupts ==
  ASSUME UNCHANGED <<phase, ca, remoteAccess, file>>,
         NEW k \in 1..12, objects' = objects \ {CreateOrder[k]}
  PROVE  LivesStep
<1>1. ~Complete'
  BY Lengths DEF Complete, Elements
<1>2. Identity' = Identity /\ HandedOut' = HandedOut
  BY CreateAppliesNoIdentity DEF Identity, HandedOut
<1>3. CASE Complete
  <2>1. Lives!Interrupt
    BY <1>1, <1>2, <1>3 DEF Lives!Interrupt, Complete
  <2> QED
    BY <2>1 DEF LivesStep, Lives!Next
<1>4. CASE ~Complete
  BY <1>1, <1>2, <1>4, LivesStutters DEF LivesVars, Complete
<1> QED
  BY <1>3, <1>4

\* Certificates may go while the cluster does not serve.
LEMMA Withdraws ==
  ASSUME IdentityInv, ~Complete, UNCHANGED <<phase, ca, remoteAccess, file>>,
         objects' = objects \ {"configmap/cluster-ca"}
  PROVE  LivesStep
<1>1. Complete' = Complete
  BY Lengths, CreateAppliesNoIdentity DEF Complete, Elements
<1>2. HandedOut' = HandedOut /\ Identity' = NoCa
  BY DEF Identity, HandedOut
<1>3. CASE "configmap/cluster-ca" \in objects
  <2>1. Lives!Withdraw
    BY <1>1, <1>2, <1>3 DEF Lives!Withdraw, Identity, IdentityInv
  <2> QED
    BY <2>1 DEF LivesStep, Lives!Next
<1>4. CASE "configmap/cluster-ca" \notin objects
  BY <1>1, <1>2, <1>4, LivesStutters DEF LivesVars, Identity
<1> QED
  BY <1>3, <1>4

\* The namespace may be given up while the cluster does not serve.
LEMMA GivesUp ==
  ASSUME ~Complete, UNCHANGED <<ca, remoteAccess, file>>,
         objects' \in {objects, objects \ {"service/kube-apiserver"}},
         phase' = IF phase = "active" THEN "terminating" ELSE phase
  PROVE  LivesStep
<1>1. Complete' = Complete
  BY Lengths, CreateAppliesNoIdentity DEF Complete, Elements
<1>2. Identity' = Identity /\ HandedOut' = HandedOut
  BY DEF Identity, HandedOut
<1>3. CASE phase = "active"
  <2>1. Lives!GiveUp
    BY <1>1, <1>2, <1>3 DEF Lives!GiveUp
  <2> QED
    BY <2>1 DEF LivesStep, Lives!Next
<1>4. CASE phase # "active"
  BY <1>1, <1>2, <1>4, LivesStutters DEF LivesVars
<1> QED
  BY <1>3, <1>4

-----------------------------------------------------------------------------
(* Certificates are in the namespace and never empty.                      *)

\* Calls of a create put certificates into a namespace that is there.
LEMMA IdentityOfCreate ==
  ASSUME ShapeInv, IdentityInv, NEW c \in Creates, CreateStep(c)
  PROVE  IdentityInv'
<1> USE DEF hostVars, procVars, localVars
<1>1. c # NoOne /\ c \in Requests /\ TypeOK /\ AtInBounds
  BY RequestsAssumption DEF Requests, ShapeInv
<1>2. CASE GenerateCa(c)
  <2>1. ca'.by = c
    BY <1>2 DEF GenerateCa
  <2>2. ca' # NoCa
    BY <1>1, <2>1 DEF NoCa
  <2> QED
    BY <1>2, <2>2 DEF GenerateCa, Accepted, IdentityInv
<1>3. CASE ApplyControlPlane(c)
  BY <1>1, <1>3, Lengths, CreateAppliesNoIdentity
  DEF ApplyControlPlane, AtInBounds, IdentityInv
<1>4. CASE ControlLog(c)
  BY <1>1, <1>4, Lengths, LogPositions DEF ControlLog, AtInBounds, IdentityInv
<1>5. ASSUME NEW s \in BOOLEAN, NEW n \in BOOLEAN, PollTimesOut(c, s, n)
      PROVE  IdentityInv'
  BY <1>5 DEF PollTimesOut, IdentityInv
<1>6. ASSUME NEW a \in BOOLEAN, ApplyRemoteAccess(c, a)
      PROVE  IdentityInv'
  BY <1>6 DEF ApplyRemoteAccess, IdentityInv
<1>7. CASE \/ ApplyNamespace(c) \/ ApplyService(c)
           \/ \E w \in BOOLEAN : WriteKubeconfig(c, w)
  BY <1>7 DEF ApplyNamespace, ApplyService, WriteKubeconfig, IdentityInv
<1>8. CASE \/ PollAddress(c) \/ PollInVain(c) \/ PollFails(c) \/ GetCa(c)
           \/ CreateFails(c) \/ ControlLogFails(c)
           \/ \E p \in BOOLEAN : PatchLoadBalancer(c, p)
  <2>1. UNCHANGED <<phase, objects, ca>>
    BY <1>8 DEF PollAddress, PollInVain, PollFails, GetCa, CreateFails, Fails,
       ControlLogFails, PatchLoadBalancer
  <2> QED
    BY <2>1 DEF IdentityInv
<1> QED
  BY <1>2, <1>3, <1>4, <1>5, <1>6, <1>7, <1>8 DEF CreateStep

\* So does every step.
LEMMA IdentityStep == ShapeInv /\ IdentityInv /\ [Next]_vars => IdentityInv'
<1> SUFFICES ASSUME ShapeInv, IdentityInv, [Next]_vars
             PROVE  IdentityInv'
  OBVIOUS
<1> USE DEF hostVars, procVars, localVars
<1>1. TypeOK /\ AtInBounds
  BY DEF ShapeInv
<1>2. ASSUME NEW c \in Creates, PluginStep(c)
      PROVE  IdentityInv'
  <2>1. /\ ca' = ca
        /\ objects' \in {objects, objects \cup {"event-exporter"}}
        /\ phase # "none" => phase' # "none"
    BY <1>2 DEF PluginStep, PluginReady, PluginTimesOut, InstallNetwork,
       InstallExporter, ExporterFails
  <2> QED
    BY <2>1 DEF IdentityInv
<1>3. ASSUME NEW d \in Deletes, DeleteStep(d)
      PROVE  IdentityInv'
  <2>1. /\ ca' = ca
        /\ objects' \subseteq objects
        /\ phase # "none" => phase' # "none"
    BY <1>3 DEF DeleteStep, GetCluster, GetClusterFails, DeleteObject,
       UninstallRelease, DeleteNamespace, UninstallPanics, Fails
  <2> QED
    BY <2>1 DEF IdentityInv
<1>4. ASSUME NEW m \in Monitors, MonitorStep(m)
      PROVE  IdentityInv'
  <2>1. CASE ApplyMonitoring(m)
    BY <1>1, <2>1, Lengths, MonitoringIsAside
    DEF ApplyMonitoring, AtInBounds, IdentityInv, Requests
  <2>2. CASE \/ InstallPrometheus(m) \/ MonitoringRefused(m) \/ MonitorFails(m)
             \/ \E p \in BOOLEAN : PatchMonitored(m, p)
    <3>1. UNCHANGED <<phase, objects, ca>>
      BY <2>2 DEF InstallPrometheus, MonitoringRefused, MonitorFails,
                  PatchMonitored, Fails
    <3> QED
      BY <3>1 DEF IdentityInv
  <2> QED
    BY <1>4, <2>1, <2>2 DEF MonitorStep
<1>5. CASE NamespaceFinalized
  BY <1>5 DEF NamespaceFinalized, Outside, IdentityInv
<1>6. CASE AddressAssigned \/ Crash \/ Restart \/ Operator \/ UNCHANGED vars
  <2>1. UNCHANGED <<phase, objects, ca>>
    BY <1>6 DEF AddressAssigned, Crash, Restart, Operator, ClusterCreate,
                ClusterDelete, ClusterMonitor, vars
  <2> QED
    BY <2>1 DEF IdentityInv
<1> QED
  BY <1>2, <1>3, <1>4, <1>5, <1>6, IdentityOfCreate DEF Next

-----------------------------------------------------------------------------
(* One call, one step.                                                     *)

\* A create founds, certifies, hands out, serves or gives up, each at a time
\* when ClusterLives allows it.
LEMMA LivesOfCreate ==
  ASSUME LifecycleInv, LifecycleInv', IdentityInv,
         NEW c \in Creates, CreateStep(c), Calm'
  PROVE  LivesStep
<1> USE DEF hostVars, procVars, localVars
<1>1. /\ c # NoOne /\ c \in Requests
      /\ TypeOK /\ TypeOK' /\ AtInBounds /\ Calm /\ CalmBody /\ ~CallFails
  BY RequestsAssumption, StaysCalm DEF LifecycleInv, ShapeInv, Next, Requests
<1>2. Complete => phase = "active"
  BY <1>1, ServingAgrees
<1>3. ~PollFails(c)
  BY <1>1 DEF PollFails, CalmBody, CreateInv
<1>4. CASE ApplyNamespace(c)
  <2>1. /\ Complete' = Complete /\ Identity' = Identity
        /\ HandedOut' = HandedOut
    BY <1>4 DEF ApplyNamespace, Complete, Identity, HandedOut
  <2>2. CASE phase = "none"
    <3>1. Lives!Found
      BY <1>4, <2>1, <2>2 DEF ApplyNamespace, Lives!Found
    <3> QED
      BY <3>1 DEF LivesStep, Lives!Next
  <2>3. CASE phase # "none"
    BY <1>4, <2>1, <2>3, LivesStutters DEF ApplyNamespace, LivesVars
  <2> QED
    BY <2>2, <2>3
<1>5. CASE ApplyService(c)
  <2>1. \A k \in 1..12 : CreateOrder[k] # "service/kube-apiserver"
    BY CreateAppliesNoIdentity
  <2> QED
    BY <1>5, <2>1, AsideObject DEF ApplyService
<1>6. CASE \/ PollAddress(c) \/ PollInVain(c) \/ GetCa(c) \/ CreateFails(c)
           \/ ControlLogFails(c) \/ \E p \in BOOLEAN : PatchLoadBalancer(c, p)
  <2>1. UNCHANGED <<phase, objects, ca, remoteAccess, file>>
    BY <1>6 DEF PollAddress, PollInVain, GetCa, CreateFails, Fails,
                ControlLogFails, PatchLoadBalancer
  <2> QED
    BY <2>1, SameView
<1>7. ASSUME NEW s \in BOOLEAN, NEW n \in BOOLEAN, PollTimesOut(c, s, n)
      PROVE  LivesStep
  <2>1. s /\ n /\ UNCHANGED <<ca, remoteAccess, file>>
    BY <1>1, <1>7 DEF PollTimesOut
  <2>2. ~Complete
    BY <1>1, <1>7, CompleteHasAll DEF PollTimesOut, CalmBody, CreateInv
  <2> QED
    BY <1>7, <2>1, <2>2, GivesUp DEF PollTimesOut
<1>8. CASE GenerateCa(c)
  <2>1. /\ phase = "active" /\ phase' = phase
        /\ "configmap/cluster-ca" \notin objects
        /\ "configmap/cluster-ca" \in objects'
        /\ UNCHANGED <<remoteAccess, file>>
    BY <1>1, <1>8 DEF GenerateCa, Accepted, CalmBody, CreateInv
  <2>2. ca' \in Certificates \ {NoCa}
    <3>1. ca'.by = c
      BY <1>8 DEF GenerateCa
    <3> QED
      BY <1>1, <3>1 DEF NoCa, TypeOK
  <2>3. Complete' = Complete
    BY <1>8, Lengths, CreateAppliesNoIdentity
    DEF GenerateCa, Complete, Elements
  <2>4. HandedOut' = HandedOut
    BY <1>8 DEF GenerateCa, HandedOut
  <2>5. Lives!Certify
    BY <2>1, <2>2, <2>3, <2>4 DEF Lives!Certify, Identity
  <2> QED
    BY <2>5 DEF LivesStep, Lives!Next
<1>9. ASSUME NEW w \in BOOLEAN, WriteKubeconfig(c, w)
      PROVE  LivesStep
  <2>1. CASE Complete
    <3>1. file' = file /\ objects' = objects
      BY <1>1, <1>2, <1>9, <2>1, ServingAgrees
      DEF WriteKubeconfig, Kubeconfig, CalmBody, CreateInv, AfterPoll
    <3> QED
      BY <1>9, <3>1, SameView DEF WriteKubeconfig
  <2>2. CASE ~Complete
    BY <1>1, <1>9, <2>2, HandsOut DEF WriteKubeconfig
  <2> QED
    BY <2>1, <2>2
<1>10. ASSUME NEW a \in BOOLEAN, ApplyRemoteAccess(c, a)
       PROVE  LivesStep
  <2>1. CASE ~a
    BY <1>10, <2>1, SameView DEF ApplyRemoteAccess
  <2>2. CASE a /\ Complete
    <3>1. remoteAccess' = remoteAccess /\ objects' = objects
      BY <1>1, <1>2, <1>10, <2>2, ServingAgrees
      DEF ApplyRemoteAccess, CalmBody, CreateInv, AfterPoll
    <3> QED
      BY <1>10, <3>1, SameView DEF ApplyRemoteAccess
  <2>3. CASE a /\ ~Complete
    BY <1>1, <1>10, <2>3, HandsOut DEF ApplyRemoteAccess
  <2> QED
    BY <2>1, <2>2, <2>3
<1>11. CASE ApplyControlPlane(c)
  <2>1. /\ at[c] \in 1..12
        /\ objects' = objects \cup {CreateOrder[at[c]]}
        /\ UNCHANGED <<phase, ca, remoteAccess, file>>
    BY <1>1, <1>11, Lengths DEF ApplyControlPlane, AtInBounds
  <2>2. Identity' = Identity /\ HandedOut' = HandedOut
    BY <2>1, CreateAppliesNoIdentity DEF Identity, HandedOut
  <2>3. CASE Complete' = Complete
    BY <2>1, <2>2, <2>3, LivesStutters DEF LivesVars
  <2>4. CASE Complete' # Complete
    <3>1. ~Complete /\ Complete'
      BY <2>1, <2>4 DEF Complete
    <3>2. phase = "active"
      <4>1. CreateOrder[at[c]] \notin objects
        BY <2>1, <3>1 DEF Complete
      <4> QED
        BY <1>11, <4>1 DEF ApplyControlPlane, Accepted
    <3>3. /\ {"configmap/cluster-ca", "file", "configmap/remote-access"}
               \subseteq objects
          /\ file.ca = ca /\ remoteAccess = file
      BY <1>1, <1>11, <3>2
      DEF ApplyControlPlane, CalmBody, CreateInv, AfterPoll
    <3>4. /\ Identity = ca /\ ca # NoCa
          /\ HandedOut = {file} /\ file \in Kubeconfigs
      BY <1>1, <3>3 DEF Identity, HandedOut, IdentityInv, TypeOK
    <3>5. Lives!Serve
      BY <2>1, <2>2, <3>1, <3>2, <3>3, <3>4 DEF Lives!Serve
    <3> QED
      BY <3>5 DEF LivesStep, Lives!Next
  <2> QED
    BY <2>3, <2>4
<1>12. CASE ControlLog(c)
  <2>1. PICK o \in {"clusteroutput", "clusterfluentdconfig"} :
          objects' = objects \cup {o}
    BY <1>1, <1>12, Lengths, LogPositions DEF ControlLog, AtInBounds
  <2>2. \A k \in 1..12 : CreateOrder[k] # o
    BY CreateAppliesNoIdentity
  <2> QED
    BY <1>12, <2>1, <2>2, AsideObject DEF ControlLog
<1> QED
  BY <1>3, <1>4, <1>5, <1>6, <1>7, <1>8, <1>9, <1>10, <1>11, <1>12
  DEF CreateStep

\* What a delete removes, by its place in the list: the scheduler first of
\* what makes a cluster; then, one by one, the rest, the certificates, the
\* namespace and the file.
LEMMA DeleteKinds ==
  \A k \in 1..26 :
    \/ \E j \in 1..12 : DeleteOrder[k] = CreateOrder[j]
    \/ /\ DeleteOrder[k] \notin {"configmap/cluster-ca", "file",
                                 "configmap/remote-access"}
       /\ \A j \in 1..12 : CreateOrder[j] # DeleteOrder[k]
    \/ /\ k > 8
       /\ DeleteOrder[k] \in {"configmap/cluster-ca", "file",
                              "configmap/remote-access"}
  BY DEF DeleteOrder, CreateOrder

\* A delete interrupts a cluster that serves before it does anything else.
LEMMA LivesOfDelete ==
  ASSUME LifecycleInv, LifecycleInv', IdentityInv,
         NEW d \in Deletes, DeleteStep(d), Calm'
  PROVE  LivesStep
<1> USE DEF hostVars, procVars, localVars
<1>1. /\ d \in Requests
      /\ TypeOK /\ TypeOK' /\ AtInBounds /\ Calm /\ CalmBody /\ ~CallFails
  BY StaysCalm DEF LifecycleInv, ShapeInv, Next, Requests
<1>2. pc[d] = "delete" /\ at[d] > 8 => ~Complete
  BY <1>1, CompleteHasAll DEF CalmBody, DeleteInv
<1>3. CASE GetCluster(d) \/ GetClusterFails(d) \/ UninstallPanics(d)
  BY <1>3, SameView DEF GetCluster, GetClusterFails, UninstallPanics, Fails
<1>4. ASSUME NEW ok \in BOOLEAN, DeleteObject(d, ok)
      PROVE  LivesStep
  <2>1. /\ pc[d] = "delete" /\ at[d] \in 1..26
        /\ objects' = objects \ {DeleteOrder[at[d]]}
        /\ UNCHANGED <<phase, ca, remoteAccess, file>>
    BY <1>1, <1>4, Lengths DEF DeleteObject, AtInBounds
  <2>2. CASE \E j \in 1..12 : DeleteOrder[at[d]] = CreateOrder[j]
    BY <2>1, <2>2, Interrupts
  <2>3. CASE /\ DeleteOrder[at[d]] \notin {"configmap/cluster-ca", "file",
                                           "configmap/remote-access"}
             /\ \A j \in 1..12 : CreateOrder[j] # DeleteOrder[at[d]]
    BY <2>1, <2>3, AsideObject
  <2>4. CASE /\ at[d] > 8
             /\ DeleteOrder[at[d]] = "configmap/cluster-ca"
    BY <1>2, <2>1, <2>4, Withdraws
  <2>5. CASE /\ at[d] > 8
             /\ DeleteOrder[at[d]] \in {"file", "configmap/remote-access"}
    BY <1>1, <1>2, <2>1, <2>5, HandsOut
  <2> QED
    BY <2>1, <2>2, <2>3, <2>4, <2>5, DeleteKinds
<1>5. ASSUME NEW ok \in BOOLEAN, UninstallRelease(d, ok)
      PROVE  LivesStep
  <2>1. \A k \in 1..12 : CreateOrder[k] # "event-exporter"
    BY CreateAppliesNoIdentity
  <2>2. CASE objects' = objects
    BY <1>5, <2>2, SameView DEF UninstallRelease
  <2>3. CASE objects' = objects \ {"event-exporter"}
    BY <1>5, <2>1, <2>3, AsideObject DEF UninstallRelease
  <2> QED
    BY <1>5, <2>2, <2>3 DEF UninstallRelease
<1>6. ASSUME NEW ok \in BOOLEAN, DeleteNamespace(d, ok)
      PROVE  LivesStep
  <2>1. at[d] = 23 /\ pc[d] = "delete" /\ ok
    BY <1>1, <1>6, Lengths, DeletePositions
    DEF DeleteNamespace, AtStep, AtInBounds
  <2>2. ~Complete
    BY <1>2, <2>1
  <2> QED
    BY <1>6, <2>1, <2>2, GivesUp DEF DeleteNamespace
<1> QED
  BY <1>3, <1>4, <1>5, <1>6 DEF DeleteStep

\* Monitoring is nothing its users see.
LEMMA LivesOfMonitor ==
  ASSUME LifecycleInv, NEW m \in Monitors, MonitorStep(m)
  PROVE  LivesStep
<1> USE DEF hostVars, procVars, localVars
<1>1. m \in Requests /\ TypeOK /\ AtInBounds
  BY DEF LifecycleInv, ShapeInv, Requests
<1>2. CASE ApplyMonitoring(m)
  <2>1. at[m] \in 1..6
    BY <1>1, <1>2, Lengths DEF ApplyMonitoring, AtInBounds
  <2>2. /\ MonitorOrder[at[m]] \notin {"configmap/cluster-ca", "file",
                                       "configmap/remote-access"}
        /\ \A k \in 1..12 : CreateOrder[k] # MonitorOrder[at[m]]
    BY <2>1, MonitoringIsAside
  <2> QED
    BY <1>2, <2>2, AsideObject DEF ApplyMonitoring
<1>3. CASE \/ InstallPrometheus(m) \/ MonitoringRefused(m) \/ MonitorFails(m)
           \/ \E p \in BOOLEAN : PatchMonitored(m, p)
  <2>1. UNCHANGED <<phase, objects, ca, remoteAccess, file>>
    BY <1>3 DEF InstallPrometheus, MonitoringRefused, MonitorFails,
                PatchMonitored, Fails
  <2> QED
    BY <2>1, SameView
<1> QED
  BY <1>2, <1>3 DEF MonitorStep

\* Neither is what the plugin goroutine installs, unless Helm brings a
\* namespace back.
LEMMA LivesOfPlugin ==
  ASSUME LifecycleInv, NEW c \in Creates, PluginStep(c), Calm'
  PROVE  LivesStep
<1> USE DEF hostVars, procVars, localVars
<1>1. TypeOK /\ Calm
  BY StaysCalm DEF LifecycleInv, ShapeInv, Next
<1>2. /\ UNCHANGED <<phase, ca, remoteAccess, file>>
      /\ objects' \in {objects, objects \cup {"event-exporter"}}
  BY <1>1 DEF PluginStep, PluginReady, PluginTimesOut, InstallNetwork,
     InstallExporter, ExporterFails, Calm, TypeOK
<1>3. \A k \in 1..12 : CreateOrder[k] # "event-exporter"
  BY CreateAppliesNoIdentity
<1>4. CASE objects' = objects
  BY <1>2, <1>4, SameView
<1>5. CASE objects' = objects \cup {"event-exporter"}
  BY <1>2, <1>3, <1>5, AsideObject
<1> QED
  BY <1>2, <1>4, <1>5

\* With the namespace its certificates end; the file stays.
LEMMA LivesOfNamespace ==
  ASSUME LifecycleInv, NamespaceFinalized, Calm'
  PROVE  LivesStep
<1> USE DEF NamespaceFinalized
<1>1. TypeOK /\ Calm /\ phase = "terminating" /\ phase' = "none"
  BY DEF LifecycleInv, ShapeInv, Calm, procVars
<1>2. ~Complete
  BY <1>1, ServingAgrees
<1>3. Complete' = Complete
  BY <1>2 DEF Complete
<1>4. Identity' = NoCa /\ HandedOut' \subseteq HandedOut
  BY DEF Identity, HandedOut, Outside
<1>5. Lives!End
  BY <1>1, <1>2, <1>3, <1>4 DEF Lives!End
<1> QED
  BY <1>5 DEF LivesStep, Lives!Next

\* Every step is one of ClusterLives or none.
LEMMA LivesOfStep ==
  ASSUME LifecycleInv, IdentityInv, [Next]_vars, Calm'
  PROVE  LivesStep
<1>1. LifecycleInv'
  BY ShapeStep, CalmStep DEF LifecycleInv
<1>2. CASE AddressAssigned \/ Crash \/ Restart \/ Operator \/ UNCHANGED vars
  <2>1. UNCHANGED <<phase, objects, ca, remoteAccess, file>>
    BY <1>2 DEF AddressAssigned, Crash, Restart, Operator, ClusterCreate,
                ClusterDelete, ClusterMonitor, vars, hostVars
  <2> QED
    BY <2>1, SameView
<1> QED
  BY <1>1, <1>2, LivesOfCreate, LivesOfDelete, LivesOfMonitor, LivesOfPlugin,
     LivesOfNamespace DEF Next

-----------------------------------------------------------------------------

(***************************************************************************)
(* ImplementsLives: what create, monitor and delete do, killed and sent    *)
(* again as often as may be, is nothing but founding, certifying, handing  *)
(* out, serving, stopping, withdrawing, giving up and ending a cluster,    *)
(* each only when ClusterLives allows it.                                  *)
(***************************************************************************)
THEOREM LifecycleIsLives == Spec => ImplementsLives
<1>1. Init => Lives!Init /\ IdentityInv
  <2> SUFFICES ASSUME Init PROVE Lives!Init /\ IdentityInv
    OBVIOUS
  <2>1. Complete = FALSE
    BY CompleteHasAll DEF Init, Complete
  <2> QED
    BY <2>1 DEF Init, Lives!Init, Identity, HandedOut, IdentityInv
<1>2. LifecycleInv /\ IdentityInv /\ [Next]_vars => IdentityInv'
  BY IdentityStep DEF LifecycleInv
<1>3. LifecycleInv /\ IdentityInv /\ [Next]_vars
      => [ Serial /\ errors' = 0 /\ ~revived'
             => Lives!Next \/ UNCHANGED Lives!vars ]_vars
  BY LivesOfStep DEF Calm, LivesStep
<1> QED
  BY <1>1, <1>2, <1>3, LifecycleInvariant, PTL DEF Spec, ImplementsLives

=============================================================================
