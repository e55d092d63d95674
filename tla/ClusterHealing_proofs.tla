------------------------ MODULE ClusterHealing_proofs ------------------------
(***************************************************************************)
(* Proof that sending a create again puts a cluster right, for any number  *)
(* of requests sent in any way and any bounds: LoneCreateHeals of          *)
(* ClusterLifecycle.                                                       *)
(*                                                                         *)
(* Unlike the proofs of ClusterLifecycle_proofs this one assumes nothing   *)
(* about the requests before.  HealInv says what is in place after each    *)
(* call of a create that is alone: as nobody else is at work, nothing but  *)
(* the end of the namespace takes away what it wrote, and a namespace that *)
(* has ended does not become active again but through another request or  *)
(* through Helm, and then the create is not alone any more.                *)
(***************************************************************************)
EXTENDS ClusterLifecycle_proofs

\* The steps after each of the calls of ClusterCreate.
AfterApplies == {"log", "answered"}
AfterRemoteAccess == {"apply"} \cup AfterApplies
AfterFile == {"remote-access"} \cup AfterRemoteAccess
AfterCa == {"kubeconfig"} \cup AfterFile
AfterPatch == {"get-ca", "generate-ca"} \cup AfterCa
AfterAddress == {"patch"} \cup AfterPatch

\* A create is alone and nothing has failed since it was sent.
Healing == alone \in Creates /\ errors + crashes = faults

\* What the create c has put in place in an active namespace.
Healed(c) ==
  /\ Polling(c) => "service/kube-apiserver" \in objects
  /\ pc[c] \in AfterAddress =>
       /\ "service/kube-apiserver" \in objects
       /\ svcAddress # NoAddress /\ lbAddr[c] = svcAddress
  /\ pc[c] \in AfterPatch => labels.loadBalancer = svcAddress
  /\ pc[c] \in AfterCa =>
       "configmap/cluster-ca" \in objects /\ clusterCa[c] = ca
  /\ pc[c] \in AfterFile =>
       "file" \in objects /\ file = [ca |-> ca, host |-> svcAddress]
  /\ pc[c] \in AfterRemoteAccess =>
       "configmap/remote-access" \in objects /\ remoteAccess = file
  /\ pc[c] = "apply" => \A k \in 1..(at[c] - 1) : CreateOrder[k] \in objects
  /\ pc[c] \in AfterApplies => Complete

HealBody ==
  /\ \A q \in Requests \ {alone} : pc[q] \in Resting
  /\ phase = "active" => Healed(alone)

HealInv ==
  /\ faults \in Nat /\ faults <= errors + crashes
  /\ Healing => HealBody

-----------------------------------------------------------------------------

\* Faults are counted up; who is alone stays it or is not any more.
LEMMA FaultsCount ==
  ASSUME TypeOK, [Next]_vars, ~Operator
  PROVE  /\ errors' \in {errors, errors + 1}
         /\ crashes' \in {crashes, crashes + 1}
         /\ faults' = faults
         /\ alone' \in {alone, NoOne}
<1> USE DEF procVars, historyVars
<1>1. ASSUME NEW c \in Creates, CreateStep(c)
      PROVE  /\ errors' \in {errors, errors + 1}
             /\ UNCHANGED <<crashes, faults, alone>>
  BY <1>1, CreateFrame DEF PollFails, CallFails, NoCallFails
<1>2. ASSUME NEW c \in Creates, PluginStep(c)
      PROVE  /\ errors' \in {errors, errors + 1}
             /\ UNCHANGED <<crashes, faults>> /\ alone' \in {alone, NoOne}
  BY <1>2 DEF PluginStep, PluginReady, PluginTimesOut, InstallNetwork,
     InstallExporter, ExporterFails, CallFails, NoCallFails
<1>3. CASE NamespaceFinalized \/ AddressAssigned \/ Crash \/ Restart
  BY <1>3 DEF NamespaceFinalized, AddressAssigned, Crash, Restart
<1>4. CASE UNCHANGED vars
  BY <1>4 DEF vars
<1> QED
  BY <1>1, <1>2, <1>3, <1>4, DeleteFrame, MonitorFrame DEF Next

\* While a create is alone, no call fails and nobody is killed.
LEMMA StaysAlone ==
  ASSUME TypeOK, HealInv, [Next]_vars, ~Operator, Healing'
  PROVE  /\ Healing /\ HealBody
         /\ UNCHANGED <<alone, errors, crashes>>
         /\ ~CallFails
<1>1. alone' = alone /\ alone \in Creates
  BY FaultsCount, RequestsAssumption DEF Healing, Requests
<1>2. errors' = errors /\ crashes' = crashes /\ errors + crashes = faults
  BY FaultsCount DEF Healing, HealInv, TypeOK
<1>3. ~CallFails
  BY <1>2 DEF CallFails, TypeOK
<1> QED
  BY <1>1, <1>2, <1>3 DEF Healing, HealInv

\* Who takes a step of a create, a delete or a monitoring is the one alone.
LEMMA AloneAtWork ==
  ASSUME HealBody, NEW r \in Requests, pc[r] \notin Resting
  PROVE  r = alone
  BY DEF HealBody

\* Call by call, the create that is alone puts the cluster in place.
LEMMA HealOfCreate ==
  ASSUME ShapeInv, HealInv, NEW c \in Creates, CreateStep(c), ~Operator,
         Healing'
  PROVE  HealBody'
<1> USE DEF Goto, hostVars, procVars, historyVars, localVars, HealBody, Healed,
        Polling, AfterAddress, AfterPatch, AfterCa, AfterFile,
        AfterRemoteAccess, AfterApplies
<1>1. /\ Healing /\ HealBody /\ UNCHANGED alone /\ ~CallFails
      /\ TypeOK /\ AtInBounds /\ c \in Requests
  BY StaysAlone DEF ShapeInv, Next, Requests
<1>2. CASE PollFails(c)
  BY <1>1, <1>2 DEF PollFails, ProcessDies, Resting, TypeOK, Healing
<1>3. ASSUME ~PollFails(c)
      PROVE  c = alone /\ \A q \in Requests \ {alone} : pc'[q] \in Resting
  BY <1>1, <1>3, CreateFrame, AloneAtWork
<1>4. ASSUME ApplyNamespace(c), c = alone
      PROVE  phase' = "active" => Healed(alone)'
  BY <1>1, <1>4 DEF ApplyNamespace, TypeOK, Healing, AfterPoll
<1>5. ASSUME ApplyService(c), c = alone
      PROVE  phase' = "active" => Healed(alone)'
  BY <1>1, <1>5 DEF ApplyService, TypeOK, Healing
<1>6. ASSUME PollAddress(c), c = alone
      PROVE  phase' = "active" => Healed(alone)'
  BY <1>1, <1>6 DEF PollAddress, TypeOK, Healing
<1>7. ASSUME PollInVain(c), c = alone
      PROVE  phase' = "active" => Healed(alone)'
  BY <1>1, <1>7 DEF PollInVain, TypeOK, Healing
<1>8. ASSUME NEW s \in BOOLEAN, NEW n \in BOOLEAN, PollTimesOut(c, s, n),
             c = alone
      PROVE  phase' = "active" => Healed(alone)'
  BY <1>1, <1>8 DEF PollTimesOut, TypeOK, Healing
<1>9. ASSUME NEW p \in BOOLEAN, PatchLoadBalancer(c, p), c = alone
      PROVE  phase' = "active" => Healed(alone)'
  BY <1>1, <1>9 DEF PatchLoadBalancer, TypeOK, Healing
<1>10. ASSUME GetCa(c), c = alone
       PROVE  phase' = "active" => Healed(alone)'
  BY <1>1, <1>10 DEF GetCa, TypeOK, Healing
<1>11. ASSUME GenerateCa(c), c = alone
       PROVE  phase' = "active" => Healed(alone)'
  BY <1>1, <1>11 DEF GenerateCa, TypeOK, Healing
<1>12. ASSUME NEW w \in BOOLEAN, WriteKubeconfig(c, w), c = alone
       PROVE  phase' = "active" => Healed(alone)'
  BY <1>1, <1>12 DEF WriteKubeconfig, Kubeconfig, TypeOK, Healing
<1>13. ASSUME NEW a \in BOOLEAN, ApplyRemoteAccess(c, a), c = alone
       PROVE  phase' = "active" => Healed(alone)'
  BY <1>1, <1>13
  DEF ApplyRemoteAccess, Accepted, Kubeconfig, TypeOK, Healing
<1>14. ASSUME ApplyControlPlane(c), c = alone
       PROVE  phase' = "active" => Healed(alone)'
  <2> USE <1>1, <1>14 DEF ApplyControlPlane
  <2>1. at[c] \in 1..12 /\ CreateOrder[at[c]] \in objects'
    BY Lengths DEF AtInBounds
  <2>2. ASSUME phase' = "active"
        PROVE  \A k \in 1..at[c] : CreateOrder[k] \in objects'
    BY <2>1, <2>2
  <2>3. CASE at[c] < Len(CreateOrder)
    BY <2>1, <2>2, <2>3 DEF TypeOK, Healing
  <2>4. CASE ~(at[c] < Len(CreateOrder))
    <3>1. at[c] = 12 /\ pc'[c] = "log"
      BY <2>1, <2>4, Lengths DEF TypeOK
    <3>2. phase' = "active" => Complete'
      BY <2>2, <3>1, Lengths DEF Complete, Elements
    <3> QED
      BY <3>1, <3>2 DEF TypeOK, Healing
  <2> QED
    BY <2>3, <2>4
<1>15. ASSUME CreateFails(c), c = alone
       PROVE  phase' = "active" => Healed(alone)'
  BY <1>1, <1>15 DEF CreateFails, Fails, TypeOK, Healing
<1>16. ASSUME ControlLog(c), c = alone
       PROVE  phase' = "active" => Healed(alone)'
  BY <1>1, <1>16 DEF ControlLog, Answer, Complete, TypeOK, Healing
<1>17. ASSUME ControlLogFails(c)
       PROVE  FALSE
  BY <1>1, <1>17 DEF ControlLogFails
<1> QED
  BY <1>1, <1>2, <1>3, <1>4, <1>5, <1>6, <1>7, <1>8, <1>9, <1>10, <1>11, <1>12,
     <1>13, <1>14, <1>15, <1>16, <1>17 DEF CreateStep

\* The plugins add to the cluster; one that creates the namespace again ends it.
LEMMA HealOfPlugin ==
  ASSUME ShapeInv, HealInv, NEW c \in Creates, PluginStep(c), ~Operator,
         Healing'
  PROVE  HealBody'
<1>1. /\ Healing /\ HealBody /\ UNCHANGED alone /\ ~CallFails
      /\ NoOne \notin Creates
  BY StaysAlone, RequestsAssumption DEF ShapeInv, Next, Requests
<1>2. /\ UNCHANGED <<svcAddress, labels, ca, remoteAccess, file, pc, at,
                     localVars>>
      /\ objects \subseteq objects'
      /\ phase' = "active" => phase = "active"
  <2> USE DEF hostVars, procVars, localVars
  <2>1. CASE InstallExporter(c)
    <3>1. alone' # NoOne
      BY <1>1 DEF Healing
    <3>2. release = "deployed" \/ phase # "none"
      BY <2>1, <3>1 DEF InstallExporter
    <3> QED
      BY <2>1, <3>2 DEF InstallExporter, ShapeInv, TypeOK
  <2>2. CASE ~InstallExporter(c)
    BY <1>1, <2>2 DEF PluginStep, PluginReady, PluginTimesOut, InstallNetwork,
       ExporterFails
  <2> QED
    BY <2>1, <2>2
<1> QED
  BY <1>1, <1>2 DEF HealBody, Healed, Polling, Complete, localVars

\* Deletes and monitoring rest.
LEMMA HealOfOthers ==
  ASSUME ShapeInv, HealInv, [Next]_vars, ~Operator, Healing'
  PROVE  /\ \A d \in Deletes : ~DeleteStep(d)
         /\ \A m \in Monitors : ~MonitorStep(m)
<1>1. HealBody /\ alone \in Creates /\ TypeOK
  BY StaysAlone DEF ShapeInv, Healing
<1> QED
  BY <1>1, DeleteFrame, MonitorFrame, AloneAtWork, RequestsAssumption
  DEF Requests

\* A create that is sent when all rest is alone and has done nothing yet.
LEMMA HealOfOperator ==
  ASSUME ShapeInv, Operator
  PROVE  HealInv'
<1>1. PICK r \in Requests, step \in {"namespace", "get", "install"} :
        /\ MaySend(r) /\ Sent(r) /\ Goto(r, step)
        /\ r \in Creates => step = "namespace"
        /\ UNCHANGED <<errors, crashes>>
  BY RequestsAssumption
  DEF Operator, ClusterCreate, ClusterDelete, ClusterMonitor, Requests
<1>2. faults' \in Nat /\ faults' <= errors' + crashes'
  BY <1>1 DEF Sent, ShapeInv, TypeOK
<1>3. ASSUME Healing'
      PROVE  HealBody'
  <2>1. /\ alone' = r /\ r \in Creates
        /\ \A q \in Requests : pc[q] \in Resting
    BY <1>1, <1>3, RequestsAssumption DEF Healing, Sent, Requests
  <2>2. /\ pc'[r] = "namespace"
        /\ \A q \in Requests \ {r} : pc'[q] \in Resting
    BY <1>1, <2>1 DEF Goto, ShapeInv, TypeOK
  <2> QED
    BY <2>1, <2>2 DEF HealBody, Healed, Polling, AfterAddress, AfterPatch,
       AfterCa, AfterFile, AfterRemoteAccess, AfterApplies
<1> QED
  BY <1>2, <1>3 DEF HealInv

\* Every step keeps what a create that is alone has put in place.
LEMMA HealStep == ShapeInv /\ HealInv /\ [Next]_vars => HealInv'
<1> SUFFICES ASSUME ShapeInv, HealInv, [Next]_vars, ~Operator
             PROVE  HealInv'
  BY HealOfOperator
<1>1. faults' \in Nat /\ faults' <= errors' + crashes'
  BY FaultsCount DEF HealInv, ShapeInv, TypeOK
<1>2. ASSUME Healing'
      PROVE  HealBody'
  <2>1. Healing /\ HealBody /\ UNCHANGED <<alone, errors, crashes>> /\ TypeOK
    BY <1>2, StaysAlone DEF ShapeInv
  <2>2. CASE NamespaceFinalized
    BY <2>1, <2>2 DEF NamespaceFinalized, HealBody
  <2>3. CASE AddressAssigned
    BY <2>1, <2>3
    DEF AddressAssigned, HealBody, Healed, Polling, Complete, localVars,
        AfterAddress, AfterPatch, AfterCa, AfterFile, AfterRemoteAccess,
        AfterApplies
  <2>4. CASE Crash
    BY <2>1, <2>4 DEF Crash, TypeOK
  <2>5. CASE Restart \/ UNCHANGED vars
    BY <2>1, <2>5 DEF Restart, vars, hostVars, localVars, HealBody, Healed,
       Polling, Complete
  <2> QED
    BY <1>2, <2>2, <2>3, <2>4, <2>5, HealOfCreate, HealOfPlugin, HealOfOthers
    DEF Next
<1> QED
  BY <1>1, <1>2 DEF HealInv

-----------------------------------------------------------------------------

(***************************************************************************)
(* THEOREM: in every behaviour, whatever failed, crashed or ran over each  *)
(* other before, a create that is answered after it was alone at work and  *)
(* no call failed leaves a namespace that is still there with a complete   *)
(* cluster whose certificates, kubeconfigs, label and Service agree        *)
(* (ClusterCreate of controllers/cluster.go).                              *)
(***************************************************************************)
THEOREM LoneCreatesHeal == Spec => []LoneCreateHeals
<1>1. Init => HealInv
  BY RequestsAssumption
  DEF Init, HealInv, Healing, Requests
<1>2. ShapeInv /\ HealInv /\ [Next]_vars => ShapeInv' /\ HealInv'
  BY ShapeStep, HealStep
<1>3. HealInv => LoneCreateHeals
  <2> SUFFICES ASSUME HealInv, alone \in Creates, pc[alone] = "answered",
                      errors + crashes = faults, phase = "active"
               PROVE  LoneCreateHeals
    BY DEF LoneCreateHeals
  <2> QED
    BY DEF HealInv, Healing, HealBody, Healed, LoneCreateHeals, AfterAddress,
       AfterPatch, AfterCa, AfterFile, AfterRemoteAccess, AfterApplies
<1> QED
  BY <1>1, <1>2, <1>3, ShapeInitial, PTL DEF Spec

=============================================================================
