------------------------ MODULE EtcdMembership_proofs ------------------------
(***************************************************************************)
(* Proofs about EtcdMembership: for every bound on the kills and every     *)
(* size up to three, members join one at a time, what a member was told    *)
(* stays right until it needs it no more, and the cluster is never made    *)
(* anew.                                                                   *)
(*                                                                         *)
(* All three rest on etcd's strict check.  In a cluster of at most three   *)
(* it lets a member be added only when all that are there have started     *)
(* (AddNeedsAllStarted), so while one of them has not, the membership on   *)
(* its command line cannot go stale and nobody joins next to it.           *)
(***************************************************************************)
EXTENDS EtcdMembership, FiniteSetTheorems, TLAPS

\* What is on the volumes and what etcd knows go together.
DataOfMembers ==
  /\ data \subseteq members
  /\ started \subseteq data
  /\ members # {} => 0 \in data
  /\ \A i \in Serving : i \in data

\* A member that has not started is alone in that.
AtMostOneJoins == \A i, j \in members \ started : i = j

\* Where the container is in its script tells what it has written.
ScriptInOrder ==
  \A i \in Members :
    /\ pc[i] = "add" => i # 0 /\ i \notin cached
    /\ pc[i] = "script" => i # 0 /\ i \in members \ data /\ envs[i] = members
    /\ pc[i] = "launch" => i \in cached

EtcdInv ==
  /\ TypeOK
  /\ DataOfMembers
  /\ AtMostOneJoins
  /\ ScriptInOrder
  /\ CachedClusterIsCurrent

-----------------------------------------------------------------------------
(* Counting members.                                                       *)

\* There are finitely many Pods, so every set of them can be counted.
LEMMA MembersCountable ==
  ASSUME NEW S \in SUBSET Members
  PROVE  IsFiniteSet(S) /\ Cardinality(S) \in Nat
<1>1. IsFiniteSet(Members)
  BY FS_Interval, EnlargedAssumption DEF Members
<1> QED
  BY <1>1, FS_Subset, FS_CardinalityType

\* The strict check at work: whoever is added finds everyone else started.
LEMMA AddNeedsAllStarted ==
  ASSUME TypeOK, NEW i \in Members, AddAccepted(i)
  PROVE  members \subseteq started
<1> SUFFICES ASSUME NEW j \in members, j \notin started
             PROVE  FALSE
  OBVIOUS
<1> DEFINE up == Cardinality(started \cap members)
           m  == Cardinality(members)
<1>1. members \in SUBSET Members /\ i \notin members /\ j \in Members /\ i # j
  BY DEF TypeOK, AddAccepted
<1>2. m \in Nat /\ up \in Nat
  BY <1>1, MembersCountable
<1>3. m <= 2
  <2>1. /\ IsFiniteSet(Members)
        /\ Cardinality(Members) = Enlarged
    <3>1. 0 \in Int /\ Enlarged - 1 \in Int /\ ~(0 > Enlarged - 1)
      BY EnlargedAssumption
    <3>2. /\ IsFiniteSet(0..(Enlarged - 1))
          /\ Cardinality(0..(Enlarged - 1)) = (Enlarged - 1) - 0 + 1
      BY <3>1, FS_Interval
    <3> QED
      BY <3>2, EnlargedAssumption DEF Members
  <2>2. /\ IsFiniteSet(Members \ {i})
        /\ Cardinality(Members \ {i}) = Enlarged - 1
    BY <2>1, FS_RemoveElement
  <2>3. members \subseteq Members \ {i}
    BY <1>1
  <2>4. m <= Enlarged - 1
    BY <2>2, <2>3, FS_Subset
  <2> QED
    BY <2>4, <1>2, EnlargedAssumption
<1>4. up <= m - 1
  <2>1. IsFiniteSet(members)
    BY <1>1, MembersCountable
  <2>2. IsFiniteSet(members \ {j}) /\ Cardinality(members \ {j}) = m - 1
    BY <2>1, FS_RemoveElement
  <2>3. started \cap members \subseteq members \ {j}
    OBVIOUS
  <2> QED
    BY <2>2, <2>3, FS_Subset
<1>5. (up = 1 /\ m + 1 = 2) \/ up >= ((m + 1) \div 2) + 1
  BY DEF AddAccepted, EnoughStarted
<1> HIDE DEF up, m
<1>6. m = 1 \/ m = 2
  BY <1>2, <1>3, <1>4
<1> QED
  BY <1>2, <1>4, <1>5, <1>6

-----------------------------------------------------------------------------
(* The invariant.                                                          *)

LEMMA EtcdInitial == Init => EtcdInv
  BY EnlargedAssumption
  DEF Init, EtcdInv, TypeOK, DataOfMembers, AtMostOneJoins, ScriptInOrder,
      CachedClusterIsCurrent, Serving, Members

\* A step of the container that touches neither volumes nor etcd.
LEMMA OnlyPc ==
  ASSUME EtcdInv, NEW i \in Members, NEW step \in {"begin", "down"},
         Goto(i, step), UNCHANGED <<replicas, volumes, members, started>>,
         crashes' \in Nat
  PROVE  EtcdInv'
<1> USE DEF EtcdInv, Goto, volumes
<1>1. TypeOK'
  BY DEF TypeOK, Running
<1>2. DataOfMembers'
  BY DEF TypeOK, DataOfMembers, Serving
<1>3. AtMostOneJoins'
  BY DEF AtMostOneJoins
<1>4. ScriptInOrder'
  BY DEF TypeOK, ScriptInOrder
<1>5. CachedClusterIsCurrent'
  BY DEF CachedClusterIsCurrent
<1> QED
  BY <1>1, <1>2, <1>3, <1>4, <1>5

\* An accepted "member add" leaves no other member waiting to join, whether
\* its answer arrives or not.
LEMMA AddKeepsOrder ==
  ASSUME EtcdInv, NEW i \in Members, NEW step \in {"script", "down"},
         pc[i] = "add", AddAccepted(i),
         members' = members \cup {i},
         envs' = [envs EXCEPT ![i] = IF step = "script" THEN members'
                                     ELSE {}],
         Goto(i, step), UNCHANGED <<replicas, cached, data, started>>,
         crashes' \in Nat
  PROVE  EtcdInv'
<1> USE DEF EtcdInv, Goto
<1>1. members \subseteq started
  BY AddNeedsAllStarted
<1>2. i # 0 /\ i \notin cached /\ i \notin members
  BY DEF ScriptInOrder, AddAccepted
<1>3. TypeOK'
  BY DEF TypeOK, Running
<1>4. 0 \in data
  BY DEF AddAccepted, DataOfMembers
<1>5. DataOfMembers'
  BY <1>4 DEF TypeOK, DataOfMembers, Serving
<1>6. AtMostOneJoins'
  BY <1>1 DEF AtMostOneJoins
<1>7. ScriptInOrder'
  <2> SUFFICES ASSUME NEW j \in Members
               PROVE  /\ pc'[j] = "add" => j # 0 /\ j \notin cached'
                      /\ pc'[j] = "script" =>
                           /\ j # 0 /\ j \in members' \ data'
                           /\ envs'[j] = members'
                      /\ pc'[j] = "launch" => j \in cached'
    BY DEF ScriptInOrder
  <2>1. CASE j = i
    BY <2>1, <1>2 DEF TypeOK, DataOfMembers
  <2>2. CASE j # i
    BY <2>2, <1>1 DEF TypeOK, DataOfMembers, ScriptInOrder
  <2> QED
    BY <2>1, <2>2
<1>8. CachedClusterIsCurrent'
  BY <1>1, <1>2 DEF CachedClusterIsCurrent, DataOfMembers
<1> QED
  BY <1>3, <1>5, <1>6, <1>7, <1>8

LEMMA EtcdStep == EtcdInv /\ [Next]_vars => EtcdInv'
<1> SUFFICES ASSUME EtcdInv, [Next]_vars
             PROVE  EtcdInv'
  OBVIOUS
<1> USE DEF EtcdInv
<1>1. CASE ClusterEnableHA
  BY <1>1, EnlargedAssumption
  DEF ClusterEnableHA, volumes, TypeOK, DataOfMembers, AtMostOneJoins,
      ScriptInOrder, CachedClusterIsCurrent, Serving
<1>2. ASSUME NEW i \in Members, CreatePod(i)
      PROVE  EtcdInv'
  BY <1>2, OnlyPc DEF CreatePod, TypeOK
<1>3. ASSUME NEW i \in Members, RestartContainer(i)
      PROVE  EtcdInv'
  BY <1>3, OnlyPc DEF RestartContainer, TypeOK
<1>4. ASSUME NEW i \in Members, Crash(i)
      PROVE  EtcdInv'
  BY <1>4, OnlyPc DEF Crash, TypeOK
<1>5. ASSUME NEW i \in Members, MemberAddUnanswered(i)
      PROVE  EtcdInv'
  <2>1. pc[i] = "add" /\ AddAccepted(i) /\ Goto(i, "down")
    BY <1>5 DEF MemberAddUnanswered
  <2>2. /\ members' = members \cup {i}
        /\ envs' = [envs EXCEPT ![i] = IF "down" = "script" THEN members'
                                       ELSE {}]
        /\ UNCHANGED <<replicas, cached, data, started>>
        /\ crashes' \in Nat
    BY <1>5 DEF MemberAddUnanswered, TypeOK
  <2> QED
    BY <2>1, <2>2, AddKeepsOrder
<1>6. ASSUME NEW i \in Members, Begin(i)
      PROVE  EtcdInv'
  <2> USE <1>6 DEF Begin, Goto
  <2>1. TypeOK'
    BY DEF TypeOK, Running
  <2>2. DataOfMembers' /\ AtMostOneJoins'
    BY DEF TypeOK, DataOfMembers, AtMostOneJoins, Serving
  <2>3. ScriptInOrder'
    BY DEF TypeOK, ScriptInOrder
  <2>4. CachedClusterIsCurrent'
    BY DEF CachedClusterIsCurrent
  <2> QED
    BY <2>1, <2>2, <2>3, <2>4
<1>7. ASSUME NEW i \in Members, MemberAdd(i)
      PROVE  EtcdInv'
  BY <1>7, AddKeepsOrder DEF MemberAdd, TypeOK
<1>8. ASSUME NEW i \in Members, MemberAddRefused(i)
      PROVE  EtcdInv'
  <2> USE <1>8 DEF MemberAddRefused, Goto
  <2>1. TypeOK'
    BY DEF TypeOK, Running
  <2>2. DataOfMembers' /\ AtMostOneJoins'
    BY DEF TypeOK, DataOfMembers, AtMostOneJoins, Serving
  <2>3. ScriptInOrder'
    BY DEF TypeOK, ScriptInOrder
  <2>4. i \notin cached
    BY DEF ScriptInOrder
  <2>5. CachedClusterIsCurrent'
    BY <2>4 DEF TypeOK, CachedClusterIsCurrent
  <2> QED
    BY <2>1, <2>2, <2>3, <2>5
<1>9. ASSUME NEW i \in Members, WriteScript(i)
      PROVE  EtcdInv'
  <2> USE <1>9 DEF WriteScript, Goto
  <2>1. TypeOK'
    BY DEF TypeOK, Running
  <2>2. DataOfMembers' /\ AtMostOneJoins'
    BY DEF TypeOK, DataOfMembers, AtMostOneJoins, Serving
  <2>3. ScriptInOrder'
    BY DEF TypeOK, ScriptInOrder
  <2>4. CachedClusterIsCurrent'
    BY DEF ScriptInOrder, CachedClusterIsCurrent
  <2> QED
    BY <2>1, <2>2, <2>3, <2>4
<1>10. ASSUME NEW i \in Members, Bootstrap(i)
       PROVE  EtcdInv'
  <2> USE <1>10 DEF Bootstrap, Goto
  <2>1. members = {} /\ data = {} /\ started = {}
    BY DEF DataOfMembers
  <2>2. TypeOK'
    BY DEF TypeOK, Running
  <2>3. DataOfMembers' /\ AtMostOneJoins'
    BY <2>1 DEF TypeOK, DataOfMembers, AtMostOneJoins, Serving
  <2>4. ScriptInOrder'
    BY <2>1 DEF TypeOK, ScriptInOrder
  <2>5. CachedClusterIsCurrent'
    BY <2>1 DEF CachedClusterIsCurrent
  <2> QED
    BY <2>2, <2>3, <2>4, <2>5
<1>11. ASSUME NEW i \in Members, Rejoin(i)
       PROVE  EtcdInv'
  <2> USE <1>11 DEF Rejoin, Goto, volumes
  <2>1. TypeOK'
    BY DEF TypeOK, Running
  <2>2. DataOfMembers' /\ AtMostOneJoins'
    BY DEF TypeOK, DataOfMembers, AtMostOneJoins, Serving
  <2>3. ScriptInOrder' /\ CachedClusterIsCurrent'
    BY DEF TypeOK, ScriptInOrder, CachedClusterIsCurrent
  <2> QED
    BY <2>1, <2>2, <2>3
<1>12. ASSUME NEW i \in Members, Join(i)
       PROVE  EtcdInv'
  <2> USE <1>12 DEF Join, Goto
  <2>1. i \in members
    BY DEF ScriptInOrder, CachedClusterIsCurrent
  <2>2. TypeOK'
    BY DEF TypeOK, Running
  <2>3. DataOfMembers' /\ AtMostOneJoins'
    BY <2>1 DEF TypeOK, DataOfMembers, AtMostOneJoins, Serving
  <2>4. ScriptInOrder'
    <3> SUFFICES ASSUME NEW j \in Members
                 PROVE  /\ pc'[j] = "add" => j # 0 /\ j \notin cached'
                        /\ pc'[j] = "script" =>
                             /\ j # 0 /\ j \in members' \ data'
                             /\ envs'[j] = members'
                        /\ pc'[j] = "launch" => j \in cached'
      BY DEF ScriptInOrder
    <3>1. CASE j = i
      BY <3>1 DEF TypeOK
    <3>2. CASE j # i
      BY <3>2 DEF TypeOK, ScriptInOrder
    <3> QED
      BY <3>1, <3>2
  <2>5. CachedClusterIsCurrent'
    BY DEF CachedClusterIsCurrent
  <2> QED
    BY <2>2, <2>3, <2>4, <2>5
<1>13. ASSUME NEW i \in Members, JoinRefused(i)
       PROVE  EtcdInv'
  BY <1>13, OnlyPc DEF JoinRefused, TypeOK
<1>14. ASSUME NEW i \in Members, Publish(i)
       PROVE  EtcdInv'
  <2> USE <1>14 DEF Publish, volumes
  <2>1. TypeOK'
    BY DEF TypeOK
  <2>2. DataOfMembers' /\ AtMostOneJoins'
    BY DEF DataOfMembers, AtMostOneJoins, Serving
  <2>3. ScriptInOrder' /\ CachedClusterIsCurrent'
    BY DEF ScriptInOrder, CachedClusterIsCurrent
  <2> QED
    BY <2>1, <2>2, <2>3
<1>15. CASE UNCHANGED vars
  BY <1>15
  DEF vars, TypeOK, DataOfMembers, AtMostOneJoins, ScriptInOrder,
      CachedClusterIsCurrent, Serving
<1> QED
  BY <1>1, <1>2, <1>3, <1>4, <1>5, <1>6, <1>7, <1>8, <1>9, <1>10, <1>11,
     <1>12, <1>13, <1>14, <1>15 DEF Next, ContainerStep

LEMMA EtcdInvariant == Spec => []EtcdInv
  BY EtcdInitial, EtcdStep, PTL DEF Spec

-----------------------------------------------------------------------------
(* The theorems.                                                           *)

\* Every variable keeps its type.
THEOREM EtcdTypeOK == Spec => []TypeOK
<1>1. EtcdInv => TypeOK
  BY DEF EtcdInv
<1> QED
  BY EtcdInvariant, <1>1, PTL

\* At most one member has been added and not started, at any time.
THEOREM JoinsAreSerial == Spec => []OneJoinAtATime
<1>1. EtcdInv => OneJoinAtATime
  <2> SUFFICES ASSUME EtcdInv
               PROVE  Cardinality(members \ started) <= 1
    BY DEF OneJoinAtATime
  <2>1. CASE members \ started = {}
    BY <2>1, FS_EmptySet
  <2>2. ASSUME NEW i \in members \ started
        PROVE  Cardinality(members \ started) <= 1
    <3>1. members \ started = {i}
      BY <2>2 DEF EtcdInv, AtMostOneJoins
    <3> QED
      BY <3>1, FS_Singleton
  <2> QED
    BY <2>1, <2>2
<1> QED
  BY EtcdInvariant, <1>1, PTL

\* The command line a member has cached is right until it has data.
THEOREM CachedCommandLineIsRight == Spec => []CachedClusterIsCurrent
<1>1. EtcdInv => CachedClusterIsCurrent
  BY DEF EtcdInv
<1> QED
  BY EtcdInvariant, <1>1, PTL

\* No start of Pod 0 makes a second cluster.
THEOREM OneClusterForEver == Spec => MembersStay
<1>1. EtcdInv /\ [Next]_vars => [members \subseteq members']_vars
  <2> SUFFICES ASSUME EtcdInv, Next
               PROVE  members \subseteq members'
    BY DEF vars
  <2>1. ASSUME NEW i \in Members, Bootstrap(i)
        PROVE  members \subseteq members'
    BY <2>1 DEF Bootstrap, EtcdInv, DataOfMembers
  <2> QED
    BY <2>1
    DEF Next, ContainerStep, ClusterEnableHA, CreatePod, RestartContainer,
        Crash, MemberAddUnanswered, Begin, MemberAdd, MemberAddRefused,
        WriteScript, Rejoin, Join, JoinRefused, Publish
<1> QED
  BY EtcdInvariant, <1>1, PTL DEF Spec, MembersStay

-----------------------------------------------------------------------------
(* The refinement.                                                         *)

\* What a step of the Pods has to be.
GrowingStep == Growing!Next \/ UNCHANGED <<members, data, Serving>>

\* A container that serves stops when its place changes to another, and for
\* any other container nothing is seen of that.
LEMMA ServingMoves ==
  ASSUME TypeOK, NEW i \in Members, NEW step, Goto(i, step)
  PROVE  /\ step = "serving" => Serving' = Serving \cup {i}
         /\ step # "serving" => Serving' = Serving \ {i}
  BY DEF TypeOK, Goto, Serving

\* A container that leaves its place without a trace stops or was stopped.
LEMMA StopsOrStutters ==
  ASSUME TypeOK, NEW i \in Members, NEW step, step # "serving",
         Goto(i, step), UNCHANGED <<members, data>>
  PROVE  GrowingStep
<1>1. Serving' = Serving \ {i}
  BY ServingMoves
<1>2. CASE i \in Serving
  <2>1. Growing!Stop(i)
    BY <1>1, <1>2 DEF Growing!Stop
  <2> QED
    BY <2>1 DEF GrowingStep, Growing!Next
<1>3. CASE i \notin Serving
  BY <1>1, <1>3 DEF GrowingStep
<1> QED
  BY <1>2, <1>3

\* An accepted "member add" is an admission, answered or not.
LEMMA AddAdmits ==
  ASSUME EtcdInv, NEW i \in Members, NEW step \in {"script", "down"},
         pc[i] = "add", AddAccepted(i), members' = members \cup {i},
         Goto(i, step), UNCHANGED data
  PROVE  GrowingStep
<1>1. TypeOK
  BY DEF EtcdInv
<1>2. members \subseteq data
  BY <1>1, AddNeedsAllStarted DEF EtcdInv, DataOfMembers
<1>3. Serving' = Serving
  BY <1>1, ServingMoves DEF Serving
<1>4. Growing!Admit(i)
  <2>1. \A S : Growing!Cardinality(S) = Cardinality(S)
    BY DEF Cardinality, Growing!Cardinality
  <2> QED
    BY <1>2, <1>3, <2>1
    DEF AddAccepted, HasQuorum, Growing!Admit, Growing!Majority
<1> QED
  BY <1>4 DEF GrowingStep, Growing!Next

\* A first start of Pod 0 founds the cluster: there is none yet.
LEMMA BootstrapFounds ==
  ASSUME EtcdInv, NEW i \in Members, Bootstrap(i)
  PROVE  GrowingStep
<1>1. TypeOK /\ members = {} /\ data = {} /\ Serving = {}
  BY DEF Bootstrap, EtcdInv, DataOfMembers, Serving
<1>2. Serving' = {0}
  BY <1>1, ServingMoves DEF Bootstrap
<1>3. Growing!Found
  BY <1>1, <1>2 DEF Bootstrap, Growing!Found
<1> QED
  BY <1>3 DEF GrowingStep, Growing!Next

\* Who joins is the one member without data.
LEMMA JoinJoins ==
  ASSUME EtcdInv, NEW i \in Members, Join(i)
  PROVE  GrowingStep
<1>1. TypeOK /\ i \in cached \ (data \cup {0})
  BY DEF Join, EtcdInv, ScriptInOrder
<1>2. i \in members /\ envs[i] = members
  BY <1>1 DEF EtcdInv, CachedClusterIsCurrent
<1>3. members \ data = {i}
  BY <1>1, <1>2 DEF EtcdInv, DataOfMembers, AtMostOneJoins
<1>4. Serving' = Serving \cup {i}
  BY <1>1, ServingMoves DEF Join
<1>5. Growing!Join(i)
  BY <1>2, <1>3, <1>4 DEF Join, CanJoin, Growing!Join
<1> QED
  BY <1>5 DEF GrowingStep, Growing!Next

\* A container with data takes part again.
LEMMA RejoinResumes ==
  ASSUME EtcdInv, NEW i \in Members, Rejoin(i)
  PROVE  GrowingStep
<1>1. TypeOK /\ i \in data \ Serving
  BY DEF Rejoin, EtcdInv, Serving
<1>2. Serving' = Serving \cup {i}
  BY <1>1, ServingMoves DEF Rejoin
<1>3. Growing!Resume(i)
  BY <1>1, <1>2 DEF Rejoin, volumes, Growing!Resume
<1> QED
  BY <1>3 DEF GrowingStep, Growing!Next

\* Every step of the Pods is a step of the growing cluster or none.
LEMMA GrowingOfStep ==
  ASSUME EtcdInv, [Next]_vars
  PROVE  GrowingStep
<1> USE DEF volumes
<1>1. TypeOK
  BY DEF EtcdInv
<1>2. CASE ClusterEnableHA \/ UNCHANGED vars
  BY <1>2 DEF ClusterEnableHA, vars, Serving, GrowingStep
<1>3. ASSUME NEW i \in Members,
             \/ CreatePod(i) \/ RestartContainer(i) \/ Crash(i)
             \/ MemberAddRefused(i) \/ WriteScript(i) \/ JoinRefused(i)
      PROVE  GrowingStep
  <2>1. PICK step \in {"begin", "down", "launch"} :
          Goto(i, step) /\ UNCHANGED <<members, data>>
    BY <1>3 DEF CreatePod, RestartContainer, Crash, MemberAddRefused,
                WriteScript, JoinRefused
  <2> QED
    BY <1>1, <2>1, StopsOrStutters
<1>4. ASSUME NEW i \in Members, Begin(i)
      PROVE  GrowingStep
  <2>1. PICK step \in {"launch", "add"} :
          Goto(i, step) /\ UNCHANGED <<members, data>>
    BY <1>4 DEF Begin
  <2> QED
    BY <1>1, <2>1, StopsOrStutters
<1>5. ASSUME NEW i \in Members, MemberAdd(i) \/ MemberAddUnanswered(i)
      PROVE  GrowingStep
  BY <1>5, AddAdmits DEF MemberAdd, MemberAddUnanswered
<1>6. ASSUME NEW i \in Members, Publish(i)
      PROVE  GrowingStep
  BY <1>6 DEF Publish, Serving, GrowingStep
<1> QED
  BY <1>2, <1>3, <1>4, <1>5, <1>6, BootstrapFounds, JoinJoins, RejoinResumes
  DEF Next, ContainerStep

(***************************************************************************)
(* ImplementsGrowing: the Pods found one cluster and grow it one member at *)
(* a time, for any number of kills and answers lost.                       *)
(***************************************************************************)
THEOREM PodsGrowOneCluster == Spec => ImplementsGrowing
<1>1. Init => Growing!Init
  BY DEF Init, Growing!Init, Serving
<1>2. EtcdInv /\ [Next]_vars => [Growing!Next]_(Growing!vars)
  BY GrowingOfStep DEF GrowingStep, Growing!vars
<1> QED
  BY EtcdInvariant, <1>1, <1>2, PTL DEF Spec, ImplementsGrowing, Growing!Spec

=============================================================================
