---------------------------- MODULE EtcdMembership ----------------------------
(***************************************************************************)
(* How the etcd of a managed cluster grows from one member to three        *)
(* (images/etcd/entrypoint.sh, started by the StatefulSet that             *)
(* ClusterCreate applies and ClusterEnableHA enlarges).                    *)
(*                                                                         *)
(* Each Pod runs entrypoint.sh.  Its second volume, /var/lib/cache, keeps  *)
(* the command line of its etcd: a start that finds it there just runs it. *)
(* A first start of Pod 0 bootstraps a cluster of its own; that of another *)
(* Pod asks Pod 0 for membership and keeps the answer.  The container may  *)
(* be killed between any two steps; volumes stay.  The probes of the Pod   *)
(* are commented out in the code, so a Pod counts as ready as soon as its  *)
(* container runs.                                                         *)
(*                                                                         *)
(* etcd itself is external: a change of membership needs a quorum of the   *)
(* members there are and is refused when too few of them have ever started *)
(* (strict reconfiguration), a member without data joins only with exactly *)
(* the current membership on its command line.                             *)
(***************************************************************************)
EXTENDS Naturals, FiniteSets

CONSTANTS
  Enlarged,    \* replicas of the StatefulSet after ClusterEnableHA
  MaxCrashes   \* bound: how often a container is killed or an answer lost

Members == 0..(Enlarged - 1)

\* The handler says 3.
ASSUME EnlargedAssumption == Enlarged \in 1..3
ASSUME CrashesAssumption == MaxCrashes \in Nat

VARIABLES
  replicas,  \* spec.replicas of the StatefulSet
  pc,        \* next step of each Pod's container
  cached,    \* Pods with /var/lib/cache/entrypoint.sh
  envs,      \* initial cluster in each Pod's /var/lib/cache/envs
  data,      \* Pods with a member in /var/lib/etcd
  members,   \* membership of the etcd cluster
  started,   \* members that have published their name in it
  crashes    \* how often a container was killed or an answer lost

volumes == <<cached, envs, data>>
vars == <<replicas, pc, cached, envs, data, members, started, crashes>>

\* A container in one of these runs; "serving" is an etcd that takes part.
Running == {"begin", "add", "script", "launch", "serving"}

TypeOK ==
  /\ replicas \in 1..Enlarged
  /\ pc \in [Members -> {"absent", "down"} \cup Running]
  /\ cached \subseteq Members
  /\ envs \in [Members -> SUBSET Members]
  /\ data \subseteq Members
  /\ members \subseteq Members
  /\ started \subseteq Members
  /\ crashes \in Nat

\* As ClusterCreate leaves it: one replica, no Pod yet.
Init ==
  /\ replicas = 1
  /\ pc = [i \in Members |-> "absent"]
  /\ cached = {}
  /\ envs = [i \in Members |-> {}]
  /\ data = {}
  /\ members = {}
  /\ started = {}
  /\ crashes = 0

Goto(i, step) == pc' = [pc EXCEPT ![i] = step]

-----------------------------------------------------------------------------
(* The host: StatefulSet controller and kubelet.                           *)

\* Faulty variant: asked again, it adds the missing members once more.
ClusterEnableHA_Adds ==
  /\ replicas' = replicas + (Enlarged - 1)
  /\ UNCHANGED <<pc, volumes, members, started, crashes>>

ClusterEnableHA ==
  /\ replicas' = Enlarged
  /\ UNCHANGED <<pc, volumes, members, started, crashes>>

\* Pods are created in order, each when its predecessors run.
CreatePod(i) ==
  /\ i < replicas
  /\ pc[i] = "absent"
  /\ \A j \in Members : j < i => pc[j] \in Running
  /\ Goto(i, "begin")
  /\ UNCHANGED <<replicas, volumes, members, started, crashes>>

\* Faulty variant: /var/lib/etcd is no claim, it goes with the container.
RestartContainer_Empties(i) ==
  /\ pc[i] = "down"
  /\ data' = data \ {i}
  /\ Goto(i, "begin")
  /\ UNCHANGED <<replicas, cached, envs, members, started, crashes>>

RestartContainer(i) ==
  /\ pc[i] = "down"
  /\ Goto(i, "begin")
  /\ UNCHANGED <<replicas, volumes, members, started, crashes>>

\* Killed: out of memory, node lost, Pod replaced by a rolling update.
Crash(i) ==
  /\ pc[i] \in Running
  /\ crashes < MaxCrashes
  /\ crashes' = crashes + 1
  /\ Goto(i, "down")
  /\ UNCHANGED <<replicas, volumes, members, started>>

-----------------------------------------------------------------------------
(* etcd.                                                                   *)

Serving == {i \in Members : pc[i] = "serving"}

HasQuorum == 2 * Cardinality(Serving \cap members) > Cardinality(members)

\* Faulty variant: --strict-reconfig-check=false in ETCD_ARGS.
EnoughStarted_NotStrict == TRUE

\* The strict check counts the members with the new one; a single member may
\* always get a second.
EnoughStarted ==
  LET up == Cardinality(started \cap members)
      n  == Cardinality(members) + 1
  IN (up = 1 /\ n = 2) \/ up >= (n \div 2) + 1

\* Pod 0 is the only endpoint the script knows.
AddAccepted(i) ==
  /\ 0 \in Serving
  /\ HasQuorum
  /\ EnoughStarted
  /\ i \notin members

-----------------------------------------------------------------------------
(* entrypoint.sh.                                                          *)

\* Faulty variant: no cache, every start goes the way of the first.
Begin_NoCache(i) ==
  /\ pc[i] = "begin"
  /\ cached' = IF i = 0 THEN cached \cup {i} ELSE cached
  /\ Goto(i, IF i = 0 THEN "launch" ELSE "add")
  /\ UNCHANGED <<replicas, envs, data, members, started, crashes>>

\* The command line of Pod 0 depends on nothing; it is written and run.
Begin(i) ==
  /\ pc[i] = "begin"
  /\ cached' = IF i = 0 THEN cached \cup {i} ELSE cached
  /\ Goto(i, IF i \in cached \cup {0} THEN "launch" ELSE "add")
  /\ UNCHANGED <<replicas, envs, data, members, started, crashes>>

\* Faulty variant: the script is on the volume before the answer is known.
MemberAdd_ScriptFirst(i) ==
  /\ pc[i] = "add"
  /\ AddAccepted(i)
  /\ cached' = cached \cup {i}
  /\ members' = members \cup {i}
  /\ Goto(i, "script")
  /\ UNCHANGED <<replicas, envs, data, started, crashes>>

MemberAdd(i) ==
  /\ pc[i] = "add"
  /\ AddAccepted(i)
  /\ members' = members \cup {i}
  /\ envs' = [envs EXCEPT ![i] = members']
  /\ Goto(i, "script")
  /\ UNCHANGED <<replicas, cached, data, started, crashes>>

\* The redirection has emptied the file; grep finds nothing and -e ends the
\* script.
MemberAddRefused(i) ==
  /\ pc[i] = "add"
  /\ ~AddAccepted(i)
  /\ envs' = [envs EXCEPT ![i] = {}]
  /\ Goto(i, "down")
  /\ UNCHANGED <<replicas, cached, data, members, started, crashes>>

\* Accepted, but the answer does not arrive.
MemberAddUnanswered(i) ==
  /\ pc[i] = "add"
  /\ AddAccepted(i)
  /\ crashes < MaxCrashes
  /\ crashes' = crashes + 1
  /\ members' = members \cup {i}
  /\ envs' = [envs EXCEPT ![i] = {}]
  /\ Goto(i, "down")
  /\ UNCHANGED <<replicas, cached, data, started>>

WriteScript(i) ==
  /\ pc[i] = "script"
  /\ cached' = cached \cup {i}
  /\ Goto(i, "launch")
  /\ UNCHANGED <<replicas, envs, data, members, started, crashes>>

\* Faulty variant: what is in the data directory does not count.
Bootstrap_Again(i) ==
  /\ pc[i] = "launch"
  /\ i = 0
  /\ data' = data \cup {i}
  /\ members' = {i}
  /\ Goto(i, "serving")
  /\ UNCHANGED <<replicas, cached, envs, started, crashes>>

\* --initial-cluster-state=new: a cluster of one, unless there is data.
Bootstrap(i) ==
  /\ pc[i] = "launch"
  /\ i = 0 /\ i \notin data
  /\ data' = data \cup {i}
  /\ members' = {i}
  /\ Goto(i, "serving")
  /\ UNCHANGED <<replicas, cached, envs, started, crashes>>

Rejoin(i) ==
  /\ pc[i] = "launch"
  /\ i \in data
  /\ Goto(i, "serving")
  /\ UNCHANGED <<replicas, volumes, members, started, crashes>>

\* --initial-cluster-state=existing: the membership is compared with that of
\* any member that answers.
CanJoin(i) == envs[i] = members /\ Serving \cap envs[i] # {}

Join(i) ==
  /\ pc[i] = "launch"
  /\ i # 0 /\ i \notin data
  /\ CanJoin(i)
  /\ data' = data \cup {i}
  /\ Goto(i, "serving")
  /\ UNCHANGED <<replicas, cached, envs, members, started, crashes>>

JoinRefused(i) ==
  /\ pc[i] = "launch"
  /\ i # 0 /\ i \notin data
  /\ ~CanJoin(i)
  /\ Goto(i, "down")
  /\ UNCHANGED <<replicas, volumes, members, started, crashes>>

\* A member that takes part publishes its name, which needs a quorum.
Publish(i) ==
  /\ i \in Serving \ started
  /\ HasQuorum
  /\ started' = started \cup {i}
  /\ UNCHANGED <<replicas, pc, volumes, members, crashes>>

ContainerStep(i) ==
  \/ Begin(i)
  \/ MemberAdd(i)
  \/ MemberAddRefused(i)
  \/ WriteScript(i)
  \/ Bootstrap(i)
  \/ Rejoin(i)
  \/ Join(i)
  \/ JoinRefused(i)
  \/ Publish(i)

-----------------------------------------------------------------------------

Next ==
  \/ ClusterEnableHA
  \/ \E i \in Members : \/ CreatePod(i)
                        \/ RestartContainer(i)
                        \/ Crash(i)
                        \/ MemberAddUnanswered(i)
                        \/ ContainerStep(i)

Spec == Init /\ [][Next]_vars

\* The controller creates Pods, the kubelet restarts containers (a back-off
\* ends), the script and etcd go on.  Operators, kills and lost answers owe
\* nothing.
Fairness ==
  \A i \in Members : /\ WF_vars(CreatePod(i))
                     /\ WF_vars(RestartContainer(i))
                     /\ WF_vars(ContainerStep(i))

FairSpec == Spec /\ Fairness

-----------------------------------------------------------------------------
(* Properties.                                                             *)

\* A member that was added while its start was cut short: its Pod has nothing
\* on its volumes, and adding it again is refused.
Orphaned(i) ==
  /\ i \in members \ (cached \cup data)
  /\ pc[i] # "script"

\* Every member of the enlarged cluster takes part.
Whole == members = Members /\ Serving = Members

(***************************************************************************)
(* Members join one at a time, although nothing in the Pods makes one wait *)
(* for the other (ready is running): however starts of two Pods, kills and *)
(* retries interleave, at most one member has been added and not started,  *)
(* so that a single Pod coming up always gives the quorum back.            *)
(***************************************************************************)
OneJoinAtATime == Cardinality(members \ started) <= 1

(***************************************************************************)
(* The command line on the cache volume stays right for as long as it is   *)
(* needed: until a member has data, the membership it was told is still    *)
(* the membership there is, through any restart of it and of the others.   *)
(***************************************************************************)
CachedClusterIsCurrent ==
  \A i \in cached \ (data \cup {0}) : i \in members /\ envs[i] = members

(***************************************************************************)
(* There is one etcd cluster for ever: no restart of Pod 0, whose command  *)
(* line says "new", forgets the members and what they store.               *)
(***************************************************************************)
MembersStay == [][members \subseteq members']_vars

\* The etcd of a cluster as its API servers see it.
Growing == INSTANCE GrowingCluster
  WITH Nodes <- Members, Founder <- 0, holders <- data, serving <- Serving

(***************************************************************************)
(* The Pods, each with a script that knows nothing of the others, found    *)
(* one cluster and grow it one member at a time, as GrowingCluster says:   *)
(* whatever is killed, restarted, refused or left without an answer, data  *)
(* is never lost, and nobody joins but the one member that has none.       *)
(***************************************************************************)
ImplementsGrowing == Growing!Spec

(***************************************************************************)
(* After ClusterEnableHA the three members come to serve together, in      *)
(* spite of kills, lost quorums and refused attempts, unless a start was   *)
(* cut between its "member add" and its cache.  That one case is for ever. *)
(***************************************************************************)
OnlyOrphansAreStuck ==
  (replicas = Enlarged) ~> [](Whole \/ \E i \in Members : Orphaned(i))

=============================================================================
