--------------------------- MODULE SequentialUpgrade ---------------------------
(***************************************************************************)
(* What the upgrade of a control plane promises to operators who wait for  *)
(* one to end before they ask for the next: the label is a write-ahead     *)
(* record.  A version enters it before any workload is touched, the        *)
(* workloads follow one by one in a fixed order, and only when the last    *)
(* has followed does the record shrink to the new version alone.  An       *)
(* attempt may be given up anywhere; the next one starts over with the     *)
(* first workload and keeps what is in the record.                         *)
(*                                                                         *)
(* There are no goroutines, calls, panics or kills here: ClusterUpgrade    *)
(* has them and implements this.                                           *)
(***************************************************************************)
EXTENDS Naturals, Sequences

CONSTANTS
  Versions,      \* versions an upgrade may ask for
  FirstVersion,  \* version of the cluster at the start
  NoVersion      \* what a workload gets when nobody knows its version

Order == <<"etcd", "kube-apiserver", "kube-controller-manager",
           "kube-scheduler">>

VARIABLES
  record,    \* versions that may be deployed, the latest one last
  deployed,  \* version of each workload
  stage      \* 0 at rest, k at the k-th workload, 5 when all have followed

vars == <<record, deployed, stage>>

Rest == 0
AllRolled == Len(Order) + 1

Latest == record[Len(record)]

Init ==
  /\ record = <<FirstVersion>>
  /\ deployed = [c \in {Order[k] : k \in 1..Len(Order)} |-> FirstVersion]
  /\ stage = Rest

Begin(v) ==
  /\ stage = Rest
  /\ record' = Append(record, v)
  /\ stage' = 1
  /\ UNCHANGED deployed

Roll(v) ==
  /\ stage \in 1..Len(Order)
  /\ v \in {Latest, NoVersion}
  /\ deployed' = [deployed EXCEPT ![Order[stage]] = v]
  /\ stage' = stage + 1
  /\ UNCHANGED record

Complete ==
  /\ stage = AllRolled
  /\ record' = <<Latest>>
  /\ stage' = Rest
  /\ UNCHANGED deployed

GiveUp ==
  /\ stage # Rest
  /\ stage' = Rest
  /\ UNCHANGED <<record, deployed>>

Next ==
  \/ \E v \in Versions : Begin(v)
  \/ \E v \in Versions \cup {NoVersion} : Roll(v)
  \/ Complete
  \/ GiveUp

Spec == Init /\ [][Next]_vars

=============================================================================
