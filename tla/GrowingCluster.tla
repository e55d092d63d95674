--------------------------- MODULE GrowingCluster ---------------------------
(***************************************************************************)
(* What the etcd of a managed cluster promises to the API servers that     *)
(* store in it: it is founded once, by one node, and from then on grows.   *)
(*                                                                         *)
(* Nobody is admitted before all who were admitted earlier hold data, and  *)
(* a majority takes part in admitting, so there is never more than one     *)
(* member with nothing to contribute.  A member that holds data holds it   *)
(* for ever, and takes part again whenever it comes up, with no question   *)
(* asked.  There are no Pods, scripts, volumes or answers here.            *)
(***************************************************************************)
EXTENDS Naturals, FiniteSets

CONSTANTS
  Nodes,    \* may become members
  Founder   \* the first of them

VARIABLES
  members,  \* nodes that were admitted
  holders,  \* members that hold data
  serving   \* members that take part

vars == <<members, holders, serving>>

Init ==
  /\ members = {}
  /\ holders = {}
  /\ serving = {}

Found ==
  /\ members = {}
  /\ members' = {Founder}
  /\ holders' = {Founder}
  /\ serving' = {Founder}

Majority == 2 * Cardinality(serving \cap members) > Cardinality(members)

Admit(n) ==
  /\ n \notin members
  /\ members \subseteq holders
  /\ Majority
  /\ members' = members \cup {n}
  /\ UNCHANGED <<holders, serving>>

Join(n) ==
  /\ members \ holders = {n}
  /\ serving \cap members # {}
  /\ holders' = holders \cup {n}
  /\ serving' = serving \cup {n}
  /\ UNCHANGED members

Resume(n) ==
  /\ n \in holders \ serving
  /\ serving' = serving \cup {n}
  /\ UNCHANGED <<members, holders>>

Stop(n) ==
  /\ n \in serving
  /\ serving' = serving \ {n}
  /\ UNCHANGED <<members, holders>>

Next ==
  \/ Found
  \/ \E n \in Nodes : Admit(n) \/ Join(n) \/ Resume(n) \/ Stop(n)

Spec == Init /\ [][Next]_vars

=============================================================================
