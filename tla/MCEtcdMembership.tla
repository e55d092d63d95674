--------------------------- MODULE MCEtcdMembership ---------------------------
(* EtcdMembership for TLC: the bounds are numbers and come from the .cfg.   *)
EXTENDS EtcdMembership
=============================================================================
