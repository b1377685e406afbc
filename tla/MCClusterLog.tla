---------------------------- MODULE MCClusterLog ----------------------------
EXTENDS ClusterLog

(* Two levels with different lifetimes; "other" stands for a level that is  *)
(* not in ttlByLevel.                                                       *)
MCttlByLevel == [debug |-> 0, info |-> 1]
=============================================================================
