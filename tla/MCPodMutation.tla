---------------------------- MODULE MCPodMutation ----------------------------
(* A small instance of PodMutation: two containers, one of which may be    *)
(* skipped, and an author who defines half of a pair of variables.         *)
EXTENDS PodMutationProperties, TLC
=============================================================================
