----------------------------- MODULE MCReplica -----------------------------
(* Replica on small instances; the cfgs give the constants their values.   *)
EXTENDS Replica, TLC

\* Clients are interchangeable.
ClientSymmetry == Permutations(Client)
=============================================================================
