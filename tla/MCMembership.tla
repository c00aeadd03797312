---------------------------- MODULE MCMembership ----------------------------
(* A cluster of one server that stays, one that comes and goes, and the    *)
(* client's own.                                                           *)
EXTENDS Membership

CONSTANTS s1, s2, me

MCServers == {s1, s2, me}
MCBase == {s1}
=============================================================================
