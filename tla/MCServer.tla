------------------------------ MODULE MCServer ------------------------------
(* Server with operations of one client in round 0.                        *)
EXTENDS ServerRefinement

CONSTANTS c, crypto

MCOp == {JoinOp(c, 0), StartOp(c, 0, crypto)}

MCValue == MCOp \cup {Configuration}
=============================================================================
