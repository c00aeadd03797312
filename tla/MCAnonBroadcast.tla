-------------------------- MODULE MCAnonBroadcast --------------------------
(* AnonBroadcast on small instances; the cfgs give the constants their      *)
(* values.                                                                  *)
EXTENDS AnonBroadcast, TLC

CONSTANT c1

ClientSymmetry == Permutations(Client)

\* All clients agree on the message size, or some may disagree with c1.
OneSize  == {[c \in Client |-> 1]}
TwoSizes == {size \in [Client -> {1, 2}] : size[c1] = 1}
=============================================================================
