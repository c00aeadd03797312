------------------------------ MODULE OpOffer ------------------------------
(***************************************************************************)
(* What a client's elimination queue and its submitOps loop promise to the *)
(* rest of the system: of all the operations added so far only the newest  *)
(* is handed to a leader.  OpSubmission implements this; AnonBroadcast is  *)
(* built on it.                                                            *)
(***************************************************************************)
EXTENDS EliminationQueue

CONSTANT Op

VARIABLES newest,   \* the newest operation added
          call      \* the operation handed to a leader last

Init ==
    /\ newest = AbortOp(-1)
    /\ call = AbortOp(-1)

Add(op) ==
    /\ newest' = IF IsNewer(op, newest) THEN op ELSE newest
    /\ UNCHANGED call

Offer ==
    /\ call' = newest
    /\ UNCHANGED newest

Next == Offer \/ \E op \in Op : Add(op)

Spec == Init /\ [][Next]_<<newest, call>>
=============================================================================
