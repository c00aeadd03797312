-------------------------- MODULE EliminationQueue --------------------------
(***************************************************************************)
(* The queue of operations a client wants committed                        *)
(* (anonbcast/eliminationqueue.go), as operators on a value q with the     *)
(* fields of the struct: ops, which holds at most one operation, and       *)
(* lastFinished.                                                           *)
(***************************************************************************)
EXTENDS StateMachine, Integers

opIndex(op) ==
    CASE op.type = "join"      -> 0
      [] op.type = "start"     -> 1
      [] op.type = "message"   -> 2
      [] op.type = "encrypted" -> 3
      [] op.type = "scrambled" -> 4
      [] op.type = "decrypted" -> 5
      [] op.type = "reveal"    -> 6
      [] op.type = "abort"     -> 7

TestAndSet(op) == op.type \in {"encrypted", "decrypted"}

\* compare(a, b) = opNewer; opOlder is IsNewer(b, a), and opEqual is neither.
IsNewer(a, b) ==
    \/ a.R > b.R
    \/ a.R = b.R /\ opIndex(a) > opIndex(b)
    \/ a.R = b.R /\ a.type = b.type /\ TestAndSet(a) /\ a.Prev > b.Prev

IsEqual(a, b) == ~IsNewer(a, b) /\ ~IsNewer(b, a)

newEliminationQueue == [ops |-> << >>, lastFinished |-> AbortOp(-1)]

\* Mutant: the last operation added wins, newer or not.
addLastWins(q, op) ==
    IF ~IsNewer(op, q.lastFinished) THEN q ELSE [q EXCEPT !.ops = <<op>>]
\* Mutant: finished operations are not remembered when adding.
addFinished(q, op) ==
    IF q.ops # << >> /\ ~IsNewer(op, q.ops[1]) THEN q
    ELSE [q EXCEPT !.ops = <<op>>]
add(q, op) ==
    IF \/ ~IsNewer(op, q.lastFinished)
       \/ q.ops # << >> /\ ~IsNewer(op, q.ops[1])
    THEN q
    ELSE [q EXCEPT !.ops = <<op>>]

finish(q, op) ==
    [ops |-> IF q.ops # << >> /\ IsEqual(q.ops[1], op) THEN << >> ELSE q.ops,
     lastFinished |-> IF IsNewer(op, q.lastFinished) THEN op ELSE q.lastFinished]
=============================================================================
