-------------------------- MODULE ServerRefinement --------------------------
(***************************************************************************)
(* Server implements OpService: the committed operations are the history,  *)
(* and a call is answered when SubmitOp returns.                           *)
(***************************************************************************)
EXTENDS Server

IsOperation(entry) == entry.value # Configuration

Service ==
    INSTANCE OpService WITH
        history <- LET ops == SelectSeq(committed, IsOperation)
                   IN [i \in DOMAIN ops |-> ops[i].value],
        asked   <- [k \in Call |-> call[k].op],
        reply   <- [k \in Call |-> IF call[k].pc = "done" THEN call[k].reply ELSE Nil]

\* "Returns OK if this operation shouldn't be retried (because it has been
\* committed or because it is a no-op)" (server.go:100-103): SubmitOp keeps the
\* promise of OpService, also when the leader changes while the request waits
\* and another operation takes its place in the log.
ImplementsOpService == Service!Spec
=============================================================================
