---------------------------- MODULE OpSubmission ----------------------------
(***************************************************************************)
(* The goroutines of one client around its elimination queue: the helpers  *)
(* of readUpdates, Start and aborter that add operations in any order, the *)
(* submitOps loop that submits them (client.go:667-679), and Kill.         *)
(*                                                                         *)
(* Each access to the queue holds its mutex, so each is one step; between  *)
(* get and finish the mutex is free while the RPC is under way.            *)
(***************************************************************************)
EXTENDS EliminationQueue

CONSTANT Op   \* the operations this client may add

ASSUME OpAssumption ==
    \A op \in Op :
        /\ op.type \in {"join", "start", "message", "encrypted", "scrambled",
                        "decrypted", "reveal", "abort"}
        /\ op.R \in Nat
        /\ TestAndSet(op) => op.Prev \in Nat

VARIABLES pending,  \* the queue
          pc,       \* where submitOps is
          call,     \* the last operation it took from the queue
          dead,     \* Client.dead
          newest    \* history: the newest operation ever added

vars == <<pending, pc, call, dead, newest>>

NoOp == AbortOp(-1)

Init ==
    /\ pending = newEliminationQueue
    /\ pc = "loop"
    /\ call = NoOp
    /\ dead = FALSE
    /\ newest = NoOp

\* Mutant: the Broadcast at the end of add is missing.
AddWithoutBroadcast(op) ==
    /\ pending' = add(pending, op)
    /\ newest' = IF IsNewer(op, newest) THEN op ELSE newest
    /\ UNCHANGED <<pc, call, dead>>
\* pending.add(op): Broadcast wakes the waiting get only if the queue changed.
Add(op) ==
    /\ pending' = add(pending, op)
    /\ pc' = IF pending' # pending /\ pc = "waiting" THEN "get" ELSE pc
    /\ newest' = IF IsNewer(op, newest) THEN op ELSE newest
    /\ UNCHANGED <<call, dead>>

\* for !c.killed()
Loop ==
    /\ pc = "loop"
    /\ pc' = IF dead THEN "done" ELSE "get"
    /\ UNCHANGED <<pending, call, dead, newest>>

\* pending.get(): wait on the condition variable while the queue is empty.
Wait ==
    /\ pc = "get"
    /\ pending.ops = << >>
    /\ pc' = "waiting"
    /\ UNCHANGED <<pending, call, dead, newest>>

Get ==
    /\ pc = "get"
    /\ pending.ops # << >>
    /\ call' = pending.ops[1]
    /\ pc' = "call"
    /\ UNCHANGED <<pending, dead, newest>>

\* submitOp returned an error: the next server is tried.
SubmitFails ==
    /\ pc = "call"
    /\ pc' = "loop"
    /\ UNCHANGED <<pending, call, dead, newest>>

SubmitSucceeds ==
    /\ pc = "call"
    /\ pending' = finish(pending, call)
    /\ pc' = "loop"
    /\ UNCHANGED <<call, dead, newest>>

Kill ==
    /\ ~dead
    /\ dead' = TRUE
    /\ UNCHANGED <<pending, pc, call, newest>>

Next ==
    \/ \E op \in Op : Add(op)
    \/ Loop
    \/ Wait
    \/ Get
    \/ SubmitFails
    \/ SubmitSucceeds
    \/ Kill

(***************************************************************************)
(* The goroutine runs, and a leader that can commit is found again and     *)
(* again: submitOp does not fail forever (the aborter relies on the same). *)
(***************************************************************************)
Fairness ==
    /\ WF_vars(Loop)
    /\ WF_vars(Wait)
    /\ WF_vars(Get)
    /\ SF_vars(SubmitSucceeds)

Spec == Init /\ [][Next]_vars /\ Fairness

-----------------------------------------------------------------------------
(* Safety *)

\* The queue holds at most one operation (eliminationqueue.go:18-23).
TypeOK ==
    /\ pending.ops \in {<< >>} \cup {<<op>> : op \in Op}
    /\ pending.lastFinished \in Op \cup {NoOp}
    /\ pc \in {"loop", "get", "waiting", "call", "done"}
    /\ call \in Op \cup {NoOp}
    /\ dead \in BOOLEAN
    /\ newest \in Op \cup {NoOp}

\* What is pending has not been finished, and nothing newer has: an operation
\* is not submitted again after a newer one was committed, however late the
\* goroutine that adds it runs.
PendingIsUnfinished ==
    pending.ops # << >> => IsNewer(pending.ops[1], pending.lastFinished)

\* The newest operation ever added is pending, or it has been committed:
\* neither a late older operation nor the end of the RPC of an operation that
\* was replaced while under way removes it.
NewestIsNotLost ==
    newest = IF pending.ops # << >> THEN pending.ops[1] ELSE pending.lastFinished

\* The last operation taken from the queue is the pending one, or older than
\* it; if nothing is pending it is not newer than what was committed.
CallFollowsQueue ==
    /\ pending.ops # << >> => \/ call = pending.ops[1]
                              \/ IsNewer(pending.ops[1], call)
    /\ pending.ops = << >> => ~IsNewer(call, pending.lastFinished)
    /\ pc = "call" => pending.ops # << >>

\* The inductive invariant of the queue and its only consumer.
QueueInv ==
    /\ TypeOK
    /\ PendingIsUnfinished
    /\ NewestIsNotLost
    /\ CallFollowsQueue

\* submitOps repeats an operation after a failure but never goes back to an
\* older one, and never to one that was committed.
SubmissionsMoveForward ==
    [][call' # call => /\ IsNewer(call', call)
                       /\ IsNewer(call', pending.lastFinished)]_vars

Offers == INSTANCE OpOffer WITH newest <- newest, call <- call

\* The queue and submitOps do what OpOffer says: only the newest operation is
\* ever submitted, whatever the order in which goroutines add and RPCs return.
ImplementsOpOffer == Offers!Spec

-----------------------------------------------------------------------------
(* Liveness *)

\* An operation that is the newest is committed, or a newer one is, unless the
\* client is killed: no wakeup of get is lost.
NewestIsCommitted ==
    \A op \in Op :
        newest = op ~> (dead \/ ~IsNewer(op, pending.lastFinished))

=============================================================================
