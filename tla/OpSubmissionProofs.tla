------------------------- MODULE OpSubmissionProofs -------------------------
(***************************************************************************)
(* Proofs about OpSubmission, for every set of operations.                 *)
(***************************************************************************)
EXTENDS OpSubmission, TLAPS

-----------------------------------------------------------------------------
(* compare is a strict weak order *)

OpTypes == {"join", "start", "message", "encrypted", "scrambled", "decrypted",
            "reveal", "abort"}

\* The operations that the queue compares.
IsOp(op) == /\ op.type \in OpTypes
            /\ op.R \in Int
            /\ TestAndSet(op) => op.Prev \in Int

LEMMA OpIndex ==
    ASSUME NEW a, a.type \in OpTypes, NEW b, b.type \in OpTypes
    PROVE  /\ opIndex(a) \in 0 .. 7
           /\ opIndex(a) = opIndex(b) <=> a.type = b.type
  BY DEF OpTypes, opIndex

LEMMA NewerIrreflexive ==
    ASSUME NEW a, IsOp(a)
    PROVE  ~IsNewer(a, a) /\ IsEqual(a, a)
  BY OpIndex DEF IsOp, IsNewer, IsEqual

LEMMA NewerTransitive ==
    ASSUME NEW a, IsOp(a), NEW b, IsOp(b), NEW c, IsOp(c),
           IsNewer(a, b), IsNewer(b, c)
    PROVE  IsNewer(a, c)
  BY OpIndex DEF IsOp, IsNewer, TestAndSet

LEMMA NotNewerTransitive ==
    ASSUME NEW a, IsOp(a), NEW b, IsOp(b), NEW c, IsOp(c),
           ~IsNewer(a, b), ~IsNewer(b, c)
    PROVE  ~IsNewer(a, c)
  BY OpIndex DEF IsOp, IsNewer, TestAndSet

LEMMA OpsAreOps ==
    /\ \A op \in Op \cup {NoOp} : IsOp(op)
    /\ \A op \in Op : IsNewer(op, NoOp)
<1>1. IsOp(NoOp) /\ NoOp.R = -1
  BY DEF NoOp, AbortOp, IsOp, TestAndSet, OpTypes
<1>2. \A op \in Op : IsOp(op) /\ op.R \in Nat
  BY OpAssumption DEF IsOp, OpTypes
<1> QED
  BY <1>1, <1>2 DEF IsNewer, IsOp

-----------------------------------------------------------------------------
(* The queue operations *)

\* The initial state has an empty queue and nothing finished.
LEMMA InitInv == ASSUME Init PROVE QueueInv
<1>1. /\ pending.ops = << >> /\ pending.lastFinished = NoOp
      /\ call = NoOp /\ newest = NoOp /\ pc = "loop" /\ dead = FALSE
  BY DEF Init, newEliminationQueue, NoOp
<1>2. ~IsNewer(NoOp, NoOp) /\ IsEqual(NoOp, NoOp)
  BY OpsAreOps, NewerIrreflexive
<1> QED
  BY <1>1, <1>2
  DEF QueueInv, TypeOK, PendingIsUnfinished, NewestIsNotLost, CallFollowsQueue

LEMMA AddInv ==
    ASSUME QueueInv, NEW op \in Op, Add(op)
    PROVE  QueueInv'
<1> DEFINE head == pending.ops[1]
           last == pending.lastFinished
<1>1. /\ pending.ops \in {<< >>} \cup {<<o>> : o \in Op}
      /\ last \in Op \cup {NoOp} /\ call \in Op \cup {NoOp} /\ newest \in Op \cup {NoOp}
      /\ pending.ops # << >> => head \in Op
  BY DEF QueueInv, TypeOK
<1>2. /\ IsOp(op) /\ IsOp(last) /\ IsOp(call) /\ IsOp(newest)
      /\ pending.ops # << >> => IsOp(head)
  BY <1>1, OpsAreOps
<1>3. /\ call' = call /\ dead' = dead
      /\ newest' = (IF IsNewer(op, newest) THEN op ELSE newest)
      /\ pc' = pc \/ (pc = "waiting" /\ pc' = "get")
  BY DEF Add
<1>4. CASE IsNewer(op, last) /\ (pending.ops # << >> => IsNewer(op, head))
  <2>1. pending' = [pending EXCEPT !.ops = <<op>>]
    BY <1>4 DEF Add, add
  <2>2. pending'.ops = <<op>> /\ pending'.lastFinished = last
    BY <2>1 DEF QueueInv, TypeOK
  <2>3. <<op>> # << >> /\ <<op>>[1] = op
    OBVIOUS
  <2>4. TypeOK'
    BY <1>1, <1>3, <2>2 DEF QueueInv, TypeOK
  <2>5. PendingIsUnfinished'
    BY <1>4, <2>2, <2>3 DEF PendingIsUnfinished
  <2>6. IsNewer(op, newest)
    BY <1>4 DEF QueueInv, NewestIsNotLost
  <2>7. NewestIsNotLost'
    BY <1>3, <2>2, <2>3, <2>6 DEF NewestIsNotLost
  <2>8. IsNewer(op, call)
    <3>1. CASE pending.ops # << >>
      BY <1>2, <1>4, <3>1, NewerTransitive DEF QueueInv, CallFollowsQueue
    <3>2. CASE pending.ops = << >>
      BY <1>2, <1>4, <3>2, NotNewerTransitive DEF QueueInv, CallFollowsQueue
    <3> QED
      BY <3>1, <3>2
  <2>9. CallFollowsQueue'
    BY <1>3, <2>2, <2>3, <2>8 DEF CallFollowsQueue
  <2> QED
    BY <2>4, <2>5, <2>7, <2>9 DEF QueueInv
<1>5. CASE ~IsNewer(op, last) \/ (pending.ops # << >> /\ ~IsNewer(op, head))
  <2>1. pending' = pending
    BY <1>5 DEF Add, add
  <2>2. ~IsNewer(op, newest)
    <3>1. CASE pending.ops = << >>
      BY <1>2, <1>5, <3>1 DEF QueueInv, NewestIsNotLost
    <3>2. CASE pending.ops # << >> /\ ~IsNewer(op, head)
      BY <1>2, <3>2 DEF QueueInv, NewestIsNotLost
    <3>3. CASE pending.ops # << >> /\ ~IsNewer(op, last)
      <4>1. ~IsNewer(last, head)
        BY <1>2, <3>3, NewerTransitive, NewerIrreflexive
        DEF QueueInv, PendingIsUnfinished
      <4>2. ~IsNewer(op, head)
        BY <1>2, <3>3, <4>1, NotNewerTransitive
      <4> QED
        BY <3>2, <3>3, <4>2
    <3> QED
      BY <1>5, <3>1, <3>2, <3>3
  <2>3. newest' = newest
    BY <1>3, <2>2
  <2> QED
    BY <1>3, <2>1, <2>3
    DEF QueueInv, TypeOK, PendingIsUnfinished, NewestIsNotLost, CallFollowsQueue
<1> QED
  BY <1>4, <1>5

LEMMA SubmitSucceedsInv ==
    ASSUME QueueInv, SubmitSucceeds
    PROVE  QueueInv'
<1> DEFINE head == pending.ops[1]
           last == pending.lastFinished
<1>1. /\ pending.ops # << >> /\ head \in Op
      /\ last \in Op \cup {NoOp} /\ call \in Op \cup {NoOp} /\ newest \in Op \cup {NoOp}
  BY DEF QueueInv, TypeOK, CallFollowsQueue, SubmitSucceeds
<1>2. IsOp(head) /\ IsOp(last) /\ IsOp(call) /\ IsOp(newest)
  BY <1>1, OpsAreOps
<1>3. /\ IsNewer(head, last) /\ head = newest
      /\ call = head \/ IsNewer(head, call)
  BY <1>1 DEF QueueInv, PendingIsUnfinished, NewestIsNotLost, CallFollowsQueue
<1>4. /\ call' = call /\ dead' = dead /\ newest' = newest /\ pc' = "loop"
      /\ pending' = finish(pending, call)
  BY DEF SubmitSucceeds
<1>5. CASE call = head
  <2>1. IsEqual(head, call) /\ IsNewer(call, last)
    BY <1>2, <1>3, <1>5, NewerIrreflexive
  <2>2. pending'.ops = << >> /\ pending'.lastFinished = head
    BY <1>1, <1>4, <1>5, <2>1 DEF finish
  <2>3. ~IsNewer(head, head)
    BY <1>2, NewerIrreflexive
  <2> QED
    BY <1>1, <1>3, <1>4, <1>5, <2>2, <2>3
    DEF QueueInv, TypeOK, PendingIsUnfinished, NewestIsNotLost, CallFollowsQueue
<1>6. CASE IsNewer(head, call)
  <2>1. pending'.ops = pending.ops /\ pending'.lastFinished \in {call, last}
    BY <1>4, <1>6 DEF finish, IsEqual
  <2>2. IsNewer(head, pending'.lastFinished)
    BY <1>3, <1>6, <2>1
  <2> QED
    BY <1>1, <1>3, <1>4, <2>1, <2>2
    DEF QueueInv, TypeOK, PendingIsUnfinished, NewestIsNotLost, CallFollowsQueue
<1> QED
  BY <1>3, <1>5, <1>6

\* Taking an operation from the queue.
LEMMA GetInv ==
    ASSUME QueueInv, Get
    PROVE  /\ QueueInv'
           /\ call' # call => IsNewer(call', call) /\ IsNewer(call', pending.lastFinished)
<1>1. /\ pending.ops # << >> /\ pending.ops[1] \in Op
      /\ call' = pending.ops[1] /\ pc' = "call"
      /\ pending' = pending /\ dead' = dead /\ newest' = newest
  BY DEF QueueInv, TypeOK, Get
<1> QED
  BY <1>1
  DEF QueueInv, TypeOK, PendingIsUnfinished, NewestIsNotLost, CallFollowsQueue

LEMMA NextInv ==
    ASSUME QueueInv, [Next]_vars
    PROVE  /\ QueueInv'
           /\ call' # call => IsNewer(call', call) /\ IsNewer(call', pending.lastFinished)
<1> USE DEF QueueInv, TypeOK, PendingIsUnfinished, NewestIsNotLost, CallFollowsQueue
<1>1. CASE \E op \in Op : Add(op)
  BY <1>1, AddInv DEF Add
<1>2. CASE Loop
  BY <1>2 DEF Loop
<1>3. CASE Wait
  BY <1>3 DEF Wait
<1>4. CASE Get
  BY <1>4, GetInv
<1>5. CASE SubmitFails
  BY <1>5 DEF SubmitFails
<1>6. CASE SubmitSucceeds
  BY <1>6, SubmitSucceedsInv DEF SubmitSucceeds
<1>7. CASE Kill
  BY <1>7 DEF Kill
<1>8. CASE UNCHANGED vars
  BY <1>8 DEF vars
<1> QED
  BY <1>1, <1>2, <1>3, <1>4, <1>5, <1>6, <1>7, <1>8 DEF Next

-----------------------------------------------------------------------------
(* The theorems *)

\* The inductive invariant of the queue and submitOps.
THEOREM QueueInvariance == Spec => []QueueInv
<1>1. Init => QueueInv
  BY InitInv
<1>2. QueueInv /\ [Next]_vars => QueueInv'
  BY NextInv
<1> QED
  BY <1>1, <1>2, PTL DEF Spec

\* The queue has at most one operation.
THEOREM QueueTypeCorrect == Spec => []TypeOK
<1>1. QueueInv => TypeOK
  BY DEF QueueInv
<1> QED
  BY <1>1, QueueInvariance, PTL

\* Nothing pending is as old as something committed.
THEOREM PendingStaysUnfinished == Spec => []PendingIsUnfinished
<1>1. QueueInv => PendingIsUnfinished
  BY DEF QueueInv
<1> QED
  BY <1>1, QueueInvariance, PTL

\* The newest operation is pending or committed.
THEOREM NewestIsKept == Spec => []NewestIsNotLost
<1>1. QueueInv => NewestIsNotLost
  BY DEF QueueInv
<1> QED
  BY <1>1, QueueInvariance, PTL

\* submitOps never goes back to an older or a committed operation.
THEOREM SubmissionsAreForward == Spec => SubmissionsMoveForward
<1>1. QueueInv /\ [Next]_vars =>
        [call' # call => /\ IsNewer(call', call)
                         /\ IsNewer(call', pending.lastFinished)]_vars
  BY NextInv
<1> QED
  BY <1>1, QueueInvariance, PTL DEF Spec, SubmissionsMoveForward

\* The queue and submitOps implement OpOffer.
THEOREM SubmissionImplementsOffer == Spec => ImplementsOpOffer
<1>1. Init => Offers!Init
  BY DEF Init, NoOp, AbortOp, Offers!Init, Offers!AbortOp
<1>2. QueueInv /\ [Next]_vars => [Offers!Next]_<<newest, call>>
  <2> SUFFICES ASSUME QueueInv, [Next]_vars
               PROVE  [Offers!Next]_<<newest, call>>
    OBVIOUS
  <2>1. CASE \E op \in Op : Add(op)
    <3>1. \A a, b : Offers!IsNewer(a, b) <=> IsNewer(a, b)
      BY DEF IsNewer, opIndex, TestAndSet,
             Offers!IsNewer, Offers!opIndex, Offers!TestAndSet
    <3> QED
      BY <2>1, <3>1 DEF Add, Offers!Next, Offers!Add
  <2>2. CASE Get
    BY <2>2 DEF Get, QueueInv, NewestIsNotLost, Offers!Next, Offers!Offer
  <2>3. CASE Loop \/ Wait \/ SubmitFails \/ SubmitSucceeds \/ Kill \/ UNCHANGED vars
    BY <2>3 DEF Loop, Wait, SubmitFails, SubmitSucceeds, Kill, vars
  <2> QED
    BY <2>1, <2>2, <2>3 DEF Next
<1> QED
  BY <1>1, <1>2, QueueInvariance, PTL DEF Spec, ImplementsOpOffer, Offers!Spec
=============================================================================
