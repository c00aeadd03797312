----------------------------- MODULE OpService -----------------------------
(***************************************************************************)
(* What SubmitOp promises its callers (server.go:100-103): OK means that   *)
(* the operation need not be retried, because it has been committed or     *)
(* can have no effect; an error promises nothing, and the operation may be *)
(* committed before or after it.  Others submit operations as well.        *)
(* Server implements this; OpSubmission and AnonBroadcast build on it.     *)
(***************************************************************************)
EXTENDS StateMachine, SequencesExt

CONSTANTS Call, Op

VARIABLES history,  \* the committed operations
          asked,    \* asked[k]: the operation of call k, Nil before the call
          reply     \* reply[k]: Nil while call k is under way

vars == <<history, asked, reply>>

\* The state machine after the operations ops.
After(ops) == FoldLeft(LAMBDA sm, op : Apply(sm, op).sm, NewStateMachine, ops)

Init ==
    /\ history = << >>
    /\ asked = [k \in Call |-> Nil]
    /\ reply = [k \in Call |-> Nil]

Ask(k, op) ==
    /\ asked[k] = Nil
    /\ asked' = [asked EXCEPT ![k] = op]
    /\ UNCHANGED <<history, reply>>

Commit(op) ==
    /\ history' = Append(history, op)
    /\ UNCHANGED <<asked, reply>>

Done(op) ==
    \/ \E i \in DOMAIN history : history[i] = op
    \/ GuaranteedNoEffect(After(history), op)

AnswerOK(k) ==
    /\ asked[k] # Nil /\ reply[k] = Nil
    /\ Done(asked[k])
    /\ reply' = [reply EXCEPT ![k] = "OK"]
    /\ UNCHANGED <<history, asked>>

AnswerError(k) ==
    /\ asked[k] # Nil /\ reply[k] = Nil
    /\ reply' = [reply EXCEPT ![k] = "ErrWrongLeader"]
    /\ UNCHANGED <<history, asked>>

Next ==
    \/ \E op \in Op : Commit(op)
    \/ \E k \in Call : \/ \E op \in Op : Ask(k, op)
                       \/ AnswerOK(k)
                       \/ AnswerError(k)

Spec == Init /\ [][Next]_vars
=============================================================================
