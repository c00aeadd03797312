-------------------------------- MODULE Raft --------------------------------
(***************************************************************************)
(* Raft as one server sees it through libraft.Raft (libraft/raft.go); the  *)
(* implementation is not part of the repository.                           *)
(*                                                                         *)
(* Each term has one leader, this server or another one.  A leader that    *)
(* was replaced goes on believing that it leads until it hears of the new  *)
(* term; what it appends meanwhile, and what it had not committed before,  *)
(* may survive in the logs of others or be lost.  What is committed stays, *)
(* and every new leader has all of it.                                     *)
(***************************************************************************)
EXTENDS Naturals, Sequences, SequencesExt

CONSTANTS Value,     \* what may be in the log
          MaxTerm,   \* bound: elections
          MaxLog     \* bound: the length of a log

ASSUME RaftAssumption == MaxTerm \in Nat /\ MaxLog \in Nat

VARIABLES term,       \* the newest term
          led,        \* the newest term that this server has led, 0 before
          leader,     \* it believes that it leads
          rlog,       \* its log while it leads, and afterwards while that can matter
          committed,  \* the committed entries
          lost        \* it has stopped leading and has not said so yet

raft == <<term, led, leader, rlog, committed, lost>>

Entry(t, value) == [term |-> t, value |-> value]

RaftInit ==
    /\ term = 0
    /\ led = 0
    /\ leader = FALSE
    /\ rlog = << >>
    /\ committed = << >>
    /\ lost = FALSE

\* What this server appended after the committed entries may still be committed.
Survives == IsPrefix(committed, rlog)

\* A server that does not lead forgets a log that cannot be committed.
Forget == rlog' = IF leader' \/ IsPrefix(committed', rlog) THEN rlog ELSE << >>

Elect ==
    /\ term < MaxTerm
    /\ ~leader
    /\ term' = term + 1
    /\ led' = term'
    /\ leader' = TRUE
    /\ rlog' \in {committed} \cup
                 {SubSeq(rlog, 1, n) : n \in IF Survives
                                             THEN Len(committed) .. Len(rlog)
                                             ELSE {}}
    /\ UNCHANGED <<committed, lost>>

ElectOther ==
    /\ term < MaxTerm
    /\ term' = term + 1
    /\ UNCHANGED <<led, leader, rlog, committed, lost>>

StepDown ==
    /\ leader
    /\ leader' = FALSE
    /\ lost' = TRUE
    /\ UNCHANGED <<term, led, committed>>
    /\ Forget

\* Start at the leader: the entry gets the next index of its log.
Propose(value) ==
    /\ leader
    /\ Len(rlog) < MaxLog
    /\ rlog' = Append(rlog, Entry(led, value))
    /\ UNCHANGED <<term, led, leader, committed, lost>>

\* Only the leader of the newest term reaches a majority, and it counts votes
\* for entries of its own term only.
CommitEntry ==
    LET next == Len(committed) + 1 IN
    /\ leader /\ led = term
    /\ \E i \in next .. Len(rlog) : rlog[i].term = term
    /\ committed' = SubSeq(rlog, 1, next)
    /\ UNCHANGED <<term, led, leader, rlog, lost>>

\* The other leader commits an entry of its own, or one it got from this server.
CommitOther ==
    LET next == Len(committed) + 1 IN
    /\ term > led
    /\ next <= MaxLog
    /\ \/ \E value \in Value : committed' = Append(committed, Entry(term, value))
       \/ /\ Survives /\ next <= Len(rlog)
          /\ committed' = SubSeq(rlog, 1, next)
    /\ UNCHANGED <<term, led, leader, lost>>
    /\ Forget
=============================================================================
