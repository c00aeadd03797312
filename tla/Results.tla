------------------------------ MODULE Results -------------------------------
(***************************************************************************)
(* The result channel of a client (CreateResCh, DestroyResCh and the sends *)
(* of sendRoundResult, anonbcast/client.go) and its two kinds of users:    *)
(*                                                                         *)
(*  "ordered"      starts one round after the other and reads the results  *)
(*                 through a resultOrderer (localconfessions/confessions.go *)
(*                 and oneRoundWithExpectedConfiguration of config.go)     *)
(*  "confessions"  the main loop of confessions/confessions.go, which      *)
(*                 reads the channel itself                                *)
(*                                                                         *)
(* The protocol is reduced to its rounds: others may join, start and abort *)
(* them at any time.  A result is the number of its round.  What a user    *)
(* types, and that a Message that waits for input may get it instead, is   *)
(* an input at any time.                                                   *)
(***************************************************************************)
EXTENDS Integers

CONSTANTS MaxRound,  \* bound: the last round, which does not end
          None       \* no goroutine holds resChMu

ASSUME ResultsAssumption == MaxRound \in Nat \ {0} /\ None \notin Nat

Users == {"ordered", "confessions"}

VARIABLES user,      \* which of Users it is
          round,     \* the round that the protocol is in,
          me,        \* whether the client participates in it,
          started,   \* and whether it has been started
          last,      \* lastUpdate: the round and me, as of some update
          sending,   \* rounds whose sendRoundResult wants to send
          holder,    \* the round whose sendRoundResult sends, with resChMu held
          resCh,     \* "open", or "nil" when it has been destroyed
          draining,  \* the goroutine of DestroyResCh reads
          orderer,   \* the resultOrderer: the results it has, and applyIndex
          pc, i, r   \* the main loop: where it is, its index and the result

rounds  == <<round, me, started>>
channel == <<sending, holder, resCh, draining>>
loop    == <<pc, i, r>>
vars    == <<user, rounds, last, channel, orderer, loop>>

\* The user has called CreateResCh.  The harness does so in a later round,
\* when the results of earlier ones may still be on their way; confessions
\* begins with round zero whatever the round is.
Init ==
    /\ user \in Users
    /\ round \in 0..1 /\ me = FALSE /\ started = FALSE
    /\ last = [Round |-> 0, me |-> FALSE]
    /\ sending \in SUBSET {n \in {0} : n < round}
    /\ holder = None /\ resCh = "open" /\ draining = FALSE
    /\ i = IF user = "ordered" THEN round ELSE 0
    /\ orderer = [results |-> {}, applyIndex |-> i]
    /\ pc = "start"
    /\ r = 0

-----------------------------------------------------------------------------
(* The rounds (AnonBroadcast and Timeouts) *)

Join ==
    /\ ~me /\ ~started
    /\ me' = TRUE
    /\ UNCHANGED <<user, round, started, last, channel, orderer, loop>>

StartedByOther ==
    /\ ~started
    /\ started' = TRUE
    /\ UNCHANGED <<user, round, me, last, channel, orderer, loop>>

\* The round is done, or aborted, which may happen before it is started.  Its
\* result goes to the participants only.
EndRound ==
    /\ round < MaxRound
    /\ round' = round + 1
    /\ me' = FALSE /\ started' = FALSE
    /\ sending' = IF me THEN sending \cup {round} ELSE sending
    /\ UNCHANGED <<user, last, holder, resCh, draining, orderer, loop>>

\* A goroutine sets lastUpdate.
Update ==
    /\ last' = [Round |-> round, me |-> me]
    /\ last' # last
    /\ UNCHANGED <<user, rounds, channel, orderer, loop>>

-----------------------------------------------------------------------------
(* The result channel                                                      *)

\* As sendRoundResult would be if it did not wait for the mutex.
LockOrSkip(n) ==
    /\ n \in sending
    /\ sending' = sending \ {n}
    /\ holder' = IF holder = None /\ resCh = "open" THEN n ELSE holder
    /\ UNCHANGED <<user, rounds, last, resCh, draining, orderer, loop>>

\* sendRoundResult locks resChMu, and sends if there is a channel.
Lock(n) ==
    /\ n \in sending
    /\ holder = None
    /\ sending' = sending \ {n}
    /\ holder' = IF resCh = "open" THEN n ELSE None
    /\ UNCHANGED <<user, rounds, last, resCh, draining, orderer, loop>>

\* The unbuffered send meets a receive, and resChMu is unlocked.
Received ==
    /\ holder # None
    /\ holder' = None
    /\ UNCHANGED <<sending, resCh, draining>>

\* The goroutine of DestroyResCh eats what is sent until the channel is closed.
Drain ==
    /\ draining /\ resCh = "open"
    /\ Received
    /\ UNCHANGED <<user, rounds, last, orderer, loop>>

\* As DestroyResCh would be if it did not read from the channel.
DestroyUnread ==
    /\ pc' = "destroy"
    /\ UNCHANGED <<user, rounds, last, channel, orderer, i, r>>

\* DestroyResCh, deferred by the user's function, which may return or fail.
DestroyResCh ==
    /\ pc' = "destroy"
    /\ draining' = TRUE
    /\ UNCHANGED <<user, rounds, last, sending, holder, resCh, orderer, i, r>>

\* It gets resChMu.
Close ==
    /\ pc = "destroy"
    /\ holder = None
    /\ pc' = "destroyed"
    /\ resCh' = "nil"
    /\ UNCHANGED <<user, rounds, last, sending, holder, draining, orderer, i, r>>

-----------------------------------------------------------------------------
(* resultOrderer *)

HasNext == orderer.applyIndex \in orderer.results

\* r := <-unorderedResults, unless it has something to send.
Order ==
    /\ user = "ordered" /\ resCh = "open"
    /\ ~HasNext
    /\ Received
    /\ orderer' = [orderer EXCEPT !.results = @ \cup {holder}]
    /\ UNCHANGED <<user, rounds, last, loop>>

\* As resultOrderer would be if it passed on what it has, in any order.
DeliverAny ==
    \E n \in orderer.results :
        /\ r' = n
        /\ orderer' = [orderer EXCEPT !.results = @ \ {n}]

\* orderedResults <- results[applyIndex]
Deliver ==
    /\ HasNext
    /\ r' = orderer.applyIndex
    /\ orderer' = [orderer EXCEPT !.applyIndex = @ + 1]

-----------------------------------------------------------------------------
(* The main loops                                                          *)

Goto(label) == pc' = label /\ UNCHANGED <<user, rounds, last, channel, orderer, i, r>>

NextRound == pc' = "start" /\ i' = i + 1 /\ r' = 0

\* Client.Start: the client has to know that it participates in round i.
CanStart == last.Round = i /\ last.me

Start ==
    /\ CanStart
    /\ pc' = "play"
    /\ started' = (started \/ round = i)
    /\ UNCHANGED <<user, round, me, last, channel, orderer, i, r>>

\* "ordered": calls Start until it succeeds,
OrderedStart == user = "ordered" /\ pc = "start" /\ Start

\* waits for the result
OrderedResult ==
    /\ user = "ordered" /\ pc = "play"
    /\ Deliver
    /\ pc' = "check"
    /\ UNCHANGED <<user, rounds, last, channel, i>>

\* and, after some rounds, is done.
OrderedEnds == user = "ordered" /\ pc = "start" /\ DestroyResCh

\* confessions: rounds that are over are skipped,
Skip ==
    /\ user = "confessions" /\ pc = "start"
    /\ last.Round > i
    /\ NextRound
    /\ UNCHANGED <<user, rounds, last, channel, orderer>>

\* the user is asked once the client participates
Ask ==
    /\ user = "confessions" /\ pc = "start"
    /\ last.Round <= i /\ last.me
    /\ Goto("press")

\* and presses enter: the round is started,
PressStart == user = "confessions" /\ pc = "press" /\ Start

\* or cannot be,
PressError ==
    /\ user = "confessions" /\ pc = "press"
    /\ ~CanStart
    /\ Goto("error")

\* and is tried again, unless it is over by now.
Error ==
    /\ pc = "error"
    /\ pc' = "start"
    /\ i' = IF last.Round > i THEN i + 1 ELSE i
    /\ UNCHANGED <<user, rounds, last, channel, orderer, r>>

\* r = <-results, also while the user is asked.
Result ==
    /\ user = "confessions" /\ pc \in {"press", "play"} /\ resCh = "open"
    /\ Received
    /\ pc' = "check"
    /\ r' = holder
    /\ UNCHANGED <<user, rounds, last, orderer, i>>

\* The ticker finds that the round is over; r is still its zero value.
TickerEnds ==
    /\ user = "confessions" /\ pc = "play"
    /\ last.Round > i
    /\ Goto("check")

\* Any of the selects gets a signal.
Interrupt ==
    /\ user = "confessions"
    /\ \/ pc = "start" /\ last.Round <= i /\ ~last.me
       \/ pc \in {"press", "play"}
    /\ DestroyResCh

\* if r.Round != i { log.Fatalf(...) }
Check ==
    /\ pc = "check"
    /\ \/ r = i /\ NextRound
       \/ r # i /\ pc' = "fatal" /\ UNCHANGED <<i, r>>
    /\ UNCHANGED <<user, rounds, last, channel, orderer>>

-----------------------------------------------------------------------------
Rounds == Join \/ StartedByOther \/ EndRound \/ Update

Confessions ==
    \/ Skip \/ Ask \/ PressStart \/ PressError \/ Error
    \/ Result \/ TickerEnds \/ Interrupt

\* log.Fatalf ends the program.
Next ==
    /\ pc # "fatal"
    /\ \/ Rounds
       \/ \E n \in sending : Lock(n)
       \/ Drain \/ Close \/ Order
       \/ OrderedStart \/ OrderedResult \/ OrderedEnds \/ Confessions \/ Check

\* A round that has been started ends, done or aborted by the aborters, and
\* goroutines that can run do; sync.Mutex starves nobody.
Running(A) == pc # "fatal" /\ A

Fairness ==
    /\ WF_vars(Running(started /\ EndRound))
    /\ WF_vars(Running(Update))
    /\ \A n \in 0..MaxRound : SF_vars(Running(Lock(n)))
    /\ WF_vars(Drain) /\ SF_vars(Close) /\ WF_vars(Running(Order))
    /\ WF_vars(OrderedResult) /\ WF_vars(TickerEnds) /\ WF_vars(Check)

Spec == Init /\ [][Next]_vars /\ Fairness

-----------------------------------------------------------------------------
\* Types; neither the main loop nor the orderer is ever ahead of the round that
\* the protocol is in (confessions/confessions.go:131, config.go:89-105).
TypeOK ==
    /\ user \in Users
    /\ round \in 0..MaxRound /\ me \in BOOLEAN /\ started \in BOOLEAN
    /\ last \in [Round : 0..MaxRound, me : BOOLEAN]
    /\ sending \subseteq 0..MaxRound
    /\ holder \in 0..MaxRound \cup {None}
    /\ resCh \in {"open", "nil"} /\ draining \in BOOLEAN
    /\ orderer \in [results : SUBSET (0..MaxRound), applyIndex : 0..MaxRound]
    /\ orderer.applyIndex <= round
    /\ i \in 0..MaxRound /\ i <= round /\ r \in 0..MaxRound
    /\ pc \in {"start", "press", "error", "play", "check", "destroy", "destroyed", "fatal"}

\* The result a user gets from a resultOrderer is that of the round it started,
\* though the goroutines of several rounds may send in any order, and results
\* of rounds before CreateResCh may come late: the Fatalf of
\* localconfessions/confessions.go:115 and config.go:573 is not reached.
ResultsInOrder == user = "ordered" => pc # "fatal"

\* DestroyResCh returns (client.go:858-869): a sendRoundResult that holds
\* resChMu, and with it the send that nobody reads any more, is let go.
DestroyReturns == pc = "destroy" ~> pc = "destroyed"

\* A user whose Start succeeded does not wait for its result for ever, however
\* many other results come first, unless they stop waiting or the program
\* fails (localconfessions/confessions.go:113, confessions/confessions.go:190).
WaitingEnds == \A n \in 0..(MaxRound - 1) : pc = "play" /\ i = n ~> ~(pc = "play" /\ i = n)
=============================================================================
