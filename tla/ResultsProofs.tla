--------------------------- MODULE ResultsProofs ----------------------------
(***************************************************************************)
(* Proofs about Results, for any number of rounds.                         *)
(***************************************************************************)
EXTENDS Results, TLAPS

\* Only rounds that are over have results, and what the client knows of the
\* rounds is not ahead of them.
RoundsPass ==
    /\ last.Round <= round
    /\ \A n \in sending : n < round
    /\ holder # None => holder < round
    /\ \A n \in orderer.results : n < round

\* A user of a resultOrderer has read the results before applyIndex: it is
\* about to get the one of its own index.
LoopFollowsOrderer ==
    user = "ordered" =>
        /\ pc \in {"start", "play", "check", "destroy", "destroyed"}
        /\ IF pc = "check" THEN r = i /\ orderer.applyIndex = i + 1 /\ i < round
           ELSE orderer.applyIndex = i

\* The same for confessions, as far as it holds: a result that passes the
\* check is that of a round that is over.
LoopFollowsRounds ==
    user = "confessions" => /\ pc = "check" => r < round
                            /\ pc \in {"start", "press", "error", "play"} => r = 0

ResultsInv == TypeOK /\ RoundsPass /\ LoopFollowsOrderer /\ LoopFollowsRounds

-----------------------------------------------------------------------------
\* The initial states satisfy the invariant.
LEMMA ResultsInit == Init => ResultsInv
<1> SUFFICES ASSUME Init  PROVE ResultsInv
  OBVIOUS
<1> USE ResultsAssumption DEF Init
<1>1. i \in 0..MaxRound /\ i <= round /\ round \in 0..MaxRound /\ \A n \in sending : n < round
  BY DEF Users
<1>2. orderer \in [results : SUBSET (0..MaxRound), applyIndex : 0..MaxRound]
  BY <1>1
<1>3. TypeOK
  <2>1. last \in [Round : 0..MaxRound, me : BOOLEAN]
    OBVIOUS
  <2>2. me \in BOOLEAN /\ started \in BOOLEAN /\ draining \in BOOLEAN
    OBVIOUS
  <2>3. sending \subseteq 0..MaxRound /\ r \in 0..MaxRound /\ orderer.applyIndex <= round
    BY <1>1
  <2>4. user \in Users /\ holder \in 0..MaxRound \cup {None} /\ resCh \in {"open", "nil"}
    OBVIOUS
  <2>5. QED
    BY <1>1, <1>2, <2>1, <2>2, <2>3, <2>4 DEF TypeOK
<1>4. QED
  BY <1>1, <1>3 DEF ResultsInv, RoundsPass, LoopFollowsOrderer, LoopFollowsRounds

\* The rounds go on and lastUpdate follows them.
LEMMA RoundsStep ==
  ASSUME ResultsInv, Rounds  PROVE ResultsInv'
<1> USE ResultsAssumption
        DEF ResultsInv, TypeOK, RoundsPass, LoopFollowsOrderer, LoopFollowsRounds, channel, loop,
            rounds
<1>1. CASE Join \/ StartedByOther
  <2>1. me' \in BOOLEAN /\ started' \in BOOLEAN
    BY <1>1 DEF Join, StartedByOther
  <2>2. UNCHANGED <<user, round, last, sending, holder, resCh, draining, orderer, pc, i, r>>
    BY <1>1 DEF Join, StartedByOther
  <2>3. QED
    BY <2>1, <2>2
<1>2. CASE EndRound
  <2>1. /\ round' = round + 1 /\ round + 1 \in 0..MaxRound /\ round \in Nat
        /\ sending' \subseteq sending \cup {round}
        /\ UNCHANGED <<user, last, holder, resCh, draining, orderer, pc, i, r>>
    BY <1>2 DEF EndRound
  <2>2. RoundsPass'
    BY <2>1
  <2>3. TypeOK'
    <3>1. me' \in BOOLEAN /\ started' \in BOOLEAN
      BY <1>2 DEF EndRound
    <3>2. sending' \subseteq 0..MaxRound /\ i <= round' /\ orderer.applyIndex <= round'
      BY <2>1
    <3>3. QED
      BY <2>1, <3>1, <3>2
  <2>4. QED
    BY <2>1, <2>2, <2>3
<1>3. CASE Update
  BY <1>3 DEF Update
<1>4. QED
  BY <1>1, <1>2, <1>3 DEF Rounds

\* Results are sent, received, ordered or eaten.
LEMMA ChannelStep ==
  ASSUME ResultsInv, (\E n \in sending : Lock(n)) \/ Drain \/ Close \/ Order
  PROVE  ResultsInv'
<1> USE ResultsAssumption
        DEF ResultsInv, TypeOK, RoundsPass, LoopFollowsOrderer, LoopFollowsRounds, loop, rounds
<1>1. CASE \E n \in sending : Lock(n)
  BY <1>1 DEF Lock
<1>2. CASE Drain
  BY <1>2 DEF Drain, Received
<1>3. CASE Close
  BY <1>3 DEF Close
<1>4. CASE Order
  BY <1>4 DEF Order, Received, HasNext
<1>5. QED
  BY <1>1, <1>2, <1>3, <1>4

\* A main loop that reads through a resultOrderer.
LEMMA OrderedStep ==
  ASSUME ResultsInv, OrderedStart \/ OrderedResult \/ OrderedEnds
  PROVE  ResultsInv'
<1> USE ResultsAssumption
        DEF ResultsInv, TypeOK, RoundsPass, LoopFollowsOrderer, LoopFollowsRounds, channel, rounds
<1>1. CASE OrderedStart
  BY <1>1 DEF OrderedStart, Start, CanStart
<1>2. CASE OrderedResult
  BY <1>2 DEF OrderedResult, Deliver, HasNext
<1>3. CASE OrderedEnds
  BY <1>3 DEF OrderedEnds, DestroyResCh
<1>4. QED
  BY <1>1, <1>2, <1>3

\* The main loop of confessions, and the check of both.
LEMMA LoopStep ==
  ASSUME ResultsInv, Confessions \/ Check
  PROVE  ResultsInv'
<1> USE ResultsAssumption
        DEF ResultsInv, TypeOK, RoundsPass, LoopFollowsOrderer, LoopFollowsRounds, channel, rounds
<1>1. CASE Skip
  BY <1>1 DEF Skip, NextRound
<1>2. CASE Ask \/ PressError
  BY <1>2 DEF Ask, PressError, Goto
<1>3. CASE TickerEnds
  BY <1>3 DEF TickerEnds, Goto
<1>4. CASE PressStart
  BY <1>4 DEF PressStart, Start, CanStart
<1>5. CASE Error
  BY <1>5 DEF Error
<1>6. CASE Result
  BY <1>6 DEF Result, Received
<1>7. CASE Interrupt
  BY <1>7 DEF Interrupt, DestroyResCh
<1>8. CASE Check
  <2>1. CASE r = i /\ NextRound
    <3>1. i < round
      BY <1>8, <2>1 DEF Check, Users
    <3>2. QED
      BY <1>8, <2>1, <3>1 DEF Check, NextRound
  <2>2. CASE r # i /\ pc' = "fatal" /\ UNCHANGED <<i, r>>
    BY <1>8, <2>2 DEF Check, Users
  <2>3. QED
    BY <1>8, <2>1, <2>2 DEF Check
<1>9. QED
  BY <1>1, <1>2, <1>3, <1>4, <1>5, <1>6, <1>7, <1>8 DEF Confessions

\* The invariant is inductive.
LEMMA ResultsNext == ResultsInv /\ [Next]_vars => ResultsInv'
<1>1. ASSUME ResultsInv, UNCHANGED vars  PROVE ResultsInv'
  BY <1>1 DEF vars, rounds, channel, loop, ResultsInv, TypeOK, RoundsPass, LoopFollowsOrderer,
              LoopFollowsRounds
<1>2. QED
  BY <1>1, RoundsStep, ChannelStep, OrderedStep, LoopStep DEF Next

\* The result channel, its orderer and its users keep the invariant above.
THEOREM ResultsInvariance == Spec => []ResultsInv
  BY ResultsInit, ResultsNext, PTL DEF Spec

\* Neither a main loop nor an orderer ever gets ahead of the protocol.
THEOREM ResultsTypeCorrect == Spec => []TypeOK
<1>1. ResultsInv => TypeOK
  BY DEF ResultsInv
<1>2. QED
  BY <1>1, ResultsInvariance, PTL

\* For any number of rounds: a user of a resultOrderer gets the result of the
\* round it has started, in whatever order the results are sent.
THEOREM OrdererWorks == Spec => []ResultsInOrder
<1>1. ResultsInv => ResultsInOrder
  BY DEF ResultsInv, LoopFollowsOrderer, ResultsInOrder
<1>2. QED
  BY <1>1, ResultsInvariance, PTL
=============================================================================
