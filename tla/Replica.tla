------------------------------ MODULE Replica ------------------------------
(***************************************************************************)
(* One server's copy of the replicated state machine under every sequence  *)
(* of committed operations: the part of Server.applier                     *)
(* (anonbcast/server.go) that calls StateMachine.Apply.                    *)
(*                                                                         *)
(* Raft decides the order.  Clients retry, crash and race, so an operation *)
(* may be committed in any round and any phase, any number of times, and   *)
(* most of the time has no effect.  The only thing assumed of the clients  *)
(* is that the message list of an operation has one entry for each         *)
(* participant of the round it was computed in.                            *)
(***************************************************************************)
EXTENDS StateMachine

CONSTANTS Client,      \* client ids
          Msg,         \* non-nil messages
          PrivateKey,  \* non-nil reveal keys
          Hash,        \* hashes of reveal keys
          Crypto,      \* non-nil crypto objects
          MaxRound     \* bound: the last round that operations are about

ASSUME ReplicaAssumption ==
    /\ MaxRound \in Nat
    /\ Nil \notin Client \cup Msg \cup PrivateKey \cup Hash \cup Crypto

VARIABLE sm

-----------------------------------------------------------------------------
(* The operations that may be committed next *)

RoundNumber == 0 .. MaxRound
Lists(s) == [1 .. Len(CurrentRoundInfo(s).Participants) -> Msg]
Counts(s) == 0 .. Len(CurrentRoundInfo(s).Participants)

JoinOps   == {JoinOp(id, r) : id \in Client, r \in RoundNumber}
StartOps  == {StartOp(id, r, c) : id \in Client, r \in RoundNumber, c \in Crypto}
MessageOps ==
    {MessageOp(id, r, m, h) :
        id \in Client, r \in RoundNumber, m \in Msg, h \in Hash}
EncryptedOps(s) ==
    {EncryptedOp(id, r, ms, n) :
        id \in Client, r \in RoundNumber, ms \in Lists(s), n \in Counts(s)}
ScrambledOps(s) ==
    {ScrambledOp(id, r, ms) : id \in Client, r \in RoundNumber, ms \in Lists(s)}
DecryptedOps(s) ==
    {DecryptedOp(id, r, ms, n) :
        id \in Client, r \in RoundNumber, ms \in Lists(s), n \in Counts(s)}
RevealOps ==
    {RevealOp(id, r, k) : id \in Client, r \in RoundNumber, k \in PrivateKey}
AbortOps  == {AbortOp(r) : r \in RoundNumber}

Ops(s) == JoinOps \cup StartOps \cup MessageOps \cup EncryptedOps(s)
          \cup ScrambledOps(s) \cup DecryptedOps(s) \cup RevealOps \cup AbortOps

-----------------------------------------------------------------------------
(* The applier's loop *)

Init == sm = NewStateMachine

\* The bound: no operation begins a round after MaxRound.
ApplyMsg(op) ==
    /\ Apply(sm, op).sm.Round <= MaxRound
    /\ sm' = Apply(sm, op).sm

ApplyJoin      == \E op \in JoinOps : ApplyMsg(op)
ApplyStart     == \E op \in StartOps : ApplyMsg(op)
ApplyMessage   == \E op \in MessageOps : ApplyMsg(op)
ApplyEncrypted == \E op \in EncryptedOps(sm) : ApplyMsg(op)
ApplyScrambled == \E op \in ScrambledOps(sm) : ApplyMsg(op)
ApplyDecrypted == \E op \in DecryptedOps(sm) : ApplyMsg(op)
ApplyReveal    == \E op \in RevealOps : ApplyMsg(op)
ApplyAbort     == \E op \in AbortOps : ApplyMsg(op)

Next == \/ ApplyJoin
        \/ ApplyStart
        \/ ApplyMessage
        \/ ApplyEncrypted
        \/ ApplyScrambled
        \/ ApplyDecrypted
        \/ ApplyReveal
        \/ ApplyAbort

Spec == Init /\ [][Next]_sm

-----------------------------------------------------------------------------
(* Invariants *)

RoundInfoType ==
    [Phase : Phases, Crypto : Crypto \cup {Nil}, Participants : Seq(Client),
     Messages : Seq(Msg \cup {Nil}), Encrypted : Seq(BOOLEAN),
     Scrambled : Seq(BOOLEAN), Decrypted : Seq(BOOLEAN),
     RevealedKeys : Seq(PrivateKey \cup {Nil}),
     RevealKeyHashes : Seq(Hash \cup {Nil})]

Slots == 0 .. NumRoundsPersisted - 1

\* The fields of the state machine have the types of statemachine.go:27-85.
TypeOK == sm \in [Round : Nat, Rounds : [Slots -> RoundInfoType]]

\* The representation invariant that StateMachine.checkRep asserts around
\* every Apply (statemachine.go:52-60, 103-137): no sequence of committed
\* operations makes the debug build panic.
CheckRep == \A i \in Slots : checkRep(sm.Rounds[i])

\* The current round is in progress, and every earlier round that is still
\* kept is done or failed: the assertion of Client.sendRoundResult
\* (client.go:141-144) and the unreachable default branches of
\* GuaranteedNoEffect, readUpdates and aborter.
PastRoundsFinal ==
    /\ CurrentRoundInfo(sm).Phase \in CurrentPhases
    /\ \A r \in 0 .. sm.Round - 1 :
          HasRoundInfo(sm, r) => GetRoundInfo(sm, r).Phase \in FinalPhases

SomeFalse(flags) == \E i \in DOMAIN flags : ~flags[i]
AllFalse(flags)  == \A i \in DOMAIN flags : ~flags[i]
AllNil(s)        == \A i \in DOMAIN s : s[i] = Nil
SomeNil(s)       == \E i \in DOMAIN s : s[i] = Nil

StageOrder(ri) ==
    /\ (\E i \in DOMAIN ri.Encrypted : ri.Encrypted[i]) => NoneNil(ri.Messages)
    /\ (\E i \in DOMAIN ri.Scrambled : ri.Scrambled[i]) => AllTrue(ri.Encrypted)
    /\ (\E i \in DOMAIN ri.Decrypted : ri.Decrypted[i]) => AllTrue(ri.Scrambled)
    /\ (\E i \in DOMAIN ri.RevealedKeys : ri.RevealedKeys[i] # Nil) =>
          AllTrue(ri.Decrypted)

\* Which stages of the round are complete in each phase.
StageWork(ri) ==
    /\ ri.Phase \in {NoPhase, PreparePhase} => AllNil(ri.Messages)
    /\ ri.Phase \in {NoPhase, PreparePhase, SubmitPhase} => AllFalse(ri.Encrypted)
    /\ ri.Phase \in {NoPhase, PreparePhase, SubmitPhase, EncryptPhase} =>
          AllFalse(ri.Scrambled)
    /\ ri.Phase \in {NoPhase, PreparePhase, SubmitPhase, EncryptPhase,
                     ScramblePhase} => AllFalse(ri.Decrypted)
    /\ ri.Phase \in {NoPhase, PreparePhase, SubmitPhase, EncryptPhase,
                     ScramblePhase, DecryptPhase} => AllNil(ri.RevealedKeys)
    /\ ri.Phase \in {EncryptPhase, ScramblePhase, DecryptPhase, RevealPhase,
                     DonePhase} => NoneNil(ri.Messages)
    /\ ri.Phase \in {ScramblePhase, DecryptPhase, RevealPhase, DonePhase} =>
          AllTrue(ri.Encrypted)
    /\ ri.Phase \in {DecryptPhase, RevealPhase, DonePhase} => AllTrue(ri.Scrambled)
    /\ ri.Phase \in {RevealPhase, DonePhase} => AllTrue(ri.Decrypted)
    /\ ri.Phase = DonePhase => NoneNil(ri.RevealedKeys)
    /\ ri.Phase = FailedPhase => StageOrder(ri)

AwaitsSomebody(ri) ==
    /\ ri.Phase = SubmitPhase /\ ri.Participants # << >> => SomeNil(ri.Messages)
    /\ ri.Phase = EncryptPhase  => SomeFalse(ri.Encrypted)
    /\ ri.Phase = ScramblePhase => SomeFalse(ri.Scrambled)
    /\ ri.Phase = DecryptPhase  => SomeFalse(ri.Decrypted)
    /\ ri.Phase = RevealPhase   => SomeNil(ri.RevealedKeys)

\* The phase of the current round is not already complete: a round never hangs
\* in a phase in which nobody has anything left to do, which would leave it to
\* the timeouts (statemachine.go:229-236, 271-273, 310-312, 349-351, 368-377).
PhaseAwaitsSomebody == AwaitsSomebody(CurrentRoundInfo(sm))

\* In every kept round, also in one that failed half way, nobody has done the
\* work of a stage before everybody has done the work of the stage before it:
\* no layer is added before all messages are in, nothing is scrambled before
\* all layers are on, nothing is decrypted before all have scrambled, and no
\* reveal key is out before everybody has decrypted.
StagesInOrder == \A s \in Slots : StageOrder(sm.Rounds[s])

(* The inductive invariant: StageWork and AwaitsSomebody make StagesInOrder *)
(* inductive.  ScrambledLeftToRight relates neighbours only; ScrambledPrefix *)
(* is what follows from it by induction, stated outright.                    *)
ScrambledPrefix(ri) ==
    \A i, j \in DOMAIN ri.Scrambled :
        j <= i /\ ri.Scrambled[i] => ri.Scrambled[j]

RoundInv(ri) ==
    /\ ri \in RoundInfoType
    /\ checkRep(ri)
    /\ ScrambledPrefix(ri)
    /\ StageWork(ri)
    /\ AwaitsSomebody(ri)

\* The inductive invariant of the replica: every kept round satisfies the
\* representation invariant of statemachine.go:103-137 and its stages are
\* complete exactly as far as its phase says.
ReplicaInv ==
    /\ TypeOK
    /\ \A i \in Slots : RoundInv(sm.Rounds[i])
    /\ PastRoundsFinal

-----------------------------------------------------------------------------
(* Action properties *)

\* GuaranteedNoEffect keeps the promise of its comment (statemachine.go:413-417):
\* an operation it reports is a no-op now and in every later state.  Servers
\* answer OK for such an operation without committing it (server.go:107-111),
\* so a wrong report loses the operation.
NoEffectForever ==
    [][sm' # sm =>
          \A op \in Ops(sm) :
              GuaranteedNoEffect(sm, op) =>
                  /\ ~Apply(sm, op).updated
                  /\ GuaranteedNoEffect(sm', op)]_sm

\* Every update may follow the one before it in the sense of MayPrecede, which
\* readUpdates asserts of consecutive updates (client.go:520).
UpdatesMoveForward == [][MayPrecede(sm, sm')]_sm

\* A finished round stays as it finished while it can be read: the results of
\* round r are read from the state machine when round r+1 is prepared, or later.
PastRoundsKept ==
    [][\A r \in 0 .. sm.Round - 1 :
          HasRoundInfo(sm, r) /\ HasRoundInfo(sm', r) =>
              GetRoundInfo(sm', r) = GetRoundInfo(sm, r)]_sm
=============================================================================
