---------------------------- MODULE StateMachine ----------------------------
(***************************************************************************)
(* The replicated state machine of anonbcast (anonbcast/statemachine.go)   *)
(* and its operations (anonbcast/op.go), as operators on a value sm.       *)
(*                                                                         *)
(*   sm.Round     the current round                                        *)
(*   sm.Rounds    the NumRoundsPersisted last rounds, round r at index     *)
(*                r % NumRoundsPersisted                                   *)
(*                                                                         *)
(* Every operation returns [updated, sm]: the boolean Apply returns in the *)
(* code and the new state.  Sequences are indexed from 1 where the code's  *)
(* slices are indexed from 0.  Messages, keys, hashes and the crypto       *)
(* object are opaque here; Nil is the null value of each of their types.   *)
(***************************************************************************)
EXTENDS Naturals, Sequences, FiniteSets

CONSTANT Nil

PreparePhase  == "PREPARE"
SubmitPhase   == "SUBMIT"
EncryptPhase  == "ENCRYPT"
ScramblePhase == "SCRAMBLE"
DecryptPhase  == "DECRYPT"
RevealPhase   == "REVEAL"
DonePhase     == "DONE"
FailedPhase   == "FAILED"
NoPhase       == ""

CurrentPhases == {PreparePhase, SubmitPhase, EncryptPhase, ScramblePhase,
                  DecryptPhase, RevealPhase}
FinalPhases   == {DonePhase, FailedPhase}
Phases        == CurrentPhases \cup FinalPhases \cup {NoPhase}

NumRoundsPersisted == 3

-----------------------------------------------------------------------------
(* Operations *)

JoinOp(id, r)  == [type |-> "join", Id |-> id, R |-> r]
StartOp(id, r, crypto) ==
    [type |-> "start", Id |-> id, R |-> r, Crypto |-> crypto]
MessageOp(id, r, msg, hash) ==
    [type |-> "message", Id |-> id, R |-> r, Message |-> msg,
     RevealKeyHash |-> hash]
EncryptedOp(id, r, msgs, prev) ==
    [type |-> "encrypted", Id |-> id, R |-> r, Messages |-> msgs, Prev |-> prev]
ScrambledOp(id, r, msgs) ==
    [type |-> "scrambled", Id |-> id, R |-> r, Messages |-> msgs]
DecryptedOp(id, r, msgs, prev) ==
    [type |-> "decrypted", Id |-> id, R |-> r, Messages |-> msgs, Prev |-> prev]
RevealOp(id, r, key) ==
    [type |-> "reveal", Id |-> id, R |-> r, RevealKey |-> key]
AbortOp(r) == [type |-> "abort", R |-> r]

-----------------------------------------------------------------------------
(* Rounds *)

EmptyRoundInfo ==
    [Phase |-> NoPhase, Crypto |-> Nil, Participants |-> << >>,
     Messages |-> << >>, Encrypted |-> << >>, Scrambled |-> << >>,
     Decrypted |-> << >>, RevealedKeys |-> << >>, RevealKeyHashes |-> << >>]

FreshRoundInfo == [EmptyRoundInfo EXCEPT !.Phase = PreparePhase]

NewStateMachine ==
    [Round  |-> 0,
     Rounds |-> [i \in 0 .. NumRoundsPersisted - 1 |->
                    IF i = 0 THEN FreshRoundInfo ELSE EmptyRoundInfo]]

\* GetRoundInfo returns an error outside HasRoundInfo.
HasRoundInfo(sm, round) ==
    /\ 0 <= round
    /\ round <= sm.Round
    /\ sm.Round < round + NumRoundsPersisted
GetRoundInfo(sm, round) == sm.Rounds[round % NumRoundsPersisted]
CurrentRoundInfo(sm) == GetRoundInfo(sm, sm.Round)

SetRoundInfo(sm, ri) ==
    [sm EXCEPT !.Rounds[sm.Round % NumRoundsPersisted] = ri]

\* Mutant: the next round is written over the slot of the round before last.
initRoundWrongSlot(sm, round) ==
    [sm EXCEPT !.Rounds[(round + 1) % NumRoundsPersisted] = FreshRoundInfo]
initRound(sm, round) ==
    [sm EXCEPT !.Rounds[round % NumRoundsPersisted] = FreshRoundInfo]

\* The end of a round: its slot is final, Round++, initRound(Round).
FinishRound(sm, ri) ==
    LET next == sm.Round + 1 IN
    initRound([SetRoundInfo(sm, ri) EXCEPT !.Round = next], next)

IsParticipant(ri, id) ==
    \E i \in DOMAIN ri.Participants : ri.Participants[i] = id

participantIndex(ri, id) ==
    CHOOSE i \in DOMAIN ri.Participants :
        /\ ri.Participants[i] = id
        /\ \A j \in DOMAIN ri.Participants : ri.Participants[j] = id => i <= j

NumTrue(flags) == Cardinality({i \in DOMAIN flags : flags[i]})
numEncrypted(ri) == NumTrue(ri.Encrypted)
numScrambled(ri) == NumTrue(ri.Scrambled)
numDecrypted(ri) == NumTrue(ri.Decrypted)

AllTrue(flags) == \A i \in DOMAIN flags : flags[i]
NoneNil(s)     == \A i \in DOMAIN s : s[i] # Nil

-----------------------------------------------------------------------------
(* Applying an operation *)

NoEffect(sm) == [updated |-> FALSE, sm |-> sm]
Updated(sm)  == [updated |-> TRUE, sm |-> sm]

join(sm, op) ==
    LET ri == CurrentRoundInfo(sm) IN
    IF ri.Phase = PreparePhase /\ ~IsParticipant(ri, op.Id)
    THEN Updated(SetRoundInfo(sm,
            [ri EXCEPT !.Participants    = Append(@, op.Id),
                       !.Messages        = Append(@, Nil),
                       !.Encrypted       = Append(@, FALSE),
                       !.Scrambled       = Append(@, FALSE),
                       !.Decrypted       = Append(@, FALSE),
                       !.RevealedKeys    = Append(@, Nil),
                       !.RevealKeyHashes = Append(@, Nil)]))
    ELSE NoEffect(sm)

\* Mutant: a start is accepted in any phase of the round.
startAnyPhase(sm, op) ==
    Updated(SetRoundInfo(sm, [CurrentRoundInfo(sm) EXCEPT !.Phase  = SubmitPhase,
                                                          !.Crypto = op.Crypto]))
start(sm, op) ==
    LET ri == CurrentRoundInfo(sm) IN
    IF ri.Phase = PreparePhase
    THEN Updated(SetRoundInfo(sm, [ri EXCEPT !.Phase  = SubmitPhase,
                                             !.Crypto = op.Crypto]))
    ELSE NoEffect(sm)

\* Mutant: a message is accepted in any phase of the round.
messageAnyPhase(sm, op) ==
    LET ri   == CurrentRoundInfo(sm)
        p    == participantIndex(ri, op.Id)
        msgs == [ri.Messages EXCEPT ![p] = op.Message]
    IN
    IF IsParticipant(ri, op.Id)
    THEN Updated(SetRoundInfo(sm,
            [ri EXCEPT !.Messages           = msgs,
                       !.RevealKeyHashes[p] = op.RevealKeyHash,
                       !.Phase = IF NoneNil(msgs) THEN EncryptPhase ELSE @]))
    ELSE NoEffect(sm)
message(sm, op) ==
    LET ri   == CurrentRoundInfo(sm)
        p    == participantIndex(ri, op.Id)
        msgs == [ri.Messages EXCEPT ![p] = op.Message]
    IN
    IF ri.Phase = SubmitPhase /\ IsParticipant(ri, op.Id)
    THEN Updated(SetRoundInfo(sm,
            [ri EXCEPT !.Messages           = msgs,
                       !.RevealKeyHashes[p] = op.RevealKeyHash,
                       !.Phase = IF NoneNil(msgs) THEN EncryptPhase ELSE @]))
    ELSE NoEffect(sm)

encrypted(sm, op) ==
    LET ri   == CurrentRoundInfo(sm)
        p    == participantIndex(ri, op.Id)
        encs == [ri.Encrypted EXCEPT ![p] = TRUE]
    IN
    IF /\ ri.Phase = EncryptPhase
       /\ IsParticipant(ri, op.Id)
       /\ numEncrypted(ri) = op.Prev
       /\ ~ri.Encrypted[p]
    THEN Updated(SetRoundInfo(sm,
            [ri EXCEPT !.Messages  = op.Messages,
                       !.Encrypted = encs,
                       !.Phase = IF NumTrue(encs) = Len(encs)
                                 THEN ScramblePhase ELSE @]))
    ELSE NoEffect(sm)

\* Mutant: participants may scramble out of turn.
scrambledOutOfTurn(sm, op) ==
    LET ri   == CurrentRoundInfo(sm)
        p    == participantIndex(ri, op.Id)
        scrs == [ri.Scrambled EXCEPT ![p] = TRUE]
    IN
    IF ri.Phase = ScramblePhase /\ IsParticipant(ri, op.Id) /\ ~ri.Scrambled[p]
    THEN Updated(SetRoundInfo(sm,
            [ri EXCEPT !.Messages  = op.Messages,
                       !.Scrambled = scrs,
                       !.Phase = IF AllTrue(scrs) THEN DecryptPhase ELSE @]))
    ELSE NoEffect(sm)
scrambled(sm, op) ==
    LET ri   == CurrentRoundInfo(sm)
        p    == participantIndex(ri, op.Id)
        scrs == [ri.Scrambled EXCEPT ![p] = TRUE]
    IN
    IF /\ ri.Phase = ScramblePhase
       /\ IsParticipant(ri, op.Id)
       /\ numScrambled(ri) = p - 1
       /\ ~ri.Scrambled[p]
    THEN Updated(SetRoundInfo(sm,
            [ri EXCEPT !.Messages  = op.Messages,
                       !.Scrambled = scrs,
                       !.Phase = IF NumTrue(scrs) = Len(scrs)
                                 THEN DecryptPhase ELSE @]))
    ELSE NoEffect(sm)

\* Mutant: the reveal phase begins one decryption early.
decryptedEarly(sm, op) ==
    LET ri   == CurrentRoundInfo(sm)
        p    == participantIndex(ri, op.Id)
        decs == [ri.Decrypted EXCEPT ![p] = TRUE]
    IN
    IF /\ ri.Phase = DecryptPhase
       /\ IsParticipant(ri, op.Id)
       /\ numDecrypted(ri) = op.Prev
       /\ ~ri.Decrypted[p]
    THEN Updated(SetRoundInfo(sm,
            [ri EXCEPT !.Messages  = op.Messages,
                       !.Decrypted = decs,
                       !.Phase = IF NumTrue(decs) + 1 >= Len(decs)
                                 THEN RevealPhase ELSE @]))
    ELSE NoEffect(sm)
decrypted(sm, op) ==
    LET ri   == CurrentRoundInfo(sm)
        p    == participantIndex(ri, op.Id)
        decs == [ri.Decrypted EXCEPT ![p] = TRUE]
    IN
    IF /\ ri.Phase = DecryptPhase
       /\ IsParticipant(ri, op.Id)
       /\ numDecrypted(ri) = op.Prev
       /\ ~ri.Decrypted[p]
    THEN Updated(SetRoundInfo(sm,
            [ri EXCEPT !.Messages  = op.Messages,
                       !.Decrypted = decs,
                       !.Phase = IF NumTrue(decs) = Len(decs)
                                 THEN RevealPhase ELSE @]))
    ELSE NoEffect(sm)

reveal(sm, op) ==
    LET ri   == CurrentRoundInfo(sm)
        keys == [ri.RevealedKeys EXCEPT ![participantIndex(ri, op.Id)] =
                    op.RevealKey]
        ri2  == [ri EXCEPT !.RevealedKeys = keys]
    IN
    IF ri.Phase = RevealPhase /\ IsParticipant(ri, op.Id)
    THEN Updated(IF NoneNil(keys)
                 THEN FinishRound(sm, [ri2 EXCEPT !.Phase = DonePhase])
                 ELSE SetRoundInfo(sm, ri2))
    ELSE NoEffect(sm)

abort(sm, op) ==
    Updated(FinishRound(sm, [CurrentRoundInfo(sm) EXCEPT !.Phase = FailedPhase]))

Apply(sm, op) ==
    IF op.R # sm.Round THEN NoEffect(sm)
    ELSE CASE op.type = "join"      -> join(sm, op)
           [] op.type = "start"     -> start(sm, op)
           [] op.type = "message"   -> message(sm, op)
           [] op.type = "encrypted" -> encrypted(sm, op)
           [] op.type = "scrambled" -> scrambled(sm, op)
           [] op.type = "decrypted" -> decrypted(sm, op)
           [] op.type = "reveal"    -> reveal(sm, op)
           [] op.type = "abort"     -> abort(sm, op)

-----------------------------------------------------------------------------
(* What readers of the state machine rely on *)

\* The fallthrough of the switch in the code: the operations of every phase
\* before the current one are spent.
SpentTypes(phase) ==
    CASE phase = RevealPhase   -> {"join", "start", "message", "encrypted",
                                   "scrambled", "decrypted"}
      [] phase = DecryptPhase  -> {"join", "start", "message", "encrypted",
                                   "scrambled"}
      [] phase = ScramblePhase -> {"join", "start", "message", "encrypted"}
      [] phase = EncryptPhase  -> {"join", "start", "message"}
      [] phase = SubmitPhase   -> {"join", "start"}
      [] OTHER                 -> {}

GuaranteedNoEffect(sm, op) ==
    \/ op.R < sm.Round
    \/ op.R = sm.Round /\ op.type \in SpentTypes(CurrentRoundInfo(sm).Phase)

phaseOrder(phase) ==
    CASE phase = PreparePhase  -> 0
      [] phase = SubmitPhase   -> 1
      [] phase = EncryptPhase  -> 2
      [] phase = ScramblePhase -> 3
      [] phase = DecryptPhase  -> 4
      [] phase = RevealPhase   -> 5
      [] phase = DonePhase     -> 6
      [] phase = FailedPhase   -> 7
      [] OTHER                 -> 0

MayPrecede(sm, sm2) ==
    \/ sm.Round < sm2.Round
    \/ /\ sm.Round = sm2.Round
       /\ phaseOrder(CurrentRoundInfo(sm).Phase)
            <= phaseOrder(CurrentRoundInfo(sm2).Phase)

-----------------------------------------------------------------------------
(* RoundInfo.checkRep, asserted before and after every Apply in debug mode *)

SameLengths(ri) ==
    LET n == Len(ri.Participants) IN
    /\ Len(ri.Messages) = n
    /\ Len(ri.Encrypted) = n
    /\ Len(ri.Scrambled) = n
    /\ Len(ri.Decrypted) = n
    /\ Len(ri.RevealedKeys) = n
    /\ Len(ri.RevealKeyHashes) = n

CryptoIffStarted(ri) ==
    /\ ri.Phase \in {NoPhase, PreparePhase, FailedPhase} \/ ri.Crypto # Nil
    /\ ri.Phase = PreparePhase => ri.Crypto = Nil

ScrambledLeftToRight(ri) ==
    \A i \in DOMAIN ri.Scrambled :
        i > 1 /\ ri.Scrambled[i] => ri.Scrambled[i - 1]

DistinctParticipants(ri) ==
    \A i, j \in DOMAIN ri.Participants :
        ri.Participants[i] = ri.Participants[j] => i = j

HashIffMessage(ri) ==
    \A i \in DOMAIN ri.Messages :
        ri.Messages[i] # Nil <=> ri.RevealKeyHashes[i] # Nil

checkRep(ri) ==
    /\ SameLengths(ri)
    /\ CryptoIffStarted(ri)
    /\ ScrambledLeftToRight(ri)
    /\ DistinctParticipants(ri)
    /\ HashIffMessage(ri)
=============================================================================
