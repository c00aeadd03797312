--------------------------- MODULE ReplicaProofs ---------------------------
(***************************************************************************)
(* Proofs about Replica, for every set of clients and every MaxRound.      *)
(***************************************************************************)
EXTENDS Replica, FiniteSetTheorems, SequenceTheorems, TLAPS

\* The names of the phases stand for distinct strings everywhere below.
USE DEF PreparePhase, SubmitPhase, EncryptPhase, ScramblePhase, DecryptPhase,
        RevealPhase, DonePhase, FailedPhase, NoPhase

-----------------------------------------------------------------------------
(* Counting flags *)

\* numEncrypted, numScrambled and numDecrypted reach the length of their list
\* exactly when all of its flags are set.
LEMMA NumTrueAll ==
    ASSUME NEW flags \in Seq(BOOLEAN)
    PROVE  (NumTrue(flags) = Len(flags)) <=> AllTrue(flags)
<1> DEFINE T == {i \in DOMAIN flags : flags[i]}
           n == Len(flags)
<1>1. n \in Nat /\ DOMAIN flags = 1 .. n
  BY LenProperties
<1>2. IsFiniteSet(1 .. n) /\ Cardinality(1 .. n) = n
  BY <1>1, FS_Interval
<1>3. T \subseteq 1 .. n
  BY <1>1
<1>4. IsFiniteSet(T) /\ Cardinality(T) <= n /\ (Cardinality(T) = n => T = 1 .. n)
  BY <1>2, <1>3, FS_Subset
<1>5. T = 1 .. n <=> \A i \in DOMAIN flags : flags[i]
  BY <1>1
<1> QED
  BY <1>2, <1>4, <1>5 DEF NumTrue, AllTrue

\* When the flags form a prefix, flag p is not set and p - 1 flags are set,
\* the flags before p are the ones that are set: setting p keeps a prefix.
LEMMA PrefixGrows ==
    ASSUME NEW flags \in Seq(BOOLEAN), NEW p \in DOMAIN flags, ~flags[p],
           NumTrue(flags) = p - 1,
           \A i, j \in DOMAIN flags : j <= i /\ flags[i] => flags[j]
    PROVE  \A i \in DOMAIN flags : flags[i] <=> i < p
<1> DEFINE T == {i \in DOMAIN flags : flags[i]}
           n == Len(flags)
<1>1. n \in Nat /\ DOMAIN flags = 1 .. n /\ p \in 1 .. n
  BY LenProperties
<1>2. T \subseteq 1 .. (p - 1)
  <2> SUFFICES ASSUME NEW i \in DOMAIN flags, flags[i] PROVE i \in 1 .. (p - 1)
    OBVIOUS
  <2>1. ~(p <= i)
    OBVIOUS
  <2> QED
    BY <1>1, <2>1
<1>3. IsFiniteSet(1 .. (p - 1)) /\ Cardinality(1 .. (p - 1)) = p - 1
  BY <1>1, FS_Interval
<1>4. T = 1 .. (p - 1)
  BY <1>2, <1>3, FS_Subset DEF NumTrue
<1> QED
  BY <1>1, <1>4

-----------------------------------------------------------------------------
(* Lists that grow by one entry: StateMachine.join *)

LEMMA AppendEntries ==
    ASSUME NEW S, NEW s \in Seq(S), NEW e \in S
    PROVE  /\ Append(s, e) \in Seq(S)
           /\ Len(Append(s, e)) = Len(s) + 1
           /\ DOMAIN Append(s, e) = 1 .. Len(s) + 1
           /\ Append(s, e)[Len(s) + 1] = e
           /\ \A i \in DOMAIN Append(s, e) :
                 i # Len(s) + 1 => i \in DOMAIN s /\ Append(s, e)[i] = s[i]
  BY AppendProperties, LenProperties

LEMMA AppendNil ==
    ASSUME NEW S, NEW s \in Seq(S \cup {Nil}), AllNil(s)
    PROVE  Append(s, Nil) \in Seq(S \cup {Nil}) /\ AllNil(Append(s, Nil))
<1>1. Nil \in S \cup {Nil}
  OBVIOUS
<1> QED
  BY <1>1, AppendEntries DEF AllNil

LEMMA AppendFalse ==
    ASSUME NEW s \in Seq(BOOLEAN), AllFalse(s)
    PROVE  Append(s, FALSE) \in Seq(BOOLEAN) /\ AllFalse(Append(s, FALSE))
<1>1. FALSE \in BOOLEAN
  OBVIOUS
<1>2. /\ Append(s, FALSE) \in Seq(BOOLEAN)
      /\ Append(s, FALSE)[Len(s) + 1] = FALSE
      /\ \A i \in DOMAIN Append(s, FALSE) :
            i # Len(s) + 1 => i \in DOMAIN s /\ Append(s, FALSE)[i] = s[i]
  BY <1>1, AppendEntries
<1> QED
  BY <1>2, Zenon DEF AllFalse

-----------------------------------------------------------------------------
(* One operation on the current round *)

\* What an operation of the current round may return: nothing changed, the
\* current round moved forward, or the current round ended.
Forward(ri, ri2) ==
    /\ RoundInv(ri2)
    /\ ri2.Phase \in CurrentPhases
    /\ phaseOrder(ri.Phase) <= phaseOrder(ri2.Phase)
Ended(ri2) ==
    /\ RoundInv(ri2)
    /\ ri2.Phase \in FinalPhases
Outcome(r) ==
    \/ r = NoEffect(sm)
    \/ \E ri2 : Forward(CurrentRoundInfo(sm), ri2) /\ r = Updated(SetRoundInfo(sm, ri2))
    \/ \E ri2 : Ended(ri2) /\ r = Updated(FinishRound(sm, ri2))

LEMMA CurrentRound ==
    ASSUME ReplicaInv
    PROVE  /\ sm.Round % NumRoundsPersisted \in Slots
           /\ RoundInv(CurrentRoundInfo(sm))
           /\ CurrentRoundInfo(sm).Phase \in CurrentPhases
<1>1. sm.Round \in Nat
  BY DEF ReplicaInv, TypeOK
<1>2. sm.Round % NumRoundsPersisted \in Slots
  BY <1>1 DEF NumRoundsPersisted, Slots
<1> QED
  BY <1>2 DEF ReplicaInv, PastRoundsFinal, CurrentRoundInfo, GetRoundInfo

\* participantIndex returns the position of the participant.
LEMMA ParticipantIndex ==
    ASSUME NEW ri, RoundInv(ri), NEW id, IsParticipant(ri, id)
    PROVE  /\ participantIndex(ri, id) \in DOMAIN ri.Participants
           /\ ri.Participants[participantIndex(ri, id)] = id
<1>1. PICK i \in DOMAIN ri.Participants : ri.Participants[i] = id
  BY DEF IsParticipant
<1>2. \A j \in DOMAIN ri.Participants : ri.Participants[j] = id => i = j
  BY <1>1 DEF RoundInv, checkRep, DistinctParticipants
<1>3. i \in Nat
  BY LenProperties DEF RoundInv, RoundInfoType
<1>4. \A j \in DOMAIN ri.Participants : ri.Participants[j] = id => i <= j
  BY <1>2, <1>3
<1> QED
  BY <1>1, <1>4 DEF participantIndex

LEMMA JoinOutcome ==
    ASSUME ReplicaInv, NEW op \in JoinOps
    PROVE  Outcome(join(sm, op))
<1> DEFINE ri == CurrentRoundInfo(sm)
           ri2 == [ri EXCEPT !.Participants    = Append(@, op.Id),
                             !.Messages        = Append(@, Nil),
                             !.Encrypted       = Append(@, FALSE),
                             !.Scrambled       = Append(@, FALSE),
                             !.Decrypted       = Append(@, FALSE),
                             !.RevealedKeys    = Append(@, Nil),
                             !.RevealKeyHashes = Append(@, Nil)]
           n == Len(ri.Participants)
<1>1. RoundInv(ri) /\ ri \in RoundInfoType /\ op.Id \in Client
  BY CurrentRound DEF RoundInv, JoinOps, JoinOp
<1>2. ASSUME ri.Phase = PreparePhase, ~IsParticipant(ri, op.Id)
      PROVE  Forward(ri, ri2)
  <2>1. /\ ri2.Phase = PreparePhase
        /\ ri2.Crypto = ri.Crypto
        /\ ri2.Participants = Append(ri.Participants, op.Id)
        /\ ri2.Messages = Append(ri.Messages, Nil)
        /\ ri2.Encrypted = Append(ri.Encrypted, FALSE)
        /\ ri2.Scrambled = Append(ri.Scrambled, FALSE)
        /\ ri2.Decrypted = Append(ri.Decrypted, FALSE)
        /\ ri2.RevealedKeys = Append(ri.RevealedKeys, Nil)
        /\ ri2.RevealKeyHashes = Append(ri.RevealKeyHashes, Nil)
    BY <1>1, <1>2 DEF RoundInfoType
  <2> HIDE DEF ri
  <2>2. /\ ri.Participants \in Seq(Client)
        /\ ri.Messages \in Seq(Msg \cup {Nil}) /\ AllNil(ri.Messages)
        /\ ri.RevealedKeys \in Seq(PrivateKey \cup {Nil}) /\ AllNil(ri.RevealedKeys)
        /\ ri.RevealKeyHashes \in Seq(Hash \cup {Nil})
        /\ ri.Encrypted \in Seq(BOOLEAN) /\ AllFalse(ri.Encrypted)
        /\ ri.Scrambled \in Seq(BOOLEAN) /\ AllFalse(ri.Scrambled)
        /\ ri.Decrypted \in Seq(BOOLEAN) /\ AllFalse(ri.Decrypted)
    BY <1>1, <1>2 DEF RoundInv, RoundInfoType, StageWork
  <2>3. /\ ri2.Participants \in Seq(Client)
        /\ ri2.RevealKeyHashes \in Seq(Hash \cup {Nil})
    BY <1>1, <2>1, <2>2, AppendProperties
  <2>4. /\ ri2.Messages \in Seq(Msg \cup {Nil}) /\ AllNil(ri2.Messages)
        /\ ri2.RevealedKeys \in Seq(PrivateKey \cup {Nil}) /\ AllNil(ri2.RevealedKeys)
    BY <2>1, <2>2, AppendNil
  <2>5. /\ ri2.Encrypted \in Seq(BOOLEAN) /\ AllFalse(ri2.Encrypted)
        /\ ri2.Scrambled \in Seq(BOOLEAN) /\ AllFalse(ri2.Scrambled)
        /\ ri2.Decrypted \in Seq(BOOLEAN) /\ AllFalse(ri2.Decrypted)
    BY <2>1, <2>2, AppendFalse
  <2>6. ri2 \in RoundInfoType
    BY <1>1, <2>3, <2>4, <2>5 DEF RoundInfoType
  <2> HIDE DEF ri2
  <2>7. SameLengths(ri2) /\ CryptoIffStarted(ri2) /\ HashIffMessage(ri2)
    BY <1>1, <1>2, <2>1
    DEF RoundInv, RoundInfoType, checkRep, SameLengths, CryptoIffStarted, HashIffMessage
  <2>8. DistinctParticipants(ri2)
    <3>1. \A i \in DOMAIN ri.Participants : ri.Participants[i] # op.Id
      BY <1>2 DEF IsParticipant
    <3>2. \A i, j \in DOMAIN ri.Participants :
             ri.Participants[i] = ri.Participants[j] => i = j
      BY <1>1 DEF RoundInv, checkRep, DistinctParticipants
    <3>3. /\ ri2.Participants[n + 1] = op.Id
          /\ \A i \in DOMAIN ri2.Participants :
                i # n + 1 => /\ i \in DOMAIN ri.Participants
                             /\ ri2.Participants[i] = ri.Participants[i]
      <4>1. op.Id \in Client /\ ri.Participants \in Seq(Client)
        BY <1>1, <2>2
      <4>2. ri2.Participants = Append(ri.Participants, op.Id)
        BY <2>1
      <4> QED
        BY <4>1, <4>2, AppendEntries
    <3> QED
      BY <3>1, <3>2, <3>3 DEF DistinctParticipants
  <2>9. StageWork(ri2)
    BY <2>1, <2>4, <2>5 DEF StageWork
  <2>10. ScrambledLeftToRight(ri2) /\ ScrambledPrefix(ri2)
    BY <2>5 DEF AllFalse, ScrambledLeftToRight, ScrambledPrefix
  <2>11. AwaitsSomebody(ri2)
    BY <2>1 DEF AwaitsSomebody
  <2> QED
    BY <1>2, <2>1, <2>6, <2>7, <2>8, <2>9, <2>10, <2>11
    DEF Forward, RoundInv, checkRep, CurrentPhases, phaseOrder
<1> QED
  BY <1>2 DEF join, Outcome

LEMMA SetEntry ==
    ASSUME NEW S, NEW s \in Seq(S), NEW p \in DOMAIN s, NEW e \in S
    PROVE  /\ [s EXCEPT ![p] = e] \in Seq(S)
           /\ Len([s EXCEPT ![p] = e]) = Len(s)
           /\ DOMAIN [s EXCEPT ![p] = e] = DOMAIN s
           /\ [s EXCEPT ![p] = e][p] = e
           /\ \A i \in DOMAIN s : i # p => [s EXCEPT ![p] = e][i] = s[i]
  BY ExceptSeq, LenProperties

\* The lists of a round have the same indices.
LEMMA SameDomains ==
    ASSUME NEW ri, RoundInv(ri)
    PROVE  /\ DOMAIN ri.Messages = DOMAIN ri.Participants
           /\ DOMAIN ri.Encrypted = DOMAIN ri.Participants
           /\ DOMAIN ri.Scrambled = DOMAIN ri.Participants
           /\ DOMAIN ri.Decrypted = DOMAIN ri.Participants
           /\ DOMAIN ri.RevealedKeys = DOMAIN ri.Participants
           /\ DOMAIN ri.RevealKeyHashes = DOMAIN ri.Participants
  BY LenProperties DEF RoundInv, RoundInfoType, checkRep, SameLengths

\* A message list computed by a client: one non-nil message per participant.
LEMMA ListEntries ==
    ASSUME ReplicaInv, NEW ms \in Lists(sm)
    PROVE  /\ ms \in Seq(Msg \cup {Nil})
           /\ Len(ms) = Len(CurrentRoundInfo(sm).Participants)
           /\ DOMAIN ms = DOMAIN CurrentRoundInfo(sm).Participants
           /\ NoneNil(ms)
<1> DEFINE n == Len(CurrentRoundInfo(sm).Participants)
<1>1. CurrentRoundInfo(sm).Participants \in Seq(Client)
  BY CurrentRound DEF RoundInv, RoundInfoType
<1>2. n \in Nat /\ DOMAIN CurrentRoundInfo(sm).Participants = 1 .. n
  BY <1>1, LenProperties
<1>3. ms \in [1 .. n -> Msg]
  BY DEF Lists
<1>4. \A i \in 1 .. n : ms[i] # Nil
  BY <1>3, ReplicaAssumption
<1> QED
  BY <1>2, <1>3, <1>4 DEF NoneNil

LEMMA StartOutcome ==
    ASSUME ReplicaInv, NEW op \in StartOps
    PROVE  Outcome(start(sm, op))
<1> DEFINE ri == CurrentRoundInfo(sm)
           ri2 == [ri EXCEPT !.Phase  = SubmitPhase, !.Crypto = op.Crypto]
<1>1. RoundInv(ri) /\ ri \in RoundInfoType /\ op.Crypto \in Crypto
  BY CurrentRound DEF RoundInv, StartOps, StartOp
<1>2. ASSUME ri.Phase = PreparePhase
      PROVE  Forward(ri, ri2)
  <2>1. /\ ri2 \in RoundInfoType
        /\ ri2.Phase = SubmitPhase
        /\ ri2.Crypto = op.Crypto
        /\ ri2.Participants = ri.Participants
        /\ ri2.Messages = ri.Messages
        /\ ri2.Encrypted = ri.Encrypted
        /\ ri2.Scrambled = ri.Scrambled
        /\ ri2.Decrypted = ri.Decrypted
        /\ ri2.RevealedKeys = ri.RevealedKeys
        /\ ri2.RevealKeyHashes = ri.RevealKeyHashes
    BY <1>1, <1>2 DEF RoundInfoType, Phases, CurrentPhases
  <2> HIDE DEF ri, ri2
  <2>2. checkRep(ri2) /\ ScrambledPrefix(ri2)
    BY <1>1, <2>1, ReplicaAssumption
    DEF RoundInv, checkRep, SameLengths, CryptoIffStarted, ScrambledLeftToRight,
        DistinctParticipants, HashIffMessage, ScrambledPrefix
  <2>3. StageWork(ri2)
    BY <1>1, <1>2, <2>1 DEF RoundInv, StageWork
  <2>4. AwaitsSomebody(ri2)
    <3>1. ASSUME ri.Participants # << >> PROVE SomeNil(ri.Messages)
      <4>1. 1 \in DOMAIN ri.Participants
        BY <1>1, <3>1, LenProperties, EmptySeq DEF RoundInfoType
      <4>2. AllNil(ri.Messages)
        BY <1>1, <1>2 DEF RoundInv, StageWork
      <4> QED
        BY <1>1, <4>1, <4>2, SameDomains DEF AllNil, SomeNil
    <3> QED
      BY <2>1, <3>1 DEF AwaitsSomebody
  <2> QED
    BY <1>2, <2>1, <2>2, <2>3, <2>4 DEF Forward, RoundInv, CurrentPhases, phaseOrder
<1> QED
  BY <1>2 DEF start, Outcome

LEMMA MessageOutcome ==
    ASSUME ReplicaInv, NEW op \in MessageOps
    PROVE  Outcome(message(sm, op))
<1> DEFINE ri == CurrentRoundInfo(sm)
           p == participantIndex(ri, op.Id)
           msgs == [ri.Messages EXCEPT ![p] = op.Message]
           hashes == [ri.RevealKeyHashes EXCEPT ![p] = op.RevealKeyHash]
           ri2 == [ri EXCEPT !.Messages           = msgs,
                             !.RevealKeyHashes[p] = op.RevealKeyHash,
                             !.Phase = IF NoneNil(msgs) THEN EncryptPhase ELSE @]
<1>1. /\ RoundInv(ri) /\ ri \in RoundInfoType
      /\ op.Message \in Msg /\ op.RevealKeyHash \in Hash
  BY CurrentRound DEF RoundInv, MessageOps, MessageOp
<1>2. ASSUME ri.Phase = SubmitPhase, IsParticipant(ri, op.Id)
      PROVE  Forward(ri, ri2)
  <2>1. /\ ri2.Phase = IF NoneNil(msgs) THEN EncryptPhase ELSE SubmitPhase
        /\ ri2.Crypto = ri.Crypto
        /\ ri2.Participants = ri.Participants
        /\ ri2.Messages = msgs
        /\ ri2.Encrypted = ri.Encrypted
        /\ ri2.Scrambled = ri.Scrambled
        /\ ri2.Decrypted = ri.Decrypted
        /\ ri2.RevealedKeys = ri.RevealedKeys
        /\ ri2.RevealKeyHashes = hashes
    BY <1>1, <1>2 DEF RoundInfoType
  <2>2. /\ p \in DOMAIN ri.Participants /\ p \in DOMAIN ri.Messages
        /\ p \in DOMAIN ri.RevealKeyHashes /\ p \in DOMAIN ri.Encrypted
    BY <1>1, <1>2, ParticipantIndex, SameDomains
  <2>3. /\ ri.Messages \in Seq(Msg \cup {Nil}) /\ ri.RevealKeyHashes \in Seq(Hash \cup {Nil})
        /\ op.Message \in Msg \cup {Nil} /\ op.RevealKeyHash \in Hash \cup {Nil}
        /\ op.Message # Nil /\ op.RevealKeyHash # Nil
    BY <1>1, ReplicaAssumption DEF RoundInfoType
  <2> HIDE DEF ri, p
  <2>4. /\ msgs \in Seq(Msg \cup {Nil}) /\ Len(msgs) = Len(ri.Messages)
        /\ DOMAIN msgs = DOMAIN ri.Messages /\ msgs[p] = op.Message
        /\ \A i \in DOMAIN ri.Messages : i # p => msgs[i] = ri.Messages[i]
    BY <2>2, <2>3, SetEntry
  <2>5. /\ hashes \in Seq(Hash \cup {Nil}) /\ Len(hashes) = Len(ri.RevealKeyHashes)
        /\ DOMAIN hashes = DOMAIN ri.RevealKeyHashes /\ hashes[p] = op.RevealKeyHash
        /\ \A i \in DOMAIN ri.RevealKeyHashes : i # p => hashes[i] = ri.RevealKeyHashes[i]
    BY <2>2, <2>3, SetEntry
  <2> HIDE DEF msgs, hashes
  <2>6. ri2 \in RoundInfoType
    BY <1>1, <2>1, <2>4, <2>5 DEF RoundInfoType, Phases, CurrentPhases
  <2> HIDE DEF ri2
  <2>7. SameLengths(ri2) /\ CryptoIffStarted(ri2) /\ DistinctParticipants(ri2)
    BY <1>1, <1>2, <2>1, <2>4, <2>5
    DEF RoundInv, checkRep, SameLengths, CryptoIffStarted, DistinctParticipants
  <2>8. HashIffMessage(ri2)
    <3>1. /\ DOMAIN ri.Messages = DOMAIN ri.RevealKeyHashes
          /\ \A i \in DOMAIN ri.Messages :
                ri.Messages[i] # Nil <=> ri.RevealKeyHashes[i] # Nil
      BY <1>1, SameDomains DEF RoundInv, checkRep, HashIffMessage
    <3> QED
      BY <2>1, <2>3, <2>4, <2>5, <3>1 DEF HashIffMessage
  <2>9. ScrambledLeftToRight(ri2) /\ ScrambledPrefix(ri2)
    BY <1>1, <2>1 DEF RoundInv, checkRep, ScrambledLeftToRight, ScrambledPrefix
  <2>10. StageWork(ri2)
    BY <1>1, <1>2, <2>1 DEF RoundInv, StageWork
  <2>11. AwaitsSomebody(ri2)
    <3>1. AllFalse(ri.Encrypted)
      BY <1>1, <1>2 DEF RoundInv, StageWork
    <3>2. SomeFalse(ri.Encrypted)
      BY <2>2, <3>1 DEF AllFalse, SomeFalse
    <3>3. ~NoneNil(msgs) => SomeNil(msgs)
      BY DEF NoneNil, SomeNil
    <3> QED
      BY <2>1, <3>2, <3>3 DEF AwaitsSomebody
  <2> QED
    BY <1>2, <2>1, <2>6, <2>7, <2>8, <2>9, <2>10, <2>11
    DEF Forward, RoundInv, checkRep, CurrentPhases, phaseOrder
<1> QED
  BY <1>2 DEF message, Outcome

LEMMA EncryptedOutcome ==
    ASSUME ReplicaInv, NEW op \in EncryptedOps(sm)
    PROVE  Outcome(encrypted(sm, op))
<1> DEFINE ri == CurrentRoundInfo(sm)
           p == participantIndex(ri, op.Id)
           encs == [ri.Encrypted EXCEPT ![p] = TRUE]
           ri2 == [ri EXCEPT !.Messages  = op.Messages,
                             !.Encrypted = encs,
                             !.Phase = IF NumTrue(encs) = Len(encs)
                                       THEN ScramblePhase ELSE @]
<1>1. RoundInv(ri) /\ ri \in RoundInfoType /\ op.Messages \in Lists(sm)
  BY CurrentRound DEF RoundInv, EncryptedOps, EncryptedOp
<1>2. ASSUME ri.Phase = EncryptPhase, IsParticipant(ri, op.Id)
      PROVE  Forward(ri, ri2)
  <2>1. /\ ri2.Phase = IF NumTrue(encs) = Len(encs) THEN ScramblePhase ELSE EncryptPhase
        /\ ri2.Crypto = ri.Crypto
        /\ ri2.Participants = ri.Participants
        /\ ri2.Messages = op.Messages
        /\ ri2.Encrypted = encs
        /\ ri2.Scrambled = ri.Scrambled
        /\ ri2.Decrypted = ri.Decrypted
        /\ ri2.RevealedKeys = ri.RevealedKeys
        /\ ri2.RevealKeyHashes = ri.RevealKeyHashes
    BY <1>1, <1>2 DEF RoundInfoType
  <2>2. /\ p \in DOMAIN ri.Encrypted /\ p \in DOMAIN ri.Scrambled
        /\ ri.Encrypted \in Seq(BOOLEAN)
    BY <1>1, <1>2, ParticipantIndex, SameDomains DEF RoundInfoType
  <2>3. /\ op.Messages \in Seq(Msg \cup {Nil}) /\ Len(op.Messages) = Len(ri.Participants)
        /\ DOMAIN op.Messages = DOMAIN ri.Participants /\ NoneNil(op.Messages)
    BY <1>1, ListEntries
  <2> HIDE DEF ri, p
  <2>4. encs \in Seq(BOOLEAN) /\ Len(encs) = Len(ri.Encrypted)
    BY <2>2, SetEntry
  <2>5. NumTrue(encs) = Len(encs) <=> AllTrue(encs)
    BY <2>4, NumTrueAll
  <2> HIDE DEF encs
  <2>6. ri2 \in RoundInfoType
    BY <1>1, <2>1, <2>3, <2>4 DEF RoundInfoType, Phases, CurrentPhases
  <2> HIDE DEF ri2
  <2>7. NoneNil(ri.Messages) /\ AllFalse(ri.Scrambled) /\ AllFalse(ri.Decrypted)
    BY <1>1, <1>2 DEF RoundInv, StageWork
  <2>8. checkRep(ri2) /\ ScrambledPrefix(ri2)
    <3>1. SameLengths(ri2) /\ CryptoIffStarted(ri2) /\ DistinctParticipants(ri2)
      BY <1>1, <1>2, <2>1, <2>3, <2>4
      DEF RoundInv, checkRep, SameLengths, CryptoIffStarted, DistinctParticipants
    <3>2. HashIffMessage(ri2)
      BY <1>1, <2>1, <2>3, <2>7, SameDomains
      DEF RoundInv, checkRep, HashIffMessage, NoneNil
    <3>3. ScrambledLeftToRight(ri2) /\ ScrambledPrefix(ri2)
      BY <1>1, <2>1 DEF RoundInv, checkRep, ScrambledLeftToRight, ScrambledPrefix
    <3> QED
      BY <3>1, <3>2, <3>3 DEF checkRep
  <2>9. StageWork(ri2)
    BY <1>1, <1>2, <2>1, <2>3, <2>5 DEF RoundInv, StageWork
  <2>10. AwaitsSomebody(ri2)
    <3>1. SomeFalse(ri.Scrambled)
      BY <2>2, <2>7 DEF AllFalse, SomeFalse
    <3>2. ~AllTrue(encs) => SomeFalse(encs)
      BY DEF AllTrue, SomeFalse
    <3> QED
      BY <2>1, <2>5, <3>1, <3>2 DEF AwaitsSomebody
  <2> QED
    BY <1>2, <2>1, <2>6, <2>8, <2>9, <2>10
    DEF Forward, RoundInv, CurrentPhases, phaseOrder
<1> QED
  BY <1>2 DEF encrypted, Outcome

LEMMA ScrambledOutcome ==
    ASSUME ReplicaInv, NEW op \in ScrambledOps(sm)
    PROVE  Outcome(scrambled(sm, op))
<1> DEFINE ri == CurrentRoundInfo(sm)
           p == participantIndex(ri, op.Id)
           scrs == [ri.Scrambled EXCEPT ![p] = TRUE]
           ri2 == [ri EXCEPT !.Messages  = op.Messages,
                             !.Scrambled = scrs,
                             !.Phase = IF NumTrue(scrs) = Len(scrs)
                                       THEN DecryptPhase ELSE @]
<1>1. RoundInv(ri) /\ ri \in RoundInfoType /\ op.Messages \in Lists(sm)
  BY CurrentRound DEF RoundInv, ScrambledOps, ScrambledOp
<1>2. ASSUME ri.Phase = ScramblePhase, IsParticipant(ri, op.Id),
             numScrambled(ri) = p - 1, ~ri.Scrambled[p]
      PROVE  Forward(ri, ri2)
  <2>1. /\ ri2.Phase = IF NumTrue(scrs) = Len(scrs) THEN DecryptPhase ELSE ScramblePhase
        /\ ri2.Crypto = ri.Crypto
        /\ ri2.Participants = ri.Participants
        /\ ri2.Messages = op.Messages
        /\ ri2.Encrypted = ri.Encrypted
        /\ ri2.Scrambled = scrs
        /\ ri2.Decrypted = ri.Decrypted
        /\ ri2.RevealedKeys = ri.RevealedKeys
        /\ ri2.RevealKeyHashes = ri.RevealKeyHashes
    BY <1>1, <1>2 DEF RoundInfoType
  <2>2. /\ p \in DOMAIN ri.Scrambled /\ p \in DOMAIN ri.Decrypted
        /\ ri.Scrambled \in Seq(BOOLEAN)
    BY <1>1, <1>2, ParticipantIndex, SameDomains DEF RoundInfoType
  <2>3. /\ op.Messages \in Seq(Msg \cup {Nil}) /\ Len(op.Messages) = Len(ri.Participants)
        /\ DOMAIN op.Messages = DOMAIN ri.Participants /\ NoneNil(op.Messages)
    BY <1>1, ListEntries
  <2> HIDE DEF ri, p
  <2>4. /\ scrs \in Seq(BOOLEAN) /\ Len(scrs) = Len(ri.Scrambled)
        /\ DOMAIN scrs = DOMAIN ri.Scrambled /\ scrs[p] = TRUE
        /\ \A i \in DOMAIN ri.Scrambled : i # p => scrs[i] = ri.Scrambled[i]
    BY <2>2, SetEntry
  <2>5. NumTrue(scrs) = Len(scrs) <=> AllTrue(scrs)
    BY <2>4, NumTrueAll
  <2>6. \A i \in DOMAIN scrs : scrs[i] <=> i <= p
    <3>1. \A i, j \in DOMAIN ri.Scrambled : j <= i /\ ri.Scrambled[i] => ri.Scrambled[j]
      BY <1>1 DEF RoundInv, ScrambledPrefix
    <3>2. \A i \in DOMAIN ri.Scrambled : ri.Scrambled[i] <=> i < p
      BY <1>2, <2>2, <3>1, PrefixGrows DEF numScrambled
    <3>3. DOMAIN ri.Scrambled \subseteq Nat
      BY <2>2, LenProperties
    <3>4. ASSUME NEW i \in DOMAIN ri.Scrambled, i # p PROVE scrs[i] <=> i <= p
      <4>1. scrs[i] <=> i < p
        BY <2>4, <3>2, <3>4
      <4> QED
        BY <2>2, <3>3, <3>4, <4>1
    <3>5. p <= p
      BY <2>2, <3>3
    <3> QED
      BY <2>4, <3>4, <3>5
  <2> HIDE DEF scrs
  <2>7. ri2 \in RoundInfoType
    BY <1>1, <2>1, <2>3, <2>4 DEF RoundInfoType, Phases, CurrentPhases
  <2> HIDE DEF ri2
  <2>8. NoneNil(ri.Messages) /\ AllFalse(ri.Decrypted)
    BY <1>1, <1>2 DEF RoundInv, StageWork
  <2>9. checkRep(ri2) /\ ScrambledPrefix(ri2)
    <3>1. SameLengths(ri2) /\ CryptoIffStarted(ri2) /\ DistinctParticipants(ri2)
      BY <1>1, <1>2, <2>1, <2>3, <2>4
      DEF RoundInv, checkRep, SameLengths, CryptoIffStarted, DistinctParticipants
    <3>2. HashIffMessage(ri2)
      BY <1>1, <2>1, <2>3, <2>8, SameDomains
      DEF RoundInv, checkRep, HashIffMessage, NoneNil
    <3>3. DOMAIN scrs = 1 .. Len(scrs) /\ Len(scrs) \in Nat /\ p \in DOMAIN scrs
      BY <2>2, <2>4, LenProperties
    <3>4. ScrambledPrefix(ri2)
      BY <2>1, <2>6, <3>3 DEF ScrambledPrefix
    <3>5. ScrambledLeftToRight(ri2)
      <4> SUFFICES ASSUME NEW i \in DOMAIN scrs, i > 1, scrs[i] PROVE scrs[i - 1]
        BY <2>1 DEF ScrambledLeftToRight
      <4>1. i - 1 \in DOMAIN scrs /\ i - 1 <= p
        BY <2>6, <3>3
      <4> QED
        BY <2>6, <4>1
    <3> QED
      BY <3>1, <3>2, <3>4, <3>5 DEF checkRep
  <2>10. StageWork(ri2)
    BY <1>1, <1>2, <2>1, <2>3, <2>5 DEF RoundInv, StageWork
  <2>11. AwaitsSomebody(ri2)
    <3>1. SomeFalse(ri.Decrypted)
      BY <2>2, <2>8 DEF AllFalse, SomeFalse
    <3>2. ~AllTrue(scrs) => SomeFalse(scrs)
      BY DEF AllTrue, SomeFalse
    <3> QED
      BY <2>1, <2>5, <3>1, <3>2 DEF AwaitsSomebody
  <2> QED
    BY <1>2, <2>1, <2>7, <2>9, <2>10, <2>11
    DEF Forward, RoundInv, CurrentPhases, phaseOrder
<1> QED
  BY <1>2 DEF scrambled, Outcome

LEMMA DecryptedOutcome ==
    ASSUME ReplicaInv, NEW op \in DecryptedOps(sm)
    PROVE  Outcome(decrypted(sm, op))
<1> DEFINE ri == CurrentRoundInfo(sm)
           p == participantIndex(ri, op.Id)
           decs == [ri.Decrypted EXCEPT ![p] = TRUE]
           ri2 == [ri EXCEPT !.Messages  = op.Messages,
                             !.Decrypted = decs,
                             !.Phase = IF NumTrue(decs) = Len(decs)
                                       THEN RevealPhase ELSE @]
<1>1. RoundInv(ri) /\ ri \in RoundInfoType /\ op.Messages \in Lists(sm)
  BY CurrentRound DEF RoundInv, DecryptedOps, DecryptedOp
<1>2. ASSUME ri.Phase = DecryptPhase, IsParticipant(ri, op.Id)
      PROVE  Forward(ri, ri2)
  <2>1. /\ ri2.Phase = IF NumTrue(decs) = Len(decs) THEN RevealPhase ELSE DecryptPhase
        /\ ri2.Crypto = ri.Crypto
        /\ ri2.Participants = ri.Participants
        /\ ri2.Messages = op.Messages
        /\ ri2.Encrypted = ri.Encrypted
        /\ ri2.Scrambled = ri.Scrambled
        /\ ri2.Decrypted = decs
        /\ ri2.RevealedKeys = ri.RevealedKeys
        /\ ri2.RevealKeyHashes = ri.RevealKeyHashes
    BY <1>1, <1>2 DEF RoundInfoType
  <2>2. /\ p \in DOMAIN ri.Decrypted /\ p \in DOMAIN ri.RevealedKeys
        /\ ri.Decrypted \in Seq(BOOLEAN)
    BY <1>1, <1>2, ParticipantIndex, SameDomains DEF RoundInfoType
  <2>3. /\ op.Messages \in Seq(Msg \cup {Nil}) /\ Len(op.Messages) = Len(ri.Participants)
        /\ DOMAIN op.Messages = DOMAIN ri.Participants /\ NoneNil(op.Messages)
    BY <1>1, ListEntries
  <2> HIDE DEF ri, p
  <2>4. decs \in Seq(BOOLEAN) /\ Len(decs) = Len(ri.Decrypted)
    BY <2>2, SetEntry
  <2>5. NumTrue(decs) = Len(decs) <=> AllTrue(decs)
    BY <2>4, NumTrueAll
  <2> HIDE DEF decs
  <2>6. ri2 \in RoundInfoType
    BY <1>1, <2>1, <2>3, <2>4 DEF RoundInfoType, Phases, CurrentPhases
  <2> HIDE DEF ri2
  <2>7. NoneNil(ri.Messages) /\ AllNil(ri.RevealedKeys)
    BY <1>1, <1>2 DEF RoundInv, StageWork
  <2>8. checkRep(ri2) /\ ScrambledPrefix(ri2)
    <3>1. SameLengths(ri2) /\ CryptoIffStarted(ri2) /\ DistinctParticipants(ri2)
      BY <1>1, <1>2, <2>1, <2>3, <2>4
      DEF RoundInv, checkRep, SameLengths, CryptoIffStarted, DistinctParticipants
    <3>2. HashIffMessage(ri2)
      BY <1>1, <2>1, <2>3, <2>7, SameDomains
      DEF RoundInv, checkRep, HashIffMessage, NoneNil
    <3>3. ScrambledLeftToRight(ri2) /\ ScrambledPrefix(ri2)
      BY <1>1, <2>1 DEF RoundInv, checkRep, ScrambledLeftToRight, ScrambledPrefix
    <3> QED
      BY <3>1, <3>2, <3>3 DEF checkRep
  <2>9. StageWork(ri2)
    BY <1>1, <1>2, <2>1, <2>3, <2>5 DEF RoundInv, StageWork
  <2>10. AwaitsSomebody(ri2)
    <3>1. SomeNil(ri.RevealedKeys)
      BY <2>2, <2>7 DEF AllNil, SomeNil
    <3>2. ~AllTrue(decs) => SomeFalse(decs)
      BY DEF AllTrue, SomeFalse
    <3> QED
      BY <2>1, <2>5, <3>1, <3>2 DEF AwaitsSomebody
  <2> QED
    BY <1>2, <2>1, <2>6, <2>8, <2>9, <2>10
    DEF Forward, RoundInv, CurrentPhases, phaseOrder
<1> QED
  BY <1>2 DEF decrypted, Outcome

LEMMA RevealOutcome ==
    ASSUME ReplicaInv, NEW op \in RevealOps
    PROVE  Outcome(reveal(sm, op))
<1> DEFINE ri == CurrentRoundInfo(sm)
           p == participantIndex(ri, op.Id)
           keys == [ri.RevealedKeys EXCEPT ![p] = op.RevealKey]
           ri2 == [ri EXCEPT !.RevealedKeys = keys]
           ri3 == [ri2 EXCEPT !.Phase = DonePhase]
<1>1. RoundInv(ri) /\ ri \in RoundInfoType /\ op.RevealKey \in PrivateKey
  BY CurrentRound DEF RoundInv, RevealOps, RevealOp
<1>2. ASSUME ri.Phase = RevealPhase, IsParticipant(ri, op.Id)
      PROVE  IF NoneNil(keys) THEN Ended(ri3) ELSE Forward(ri, ri2)
  <2>1. /\ p \in DOMAIN ri.RevealedKeys
        /\ ri.RevealedKeys \in Seq(PrivateKey \cup {Nil})
        /\ op.RevealKey \in PrivateKey \cup {Nil}
    BY <1>1, <1>2, ParticipantIndex, SameDomains DEF RoundInfoType
  <2>2. keys \in Seq(PrivateKey \cup {Nil}) /\ Len(keys) = Len(ri.RevealedKeys)
    <3> HIDE DEF ri, p
    <3> QED
      BY <2>1, SetEntry
  <2>3. ASSUME NEW r \in {ri2, ri3}, r.Phase = DonePhase <=> NoneNil(keys)
        PROVE  RoundInv(r)
    <3>1. /\ r.Phase \in {RevealPhase, DonePhase}
          /\ r.Crypto = ri.Crypto
          /\ r.Participants = ri.Participants
          /\ r.Messages = ri.Messages
          /\ r.Encrypted = ri.Encrypted
          /\ r.Scrambled = ri.Scrambled
          /\ r.Decrypted = ri.Decrypted
          /\ r.RevealedKeys = keys
          /\ r.RevealKeyHashes = ri.RevealKeyHashes
      BY <1>1, <1>2 DEF RoundInfoType
    <3> HIDE DEF ri, keys
    <3>2. r \in RoundInfoType
      BY <1>1, <2>2 DEF RoundInfoType, Phases, CurrentPhases, FinalPhases
    <3> HIDE DEF ri2, ri3
    <3>3. checkRep(r) /\ ScrambledPrefix(r)
      BY <1>1, <1>2, <2>2, <3>1
      DEF RoundInv, checkRep, SameLengths, CryptoIffStarted, ScrambledLeftToRight,
          DistinctParticipants, HashIffMessage, ScrambledPrefix
    <3>4. StageWork(r)
      BY <1>1, <1>2, <2>3, <3>1 DEF RoundInv, StageWork
    <3>5. AwaitsSomebody(r)
      BY <2>3, <3>1 DEF AwaitsSomebody, SomeNil, NoneNil
    <3> QED
      BY <3>2, <3>3, <3>4, <3>5 DEF RoundInv
  <2>4. ri3.Phase = DonePhase /\ ri2.Phase = RevealPhase
    BY <1>1, <1>2 DEF RoundInfoType
  <2>5. NoneNil(keys) => RoundInv(ri3)
    BY <2>3, <2>4
  <2>6. ~NoneNil(keys) => RoundInv(ri2)
    BY <2>3, <2>4
  <2> QED
    BY <1>2, <2>4, <2>5, <2>6 DEF Ended, Forward, FinalPhases, CurrentPhases, phaseOrder
<1> QED
  BY <1>2 DEF reveal, Outcome

\* Every stage that was begun before the round failed began in order.
LEMMA StageOrderFollows ==
    ASSUME NEW ri, RoundInv(ri)
    PROVE  StageOrder(ri)
<1>1. ri.Phase \in Phases /\ StageWork(ri)
  BY DEF RoundInv, RoundInfoType
<1>2. ASSUME ri.Phase \in {NoPhase, PreparePhase, SubmitPhase, EncryptPhase}
      PROVE  StageOrder(ri)
  BY <1>1, <1>2 DEF StageWork, StageOrder, AllFalse, AllNil
<1>3. ASSUME ri.Phase \in {ScramblePhase, DecryptPhase, RevealPhase, DonePhase}
      PROVE  StageOrder(ri)
  BY <1>1, <1>3 DEF StageWork, StageOrder, AllFalse, AllNil
<1>4. ASSUME ri.Phase = FailedPhase
      PROVE  StageOrder(ri)
  BY <1>1, <1>4 DEF StageWork
<1> QED
  BY <1>1, <1>2, <1>3, <1>4 DEF Phases, CurrentPhases, FinalPhases

LEMMA AbortOutcome ==
    ASSUME ReplicaInv, NEW op
    PROVE  Outcome(abort(sm, op))
<1> DEFINE ri == CurrentRoundInfo(sm)
           ri2 == [ri EXCEPT !.Phase = FailedPhase]
<1>1. RoundInv(ri) /\ ri \in RoundInfoType /\ StageOrder(ri)
  BY CurrentRound, StageOrderFollows DEF RoundInv
<1>2. /\ ri2 \in RoundInfoType
      /\ ri2.Phase = FailedPhase
      /\ ri2.Crypto = ri.Crypto
      /\ ri2.Participants = ri.Participants
      /\ ri2.Messages = ri.Messages
      /\ ri2.Encrypted = ri.Encrypted
      /\ ri2.Scrambled = ri.Scrambled
      /\ ri2.Decrypted = ri.Decrypted
      /\ ri2.RevealedKeys = ri.RevealedKeys
      /\ ri2.RevealKeyHashes = ri.RevealKeyHashes
  BY <1>1 DEF RoundInfoType, Phases, FinalPhases
<1> HIDE DEF ri, ri2
<1>3. checkRep(ri2) /\ ScrambledPrefix(ri2)
  BY <1>1, <1>2
  DEF RoundInv, checkRep, SameLengths, CryptoIffStarted, ScrambledLeftToRight,
      DistinctParticipants, HashIffMessage, ScrambledPrefix
<1>4. StageWork(ri2) /\ AwaitsSomebody(ri2)
  BY <1>1, <1>2 DEF StageWork, StageOrder, AwaitsSomebody
<1>5. Ended(ri2)
  BY <1>2, <1>3, <1>4 DEF Ended, RoundInv, FinalPhases
<1> QED
  BY <1>5 DEF abort, Outcome, ri, ri2

LEMMA ApplyOutcome ==
    ASSUME ReplicaInv, NEW op \in Ops(sm)
    PROVE  Outcome(Apply(sm, op))
<1> SUFFICES ASSUME op.R = sm.Round PROVE Outcome(Apply(sm, op))
  BY DEF Apply, Outcome
<1>1. CASE op \in JoinOps
  <2>1. op.type = "join"
    BY <1>1 DEF JoinOps, JoinOp
  <2> QED
    BY <1>1, <2>1, JoinOutcome DEF Apply
<1>2. CASE op \in StartOps
  <2>1. op.type = "start"
    BY <1>2 DEF StartOps, StartOp
  <2> QED
    BY <1>2, <2>1, StartOutcome DEF Apply
<1>3. CASE op \in MessageOps
  <2>1. op.type = "message"
    BY <1>3 DEF MessageOps, MessageOp
  <2> QED
    BY <1>3, <2>1, MessageOutcome DEF Apply
<1>4. CASE op \in EncryptedOps(sm)
  <2>1. op.type = "encrypted"
    BY <1>4 DEF EncryptedOps, EncryptedOp
  <2> QED
    BY <1>4, <2>1, EncryptedOutcome DEF Apply
<1>5. CASE op \in ScrambledOps(sm)
  <2>1. op.type = "scrambled"
    BY <1>5 DEF ScrambledOps, ScrambledOp
  <2> QED
    BY <1>5, <2>1, ScrambledOutcome DEF Apply
<1>6. CASE op \in DecryptedOps(sm)
  <2>1. op.type = "decrypted"
    BY <1>6 DEF DecryptedOps, DecryptedOp
  <2> QED
    BY <1>6, <2>1, DecryptedOutcome DEF Apply
<1>7. CASE op \in RevealOps
  <2>1. op.type = "reveal"
    BY <1>7 DEF RevealOps, RevealOp
  <2> QED
    BY <1>7, <2>1, RevealOutcome DEF Apply
<1>8. CASE op \in AbortOps
  <2>1. op.type = "abort"
    BY <1>8 DEF AbortOps, AbortOp
  <2> QED
    BY <1>8, <2>1, AbortOutcome DEF Apply
<1> QED
  BY <1>1, <1>2, <1>3, <1>4, <1>5, <1>6, <1>7, <1>8 DEF Ops

-----------------------------------------------------------------------------
(* From the current round to the state machine *)

\* A later round is initialised: nobody has joined it.
LEMMA FreshRound == RoundInv(FreshRoundInfo) /\ RoundInv(EmptyRoundInfo)
<1> SUFFICES ASSUME NEW ri \in {FreshRoundInfo, EmptyRoundInfo} PROVE RoundInv(ri)
  OBVIOUS
<1>1. /\ ri.Phase \in {NoPhase, PreparePhase} /\ ri.Crypto = Nil
      /\ ri.Participants = << >> /\ ri.Messages = << >> /\ ri.Encrypted = << >>
      /\ ri.Scrambled = << >> /\ ri.Decrypted = << >> /\ ri.RevealedKeys = << >>
      /\ ri.RevealKeyHashes = << >>
  <2>1. CASE ri = EmptyRoundInfo
    BY <2>1 DEF EmptyRoundInfo
  <2>2. CASE ri = FreshRoundInfo
    BY <2>2 DEF FreshRoundInfo, EmptyRoundInfo
  <2> QED
    BY <2>1, <2>2
<1>2. ri \in RoundInfoType
  <2>1. EmptyRoundInfo \in RoundInfoType
    BY EmptySeq DEF EmptyRoundInfo, RoundInfoType, Phases
  <2>2. FreshRoundInfo \in RoundInfoType
    BY <2>1 DEF FreshRoundInfo, RoundInfoType, Phases, CurrentPhases
  <2> QED
    BY <2>1, <2>2
<1>3. Len(<< >>) = 0 /\ DOMAIN << >> = {}
  OBVIOUS
<1> HIDE DEF FreshRoundInfo, EmptyRoundInfo
<1>4. checkRep(ri) /\ ScrambledPrefix(ri)
  BY <1>1, <1>3
  DEF checkRep, SameLengths, CryptoIffStarted, ScrambledLeftToRight,
      DistinctParticipants, HashIffMessage, ScrambledPrefix
<1>5. StageWork(ri) /\ AwaitsSomebody(ri)
  BY <1>1, <1>3 DEF StageWork, AwaitsSomebody, AllFalse, AllNil
<1> QED
  BY <1>2, <1>4, <1>5 DEF RoundInv

\* The rounds that are kept together have different slots.
LEMMA SlotsDiffer ==
    ASSUME NEW a \in Nat, NEW b \in Nat, a < b, b < a + NumRoundsPersisted
    PROVE  a % NumRoundsPersisted # b % NumRoundsPersisted
  BY DEF NumRoundsPersisted

LEMMA SlotIndex ==
    ASSUME NEW a \in Nat
    PROVE  a % NumRoundsPersisted \in Slots
  BY DEF NumRoundsPersisted, Slots

\* The rounds before the current one are as they were when they ended.
Kept == \A r \in 0 .. sm.Round - 1 :
           HasRoundInfo(sm, r) /\ HasRoundInfo(sm', r) =>
               GetRoundInfo(sm', r) = GetRoundInfo(sm, r)

\* Changing the current round only.
LEMMA StepForward ==
    ASSUME ReplicaInv, NEW ri2, Forward(CurrentRoundInfo(sm), ri2),
           sm' = SetRoundInfo(sm, ri2)
    PROVE  /\ ReplicaInv' /\ MayPrecede(sm, sm') /\ Kept
           /\ sm'.Round = sm.Round /\ CurrentRoundInfo(sm)' = ri2
<1> DEFINE k == sm.Round % NumRoundsPersisted
<1>1. /\ sm \in [Round : Nat, Rounds : [Slots -> RoundInfoType]]
      /\ k \in Slots /\ sm.Round \in Nat
  BY SlotIndex DEF ReplicaInv, TypeOK
<1>2. ri2 \in RoundInfoType /\ RoundInv(ri2) /\ ri2.Phase \in CurrentPhases
  BY DEF Forward, RoundInv
<1>3. /\ sm'.Round = sm.Round
      /\ sm'.Rounds = [sm.Rounds EXCEPT ![k] = ri2]
      /\ sm' \in [Round : Nat, Rounds : [Slots -> RoundInfoType]]
  BY <1>1, <1>2 DEF SetRoundInfo
<1>4. /\ sm'.Rounds[k] = ri2
      /\ \A i \in Slots : i # k => sm'.Rounds[i] = sm.Rounds[i]
  BY <1>1, <1>3
<1>5. CurrentRoundInfo(sm)' = ri2
  BY <1>3, <1>4 DEF CurrentRoundInfo, GetRoundInfo
<1>6. \A i \in Slots : RoundInv(sm'.Rounds[i])
  BY <1>2, <1>4 DEF ReplicaInv
<1>7. ASSUME NEW r \in 0 .. sm.Round - 1, HasRoundInfo(sm, r)
      PROVE  GetRoundInfo(sm', r) = GetRoundInfo(sm, r)
  <2>1. r \in Nat /\ r < sm.Round /\ sm.Round < r + NumRoundsPersisted
    BY <1>1, <1>7 DEF HasRoundInfo
  <2>2. r % NumRoundsPersisted # k /\ r % NumRoundsPersisted \in Slots
    BY <1>1, <2>1, SlotsDiffer, SlotIndex
  <2> QED
    BY <1>4, <2>2 DEF GetRoundInfo
<1>8. PastRoundsFinal'
  <2>1. \A r \in 0 .. sm'.Round - 1 :
           HasRoundInfo(sm', r) => GetRoundInfo(sm', r).Phase \in FinalPhases
    BY <1>3, <1>7 DEF ReplicaInv, PastRoundsFinal, HasRoundInfo
  <2> QED
    BY <1>2, <1>5, <2>1 DEF PastRoundsFinal
<1>9. MayPrecede(sm, sm')
  BY <1>3, <1>5 DEF MayPrecede, Forward
<1> QED
  BY <1>3, <1>5, <1>6, <1>7, <1>8, <1>9 DEF ReplicaInv, TypeOK, Kept

\* Ending the current round and initialising the next.
LEMMA StepFinish ==
    ASSUME ReplicaInv, NEW ri2, Ended(ri2), sm' = FinishRound(sm, ri2)
    PROVE  /\ ReplicaInv' /\ MayPrecede(sm, sm') /\ Kept
           /\ sm'.Round = sm.Round + 1
<1> DEFINE next == sm.Round + 1
           k == sm.Round % NumRoundsPersisted
           l == next % NumRoundsPersisted
<1>1. /\ sm \in [Round : Nat, Rounds : [Slots -> RoundInfoType]]
      /\ k \in Slots /\ l \in Slots /\ sm.Round \in Nat /\ next \in Nat
  BY SlotIndex DEF ReplicaInv, TypeOK
<1>2. /\ ri2 \in RoundInfoType /\ RoundInv(ri2) /\ ri2.Phase \in FinalPhases
      /\ FreshRoundInfo \in RoundInfoType /\ RoundInv(FreshRoundInfo)
  BY FreshRound DEF Ended, RoundInv
<1>3. k # l
  BY <1>1, SlotsDiffer DEF NumRoundsPersisted
<1>4. /\ sm'.Round = next
      /\ sm'.Rounds = [[sm.Rounds EXCEPT ![k] = ri2] EXCEPT ![l] = FreshRoundInfo]
      /\ sm' \in [Round : Nat, Rounds : [Slots -> RoundInfoType]]
  BY <1>1, <1>2 DEF FinishRound, SetRoundInfo, initRound
<1>5. /\ sm'.Rounds[l] = FreshRoundInfo
      /\ sm'.Rounds[k] = ri2
      /\ \A i \in Slots : i # k /\ i # l => sm'.Rounds[i] = sm.Rounds[i]
  BY <1>1, <1>3, <1>4
<1>6. \A i \in Slots : RoundInv(sm'.Rounds[i])
  BY <1>2, <1>5 DEF ReplicaInv
<1>7. ASSUME NEW r \in 0 .. sm.Round - 1, HasRoundInfo(sm', r)
      PROVE  GetRoundInfo(sm', r) = GetRoundInfo(sm, r) /\ HasRoundInfo(sm, r)
  <2>1. r \in Nat /\ r < sm.Round /\ r < next /\ next < r + NumRoundsPersisted
        /\ sm.Round < r + NumRoundsPersisted
    BY <1>1, <1>4, <1>7 DEF HasRoundInfo, NumRoundsPersisted
  <2>2. /\ r % NumRoundsPersisted # k /\ r % NumRoundsPersisted # l
        /\ r % NumRoundsPersisted \in Slots
    BY <1>1, <2>1, SlotsDiffer, SlotIndex
  <2> QED
    BY <1>1, <1>5, <2>1, <2>2 DEF GetRoundInfo, HasRoundInfo
<1>8. PastRoundsFinal'
  <2>1. ASSUME NEW r \in 0 .. sm'.Round - 1, HasRoundInfo(sm', r)
        PROVE  GetRoundInfo(sm', r).Phase \in FinalPhases
    <3>1. CASE r = sm.Round
      BY <1>2, <1>5, <3>1 DEF GetRoundInfo
    <3>2. CASE r # sm.Round
      <4>1. r \in 0 .. sm.Round - 1
        BY <1>1, <1>4, <2>1, <3>2
      <4> QED
        BY <1>7, <2>1, <4>1 DEF ReplicaInv, PastRoundsFinal
    <3> QED
      BY <3>1, <3>2
  <2>2. CurrentRoundInfo(sm)' = FreshRoundInfo
    BY <1>4, <1>5 DEF CurrentRoundInfo, GetRoundInfo
  <2>3. FreshRoundInfo.Phase \in CurrentPhases
    BY DEF FreshRoundInfo, EmptyRoundInfo, CurrentPhases
  <2> QED
    BY <2>1, <2>2, <2>3 DEF PastRoundsFinal
<1>9. MayPrecede(sm, sm')
  BY <1>1, <1>4 DEF MayPrecede
<1> QED
  BY <1>4, <1>6, <1>7, <1>8, <1>9 DEF ReplicaInv, TypeOK, Kept

LEMMA StepSame ==
    ASSUME ReplicaInv, sm' = sm
    PROVE  ReplicaInv' /\ MayPrecede(sm, sm') /\ Kept
<1>1. ReplicaInv'
  BY DEF ReplicaInv, TypeOK, PastRoundsFinal, CurrentRoundInfo, GetRoundInfo, HasRoundInfo
<1>2. phaseOrder(CurrentRoundInfo(sm).Phase) \in Nat
  BY CurrentRound DEF phaseOrder, CurrentPhases
<1> QED
  BY <1>1, <1>2 DEF MayPrecede, Kept

\* A step of the applier applies some operation.
LEMMA NextApplies ==
    ASSUME Next
    PROVE  \E op \in Ops(sm) : sm' = Apply(sm, op).sm
  BY DEF Next, ApplyMsg, Ops, ApplyJoin, ApplyStart, ApplyMessage, ApplyEncrypted,
     ApplyScrambled, ApplyDecrypted, ApplyReveal, ApplyAbort

LEMMA NextStep ==
    ASSUME ReplicaInv, [Next]_sm
    PROVE  ReplicaInv' /\ MayPrecede(sm, sm') /\ Kept
<1>1. CASE sm' = sm
  BY <1>1, StepSame
<1>2. CASE Next
  <2>1. PICK op \in Ops(sm) : sm' = Apply(sm, op).sm
    BY <1>2, NextApplies
  <2>2. Outcome(Apply(sm, op))
    BY ApplyOutcome
  <2>3. CASE Apply(sm, op) = NoEffect(sm)
    BY <2>1, <2>3, StepSame DEF NoEffect
  <2>4. CASE \E ri2 : /\ Forward(CurrentRoundInfo(sm), ri2)
                      /\ Apply(sm, op) = Updated(SetRoundInfo(sm, ri2))
    BY <2>1, <2>4, StepForward DEF Updated
  <2>5. CASE \E ri2 : Ended(ri2) /\ Apply(sm, op) = Updated(FinishRound(sm, ri2))
    BY <2>1, <2>5, StepFinish DEF Updated
  <2> QED
    BY <2>2, <2>3, <2>4, <2>5 DEF Outcome
<1> QED
  BY <1>1, <1>2

LEMMA InitInv == ASSUME Init PROVE ReplicaInv
<1>1. sm.Round = 0 /\ sm.Rounds[0] = FreshRoundInfo
      /\ \A i \in Slots : sm.Rounds[i] \in {FreshRoundInfo, EmptyRoundInfo}
  BY DEF Init, NewStateMachine, Slots, NumRoundsPersisted
<1>2. TypeOK
  BY FreshRound DEF Init, NewStateMachine, Slots, NumRoundsPersisted, TypeOK, RoundInv
<1>3. CurrentRoundInfo(sm).Phase \in CurrentPhases
  <2>1. 0 % NumRoundsPersisted = 0
    BY DEF NumRoundsPersisted
  <2>2. FreshRoundInfo.Phase = PreparePhase
    BY DEF FreshRoundInfo, EmptyRoundInfo
  <2> QED
    BY <1>1, <2>1, <2>2 DEF CurrentRoundInfo, GetRoundInfo, CurrentPhases
<1> QED
  BY <1>1, <1>2, <1>3, FreshRound DEF ReplicaInv, PastRoundsFinal

-----------------------------------------------------------------------------
(* The theorems *)

\* The inductive invariant holds in every reachable state of a replica.
THEOREM ReplicaInvariance == Spec => []ReplicaInv
<1>1. Init => ReplicaInv
  BY InitInv
<1>2. ReplicaInv /\ [Next]_sm => ReplicaInv'
  BY NextStep
<1> QED
  BY <1>1, <1>2, PTL DEF Spec

\* The fields of the state machine keep their types.
THEOREM TypeCorrect == Spec => []TypeOK
<1>1. ReplicaInv => TypeOK
  BY DEF ReplicaInv
<1> QED
  BY <1>1, ReplicaInvariance, PTL

\* No sequence of committed operations violates the assertions of checkRep.
THEOREM CheckRepHolds == Spec => []CheckRep
<1>1. ReplicaInv => CheckRep
  BY DEF ReplicaInv, CheckRep, RoundInv
<1> QED
  BY <1>1, ReplicaInvariance, PTL

\* The current round is in progress, the earlier rounds that are kept are over.
THEOREM PastRoundsAreFinal == Spec => []PastRoundsFinal
<1>1. ReplicaInv => PastRoundsFinal
  BY DEF ReplicaInv
<1> QED
  BY <1>1, ReplicaInvariance, PTL

\* No stage of a round begins before the stage before it is complete.
THEOREM StagesAreInOrder == Spec => []StagesInOrder
<1>1. ReplicaInv => StagesInOrder
  BY StageOrderFollows DEF ReplicaInv, StagesInOrder
<1> QED
  BY <1>1, ReplicaInvariance, PTL

\* A round never sits in a phase whose work is complete.
THEOREM PhaseAlwaysAwaits == Spec => []PhaseAwaitsSomebody
<1>1. ReplicaInv => PhaseAwaitsSomebody
  BY CurrentRound DEF PhaseAwaitsSomebody, RoundInv
<1> QED
  BY <1>1, ReplicaInvariance, PTL

\* Consecutive updates satisfy the assertion of readUpdates.
THEOREM UpdatesAreForward == Spec => UpdatesMoveForward
<1>1. ReplicaInv /\ [Next]_sm => [MayPrecede(sm, sm')]_sm
  BY NextStep
<1> QED
  BY <1>1, ReplicaInvariance, PTL DEF Spec, UpdatesMoveForward

\* A finished round does not change while it can still be read.
THEOREM PastRoundsAreKept == Spec => PastRoundsKept
<1>1. ReplicaInv /\ [Next]_sm => [Kept]_sm
  BY NextStep
<1> QED
  BY <1>1, ReplicaInvariance, PTL DEF Spec, PastRoundsKept, Kept

LEMMA SpentGrows ==
    ASSUME NEW a \in CurrentPhases, NEW b \in CurrentPhases,
           phaseOrder(a) <= phaseOrder(b)
    PROVE  SpentTypes(a) \subseteq SpentTypes(b)
  BY DEF CurrentPhases, phaseOrder, SpentTypes

LEMMA OpRound ==
    ASSUME NEW op \in Ops(sm)
    PROVE  op.R \in Nat
  BY ReplicaAssumption
  DEF Ops, RoundNumber, JoinOps, JoinOp, StartOps, StartOp, MessageOps, MessageOp,
      EncryptedOps, EncryptedOp, ScrambledOps, ScrambledOp, DecryptedOps, DecryptedOp,
      RevealOps, RevealOp, AbortOps, AbortOp

LEMMA SpentIsNoEffect ==
    ASSUME ReplicaInv, NEW op \in Ops(sm), GuaranteedNoEffect(sm, op)
    PROVE  Apply(sm, op) = NoEffect(sm)
<1>1. sm.Round \in Nat /\ CurrentRoundInfo(sm).Phase \in CurrentPhases
  BY CurrentRound DEF ReplicaInv, TypeOK
<1>2. op.R \in Nat
  BY OpRound
<1>3. CASE op.R < sm.Round
  BY <1>1, <1>2, <1>3 DEF Apply
<1>4. CASE op.R = sm.Round /\ op.type \in SpentTypes(CurrentRoundInfo(sm).Phase)
  <2>1. CASE op.type = "join"
    BY <1>1, <1>4, <2>1 DEF Apply, join, SpentTypes, CurrentPhases
  <2>2. CASE op.type = "start"
    BY <1>1, <1>4, <2>2 DEF Apply, start, SpentTypes, CurrentPhases
  <2>3. CASE op.type = "message"
    BY <1>1, <1>4, <2>3 DEF Apply, message, SpentTypes, CurrentPhases
  <2>4. CASE op.type = "encrypted"
    BY <1>1, <1>4, <2>4 DEF Apply, encrypted, SpentTypes, CurrentPhases
  <2>5. CASE op.type = "scrambled"
    BY <1>1, <1>4, <2>5 DEF Apply, scrambled, SpentTypes, CurrentPhases
  <2>6. CASE op.type = "decrypted"
    BY <1>1, <1>4, <2>6 DEF Apply, decrypted, SpentTypes, CurrentPhases
  <2>7. op.type \in {"join", "start", "message", "encrypted", "scrambled", "decrypted"}
    BY <1>1, <1>4 DEF SpentTypes, CurrentPhases
  <2> QED
    BY <2>1, <2>2, <2>3, <2>4, <2>5, <2>6, <2>7
<1> QED
  BY <1>3, <1>4 DEF GuaranteedNoEffect

LEMMA SpentStaysSpent ==
    ASSUME ReplicaInv, ReplicaInv', MayPrecede(sm, sm'), NEW op, op.R \in Nat,
           GuaranteedNoEffect(sm, op)
    PROVE  GuaranteedNoEffect(sm', op)
<1>1. /\ sm.Round \in Nat /\ CurrentRoundInfo(sm).Phase \in CurrentPhases
      /\ sm'.Round \in Nat /\ CurrentRoundInfo(sm').Phase \in CurrentPhases
  BY DEF ReplicaInv, TypeOK, PastRoundsFinal
<1>2. CASE sm.Round < sm'.Round
  BY <1>1, <1>2 DEF GuaranteedNoEffect
<1>3. CASE /\ sm.Round = sm'.Round
           /\ phaseOrder(CurrentRoundInfo(sm).Phase)
                <= phaseOrder(CurrentRoundInfo(sm').Phase)
  BY <1>1, <1>3, SpentGrows DEF GuaranteedNoEffect
<1> QED
  BY <1>2, <1>3 DEF MayPrecede

\* What GuaranteedNoEffect reports is a no-op now and in every later state.
THEOREM NoEffectIsForever == Spec => NoEffectForever
<1>1. ASSUME ReplicaInv, [Next]_sm, NEW op \in Ops(sm), GuaranteedNoEffect(sm, op)
      PROVE  ~Apply(sm, op).updated /\ GuaranteedNoEffect(sm', op)
  <2>1. op.R \in Nat
    BY OpRound
  <2>2. Apply(sm, op) = NoEffect(sm)
    BY <1>1, SpentIsNoEffect
  <2>3. GuaranteedNoEffect(sm', op)
    BY <1>1, <2>1, NextStep, SpentStaysSpent
  <2> QED
    BY <2>2, <2>3 DEF NoEffect
<1>2. ReplicaInv /\ [Next]_sm =>
        [sm' # sm =>
           \A op \in Ops(sm) :
              GuaranteedNoEffect(sm, op) =>
                  /\ ~Apply(sm, op).updated
                  /\ GuaranteedNoEffect(sm', op)]_sm
  BY <1>1
<1> QED
  BY <1>2, ReplicaInvariance, PTL DEF Spec, NoEffectForever
=============================================================================
