---------------------------- MODULE AnonBroadcast ----------------------------
(***************************************************************************)
(* The whole protocol: clients that follow the replicated state machine    *)
(* (readUpdates and its helpers, anonbcast/client.go), the operations they *)
(* hand to Raft, and the state machine itself.                             *)
(*                                                                         *)
(* Raft is external.  An operation handed to it may be committed at any    *)
(* later time, in any order with the others, never, or, because clients    *)
(* retry what they got no answer for, any number of times.  Servers apply  *)
(* at their own pace, so a client reads the updates late, but all of them  *)
(* and in order.                                                           *)
(*                                                                         *)
(* The elimination queue and submitOps appear by what OpOffer promises of  *)
(* them: the newest operation added is the one handed to Raft.             *)
(***************************************************************************)
EXTENDS EliminationQueue, Cipher

CONSTANTS Client,
          MessageSize,  \* what ClientConfig.MessageSize may be for each client
          Late,         \* the clients that attach to a server later
          NumRounds,    \* bound: the rounds before this one are played
          MaxConfigs,   \* bound: configuration updates that are read
          MaxLag,       \* bound: updates a client is behind when a copy is committed
          Faults        \* subset of {"timeout", "crash", "kill", "silence"}

ASSUME AnonBroadcastAssumption ==
    /\ MessageSize \subseteq [Client -> Nat]
    /\ Late \subseteq Client
    /\ NumRounds \in Nat
    /\ MaxConfigs \in Nat
    /\ MaxLag \in Nat
    /\ Nil \notin Client
    /\ Faults \subseteq {"timeout", "crash", "kill", "silence"}

VARIABLES sm,        \* the state machine after every committed operation
          proposed,  \* operations in Raft's hands that may still have effect
          updCh,     \* updCh[c]: updates on their way to client c
          status,    \* status[c]: "new", "up", "killing" or "dead"
          active,    \* active[c], leaving[c]: the fields of Client
          leaving,
          configs,   \* how many configuration updates have been read
          local,     \* local[c]: the local variables of readUpdates, and Config
          seen,      \* seen[c]: the values lastUpdate may have
          adding,    \* adding[c]: operations goroutines are about to add
          newest,    \* newest[c]: the newest operation in pending
          results    \* results[c]: the results sent to the user

network == <<sm, proposed>>
member  == <<status, active, leaving, configs>>
queue   == <<adding, newest>>
vars    == <<sm, proposed, updCh, status, active, leaving, configs, local,
             seen, adding, newest, results>>

InitLocal(messageSize) ==
    [MessageSize |-> messageSize, lastResChSend |-> -1, lastMessageRound |-> -1, lastKeyGen |-> -1,
     lastScrambledRound |-> -1, lastNumberOfMessageWhenScrambled |-> 0,
     lastRevealKeyHashesRound |-> -1, lastRevealKeyHashes |-> << >>,
     lastMessagesBeforeReveal |-> << >>]

\* What Start, Kill, aborter and readUpdates look at in lastUpdate.
View(c, s) ==
    LET ri == CurrentRoundInfo(s) IN
    [Round |-> s.Round, me |-> IsParticipant(ri, c),
     started |-> ri.Phase # PreparePhase]

Init ==
    /\ sm = NewStateMachine
    /\ proposed = {}
    /\ updCh = [c \in Client |-> IF c \in Late THEN << >> ELSE <<NewStateMachine>>]
    /\ status = [c \in Client |-> IF c \in Late THEN "new" ELSE "up"]
    /\ active = [c \in Client |-> TRUE]
    /\ leaving = [c \in Client |-> FALSE]
    /\ configs = 0
    /\ local \in {[c \in Client |-> InitLocal(size[c])] : size \in MessageSize}
    /\ seen = [c \in Client |-> {View(c, NewStateMachine)}]
    /\ adding = [c \in Client |-> {}]
    /\ newest = [c \in Client |-> AbortOp(-1)]
    /\ results = [c \in Client |-> << >>]

-----------------------------------------------------------------------------
(* Servers *)

\* The long-running goroutines run until Kill returns.
Alive(c) == status[c] \in {"up", "killing"}

Useful(s, ops) == {op \in ops : ~GuaranteedNoEffect(s, op)}

\* NewClient: GetUpdCh sends the current state machine right away.
NewClient(c) ==
    /\ status[c] = "new"
    /\ status' = [status EXCEPT ![c] = "up"]
    /\ updCh' = [updCh EXCEPT ![c] = <<sm>>]
    /\ UNCHANGED <<network, active, leaving, configs, local, seen, queue, results>>

\* The SubmitOp RPC of the newest pending operation.  One that is guaranteed to
\* have no effect may go through and changes nothing.
SubmitOp(c) ==
    /\ ~GuaranteedNoEffect(sm, newest[c])
    /\ newest[c] \notin proposed
    /\ proposed' = proposed \cup {newest[c]}
    /\ UNCHANGED <<sm, updCh, member, local, seen, queue, results>>

\* Raft commits op and the appliers apply it.  Copies of a message or of a
\* reveal key write what is there, and each sends an update.
Commit(op) ==
    /\ op \in proposed
    /\ op.R < NumRounds
    /\ LET applied == Apply(sm, op) IN
       /\ applied.updated
       /\ sm' = applied.sm
    /\ sm' # sm \/ \A c \in Client : Len(updCh[c]) < MaxLag
    /\ proposed' = Useful(sm', proposed)
    /\ updCh' = [c \in Client |->
                    IF Alive(c) THEN Append(updCh[c], sm') ELSE updCh[c]]
    /\ UNCHANGED <<member, local, seen, queue, results>>

-----------------------------------------------------------------------------
(* Goroutines that add to the queue *)

\* An operation that is not newer than newest is eliminated whenever its
\* goroutine runs, because newest only moves forward.
Running(ops, newer) == {op \in ops : IsNewer(op, newer)}

Spawn(c, ops) ==
    adding' = [adding EXCEPT ![c] = Running(@ \cup ops, newest[c])]

AddNow(c, op) ==
    /\ IsNewer(op, newest[c])
    /\ newest' = [newest EXCEPT ![c] = op]
    /\ adding' = [adding EXCEPT ![c] = Running(@, op)]

Add(c) ==
    /\ \E op \in adding[c] : AddNow(c, op)
    /\ UNCHANGED <<network, updCh, member, local, seen, results>>

-----------------------------------------------------------------------------
(* The helpers of readUpdates: the operation each adds, if any *)

prepare(c, r, me) == IF me THEN {} ELSE {JoinOp(c, r)}

\* Mutant: a bad prime is ignored.
ignoreRound(r) == {}
abortRound(r) == {AbortOp(r)}

Key(c, use) == GenKey(c, use, local[c].lastKeyGen)

submit(c, r, ri, me, key, hashed, body) ==
    IF ri.Messages[me] # Nil THEN {}
    ELSE {MessageOp(c, r, Encrypt(key, PrepareMsg(messageWithHeader(c, r, body))),
                    Hash(hashed))}

encrypt(c, r, ri, me) ==
    IF ri.Encrypted[me] THEN {}
    ELSE {EncryptedOp(c, r,
            [i \in DOMAIN ri.Messages |->
                IF i = me THEN ri.Messages[i]
                ELSE Encrypt(Key(c, "encrypt"), ri.Messages[i])],
            numEncrypted(ri))}

\* Mutant: an entry of the list may be copied over another.
ShufflesWithCopies(s) ==
    {[i \in DOMAIN s |-> s[p[i]]] : p \in [DOMAIN s -> DOMAIN s]}
\* All outcomes of rand.Shuffle.
Shuffles(s) ==
    {[i \in DOMAIN s |-> s[p[i]]] :
        p \in {q \in [DOMAIN s -> DOMAIN s] :
                  \A i, j \in DOMAIN s : q[i] = q[j] => i = j}}

scramble(c, r, ri, me, shuffled) ==
    IF ri.Scrambled[me] THEN {}
    ELSE {ScrambledOp(c, r,
            [i \in DOMAIN shuffled |->
                Encrypt(Key(c, "reveal"), Encrypt(Key(c, "scramble"), shuffled[i]))])}

decrypt(c, r, ri, me) ==
    IF ri.Decrypted[me] THEN {}
    ELSE {DecryptedOp(c, r,
            [i \in DOMAIN ri.Messages |->
                Decrypt(Key(c, "encrypt"), Decrypt(Key(c, "scramble"), ri.Messages[i]))],
            numDecrypted(ri))}

revealOps(c, r, ri, me) ==
    IF ri.RevealedKeys[me] # Nil THEN {} ELSE {RevealOp(c, r, Key(c, "reveal"))}

-----------------------------------------------------------------------------
(* sendRoundResult *)

Open(ri, m) == FoldLeft(LAMBDA x, key : Decrypt(key, x), m, ri.RevealedKeys)

Result(r, error) ==
    [Round |-> r, Succeeded |-> FALSE, Messages |-> {}, MaliciousError |-> error]

RoundResult(l, r, ri) ==
    LET opened == [i \in DOMAIN ri.Messages |-> Open(ri, ri.Messages[i])]
        spoken == {i \in DOMAIN opened : opened[i].plain.body}
    IN
    IF ri.Phase = FailedPhase
    THEN Result(r, IF l.lastRevealKeyHashesRound = r THEN "revealed" ELSE Nil)
    ELSE IF Len(ri.Messages) # l.lastNumberOfMessageWhenScrambled
    THEN Result(r, "number of messages")
    ELSE IF ri.Messages # l.lastMessagesBeforeReveal
    THEN Result(r, "messages changed")
    ELSE IF \E i \in DOMAIN ri.RevealedKeys :
                ~HashEquals(ri.RevealedKeys[i], l.lastRevealKeyHashes[i])
    THEN Result(r, "reveal key")
    ELSE IF \E i \in DOMAIN opened : ~IsPlain(opened[i])
    THEN Result(r, "header")
    ELSE IF \E i, j \in spoken : i # j /\ opened[i].plain = opened[j].plain
    THEN Result(r, "duplicate")
    ELSE [Round |-> r, Succeeded |-> TRUE, MaliciousError |-> Nil,
          Messages |-> {opened[i].plain : i \in spoken}]

sendRoundResult(c, s) ==
    LET r  == s.Round - 1
        ri == GetRoundInfo(s, r)
    IN results' = [results EXCEPT ![c] =
                      IF IsParticipant(ri, c)
                      THEN Append(@, RoundResult(local[c], r, ri)) ELSE @]

-----------------------------------------------------------------------------
(* readUpdates: one action for each phase of the update that is read *)

Update(c)  == Head(updCh[c])
UpdateR(c) == Update(c).Round
UpdateRi(c) == CurrentRoundInfo(Update(c))
InRound(c) == active[c] /\ IsParticipant(UpdateRi(c), c)
Me(c)      == participantIndex(UpdateRi(c), c)

Read(c, phase) ==
    /\ Alive(c)
    /\ updCh[c] # << >>
    /\ UpdateRi(c).Phase = phase
    /\ updCh' = [updCh EXCEPT ![c] = Tail(@)]
    /\ seen' = [seen EXCEPT ![c] = @ \cup {View(c, Update(c))}]
    /\ UNCHANGED <<network, member, newest>>

\* Mutant: the result is sent with every update of the PREPARE phase.
SendsResultAgain(c) == UpdateR(c) > 0
\* Mutant: rounds of others are not counted.
SendsOwnResult(c) ==
    /\ UpdateR(c) - 1 > local[c].lastResChSend
    /\ IsParticipant(GetRoundInfo(Update(c), UpdateR(c) - 1), c)
\* Mutant: a client that is not in the configuration keeps its results.
SendsResultIfActive(c) == UpdateR(c) - 1 > local[c].lastResChSend /\ active[c]
SendsResult(c) == UpdateR(c) - 1 > local[c].lastResChSend

\* Mutant: only the first update of a new round is a reason to join.
JoinsAfterResult(c) == active[c] /\ ~leaving[c] /\ SendsResult(c)
Joins(c) == active[c] /\ ~leaving[c]

ReadPrepare(c) ==
    /\ Read(c, PreparePhase)
    /\ IF SendsResult(c)
       THEN /\ sendRoundResult(c, Update(c))
            /\ local' = [local EXCEPT ![c].lastResChSend = UpdateR(c) - 1]
       ELSE UNCHANGED <<results, local>>
    /\ Spawn(c, IF Joins(c)
                THEN prepare(c, UpdateR(c), IsParticipant(UpdateRi(c), c))
                ELSE {})

\* Mutant: the keys of the first round are kept for good.
GeneratesKeysOnce(c) == local[c].lastKeyGen = -1
GeneratesKeys(c) == UpdateR(c) > local[c].lastKeyGen

\* The prime is verified and the keys are generated once per round, and the
\* user is asked for a message once per round.
ReadSubmit(c) ==
    LET r == UpdateR(c) IN
    /\ Read(c, SubmitPhase)
    /\ UNCHANGED results
    /\ \/ /\ ~InRound(c)
          /\ UNCHANGED <<local, adding>>
       \/ /\ InRound(c)
          /\ GeneratesKeys(c) /\ ~Verify(UpdateRi(c).Crypto, local[c].MessageSize)
          /\ Spawn(c, abortRound(r))
          /\ UNCHANGED local
       \/ /\ InRound(c)
          /\ ~GeneratesKeys(c) \/ Verify(UpdateRi(c).Crypto, local[c].MessageSize)
          /\ local' = [local EXCEPT ![c].lastKeyGen = IF GeneratesKeys(c) THEN r ELSE @,
                                    ![c].lastMessageRound = IF r > @ THEN r ELSE @]
          /\ \E body \in IF "silence" \in Faults THEN BOOLEAN ELSE {TRUE} :
                Spawn(c, IF r > local[c].lastMessageRound
                         THEN submit(c, r, UpdateRi(c), Me(c),
                                     GenKey(c, "encrypt", local'[c].lastKeyGen),
                                     GenKey(c, "reveal", local'[c].lastKeyGen), body)
                         ELSE {})

ReadEncrypt(c) ==
    /\ Read(c, EncryptPhase)
    /\ Spawn(c, IF InRound(c)
                THEN encrypt(c, UpdateR(c), UpdateRi(c), Me(c)) ELSE {})
    /\ UNCHANGED <<local, results>>

\* We only scramble once, in the order of the participants.
MyTurn(c) ==
    /\ UpdateR(c) > local[c].lastScrambledRound
    /\ Me(c) - 1 = numScrambled(UpdateRi(c))

\* Mutant: the flags are counted and not the messages.
NumberWhenScrambledFlags(ri) == numScrambled(ri)
NumberWhenScrambled(ri) == Len(ri.Messages)

ReadScramble(c) ==
    /\ Read(c, ScramblePhase)
    /\ UNCHANGED results
    /\ IF InRound(c) /\ MyTurn(c)
       THEN /\ local' = [local EXCEPT
                            ![c].lastScrambledRound = UpdateR(c),
                            ![c].lastNumberOfMessageWhenScrambled =
                                NumberWhenScrambled(UpdateRi(c))]
            /\ \E shuffled \in Shuffles(UpdateRi(c).Messages) :
                  Spawn(c, scramble(c, UpdateR(c), UpdateRi(c), Me(c), shuffled))
       ELSE UNCHANGED <<local, adding>>

ReadDecrypt(c) ==
    /\ Read(c, DecryptPhase)
    /\ Spawn(c, IF InRound(c)
                THEN decrypt(c, UpdateR(c), UpdateRi(c), Me(c)) ELSE {})
    /\ UNCHANGED <<local, results>>

\* Mutant: the hashes are recorded when the first key is out.
RecordsHashesLate(c) ==
    /\ UpdateR(c) > local[c].lastRevealKeyHashesRound
    /\ \E i \in DOMAIN UpdateRi(c).RevealedKeys : UpdateRi(c).RevealedKeys[i] # Nil
\* Mutant: the hashes of the first round are kept for good.
RecordsHashesOnce(c) == local[c].lastRevealKeyHashesRound = -1
RecordsHashes(c) == UpdateR(c) > local[c].lastRevealKeyHashesRound

ReadReveal(c) ==
    /\ Read(c, RevealPhase)
    /\ Spawn(c, IF InRound(c)
                THEN revealOps(c, UpdateR(c), UpdateRi(c), Me(c)) ELSE {})
    /\ local' = IF InRound(c) /\ RecordsHashes(c)
                THEN [local EXCEPT
                        ![c].lastRevealKeyHashes = UpdateRi(c).RevealKeyHashes,
                        ![c].lastMessagesBeforeReveal = UpdateRi(c).Messages,
                        ![c].lastRevealKeyHashesRound = UpdateR(c)]
                ELSE local
    /\ UNCHANGED results

\* A configuration update: the client joins the round it last heard of.
ReadConfiguration(c) ==
    /\ Alive(c)
    /\ configs < MaxConfigs
    /\ configs' = configs + 1
    /\ \E inConfiguration \in BOOLEAN, last \in seen[c] :
          /\ active' = [active EXCEPT ![c] = inConfiguration]
          /\ leaving' = [leaving EXCEPT ![c] = @ /\ inConfiguration]
          /\ Spawn(c, IF inConfiguration /\ ~leaving[c]
                      THEN prepare(c, last.Round, last.me) ELSE {})
    /\ UNCHANGED <<network, updCh, status, local, seen, newest, results>>

-----------------------------------------------------------------------------
(* The user, the timeouts and the end of a client *)

\* Start(round): only for the round lastUpdate shows, and only as participant.
\* A start the queue would eliminate changes nothing.
Start(c) ==
    /\ Alive(c)
    /\ \E last \in seen[c] :
          /\ last.me
          /\ last.Round < NumRounds
          /\ LET op == StartOp(c, last.Round, newMasseyOmuraCrypto(local[c].MessageSize)) IN
             /\ IsNewer(op, newest[c])
             /\ Spawn(c, {op})
    /\ UNCHANGED <<network, updCh, member, local, seen, newest, results>>

\* Mutant: only participants abort.
TimesOutInOwnRound(last) == last.started /\ last.me
TimesOut(last) == last.started

\* aborter: a timer ran out in any phase but PREPARE, whoever participates.
Timeout(c) ==
    /\ "timeout" \in Faults
    /\ Alive(c)
    /\ \E last \in seen[c] : TimesOut(last) /\ AddNow(c, AbortOp(last.Round))
    /\ UNCHANGED <<network, updCh, member, local, seen, results>>

\* Kill: a participant submits an abort, once, and goes on with or without an
\* answer.  The other goroutines keep running.
Kill(c) ==
    /\ "kill" \in Faults
    /\ status[c] = "up"
    /\ status' = [status EXCEPT ![c] = "killing"]
    /\ proposed' \in {proposed} \cup
                     {proposed \cup Useful(sm, {AbortOp(last.Round)}) :
                         last \in {view \in seen[c] : view.me}}
    /\ UNCHANGED <<sm, updCh, active, leaving, configs, local, seen, queue, results>>

\* BecomeInactive, which Kill calls next.
BecomeInactive(c) ==
    /\ status[c] = "killing"
    /\ ~leaving[c]
    /\ leaving' = [leaving EXCEPT ![c] = TRUE]
    /\ UNCHANGED <<network, updCh, status, active, configs, local, seen, queue, results>>

\* The leader has removed the server, and there is no update to say so.
removeSelf(c) ==
    /\ status[c] = "killing"
    /\ leaving[c] /\ active[c]
    /\ active' = [active EXCEPT ![c] = FALSE]
    /\ UNCHANGED <<network, updCh, status, leaving, configs, local, seen, queue, results>>

\* The rest of Kill once the client is inactive, or a crash.  What goroutines
\* were about to add, and the operation being submitted, may still get through.
Die(c) ==
    /\ Alive(c)
    /\ (status[c] = "killing" /\ leaving[c] /\ ~active[c]) \/ "crash" \in Faults
    /\ status' = [status EXCEPT ![c] = "dead"]
    /\ updCh' = [updCh EXCEPT ![c] = << >>]
    /\ UNCHANGED <<network, active, leaving, configs, local, seen, queue, results>>

Next ==
    \/ \E op \in proposed : Commit(op)
    \/ \E c \in Client :
          \/ NewClient(c)
          \/ SubmitOp(c)
          \/ Add(c)
          \/ ReadPrepare(c)
          \/ ReadSubmit(c)
          \/ ReadEncrypt(c)
          \/ ReadScramble(c)
          \/ ReadDecrypt(c)
          \/ ReadReveal(c)
          \/ ReadConfiguration(c)
          \/ Start(c)
          \/ Timeout(c)
          \/ Kill(c)
          \/ BecomeInactive(c)
          \/ removeSelf(c)
          \/ Die(c)

ReadUpdate(c) ==
    \/ ReadPrepare(c) \/ ReadSubmit(c) \/ ReadEncrypt(c)
    \/ ReadScramble(c) \/ ReadDecrypt(c) \/ ReadReveal(c)

CommitNewest(c) == newest[c] \in proposed /\ Commit(newest[c])

(***************************************************************************)
(* The goroutines of a client run, a pending operation reaches a leader,   *)
(* and Raft commits what keeps being submitted.  Where there are timeouts  *)
(* a timer that runs does run out.  Users need not start anything.         *)
(***************************************************************************)
Fairness ==
    \A c \in Client : /\ WF_vars(ReadUpdate(c))
                      /\ WF_vars(Add(c))
                      /\ WF_vars(SubmitOp(c))
                      /\ WF_vars(CommitNewest(c))
                      /\ WF_vars(Timeout(c))

Spec == Init /\ [][Next]_vars /\ Fairness

-----------------------------------------------------------------------------
(* Safety *)

KeptRounds == {r \in 0 .. sm.Round : HasRoundInfo(sm, r)}

\* How often the keys of participant p have been applied to a message of
\* author a, as the flags of round ri tell it.
Flagged(ri, p, a, use) ==
    LET on == CASE use = "encrypt" ->
                     ~ri.Decrypted[p] /\ (ri.Encrypted[p] \/ ri.Participants[p] = a)
                [] use = "scramble" -> ri.Scrambled[p] /\ ~ri.Decrypted[p]
                [] use = "reveal" -> ri.Scrambled[p]
    IN IF on THEN 1 ELSE 0

\* In every phase of every round each message carries exactly the layers that
\* the flags of the round say it should: no retry, duplicate or race of two
\* test-and-set operations puts a layer on twice or loses one, and no key of
\* another round is used (client.go:398-472, statemachine.go:249-354).
LayersMatchFlags ==
    \A r \in KeptRounds :
        LET ri == GetRoundInfo(sm, r) IN
        \A i \in DOMAIN ri.Messages :
            LET m == ri.Messages[i] IN
            m # Nil =>
              /\ \A k \in DOMAIN m.layers :
                    k.round = r /\ IsParticipant(ri, k.owner)
              /\ \A p \in DOMAIN ri.Participants,
                    use \in {"encrypt", "scramble", "reveal"} :
                    Layer(m, GenKey(ri.Participants[p], use, r)) =
                        Flagged(ri, p, m.plain.author, use)

\* Every participant's message is in the round exactly once, and when the
\* round is done the revealed keys open all of them: nobody's message is lost,
\* duplicated or unreadable, whatever the order of the commits.
BroadcastIsComplete ==
    \A r \in KeptRounds :
        LET ri == GetRoundInfo(sm, r) IN
        /\ NoneNil(ri.Messages) =>
              {ri.Messages[i].plain.author : i \in DOMAIN ri.Messages}
                = {ri.Participants[i] : i \in DOMAIN ri.Participants}
        /\ ri.Phase = DonePhase =>
              \A i \in DOMAIN ri.Messages :
                  /\ IsPlain(Open(ri, ri.Messages[i]))
                  /\ ri.Messages[i].plain.round = r

\* "Each round result that the user participated in will be sent exactly once"
\* (client.go:840): as soon as the client has read that a later round is on, and
\* whether it is active or not, no result is skipped or repeated.
ResultsExactlyOnce ==
    \A c \in Client : \A r \in KeptRounds :
        Cardinality({i \in DOMAIN results[c] : results[c][i].Round = r}) =
            IF /\ \E last \in seen[c] : last.Round > r
               /\ IsParticipant(GetRoundInfo(sm, r), c)
            THEN 1 ELSE 0

\* A participant's result says what the replicated state machine says: success
\* if and only if the round is done, and then all the messages; the checks
\* against a lying leader never accuse an honest group (client.go:176-294).
ResultsAreTrue ==
    \A c \in Client : \A i \in DOMAIN results[c] :
        LET result == results[c][i]
            ri     == GetRoundInfo(sm, result.Round)
        IN HasRoundInfo(sm, result.Round) =>
              /\ result.Succeeded <=> ri.Phase = DonePhase
              /\ result.Succeeded =>
                    result.Messages =
                        {m \in {ri.Messages[j].plain : j \in DOMAIN ri.Messages} : m.body}

\* "If MaliciousError is nil, then it is guaranteed that no user was able to
\* determine the origin" (client.go:109): a client that reports a failed round
\* without an error has not let its reveal key of that round out, not even
\* into its own queue.
NilErrorMeansUnrevealed ==
    \A c \in Client : \A i \in DOMAIN results[c] :
        LET result == results[c][i]
            r      == result.Round
            op     == RevealOp(c, r, GenKey(c, "reveal", r))
        IN ~result.Succeeded /\ result.MaliciousError = Nil =>
              /\ op \notin proposed \cup adding[c] \cup {newest[c]}
              /\ HasRoundInfo(sm, r) =>
                    \A j \in DOMAIN GetRoundInfo(sm, r).RevealedKeys :
                        GetRoundInfo(sm, r).RevealedKeys[j] # op.RevealKey

\* "required to be true because updates are in order" (client.go:539): when a
\* new round is announced the results of all earlier rounds have been sent.
UpdatesInOrder ==
    \A c \in Client :
        updCh[c] # << >> /\ UpdateRi(c).Phase = PreparePhase =>
            UpdateR(c) - 2 <= local[c].lastResChSend

\* "reveal key state should be from this round" (client.go:176): a client that
\* learns that a round it took part in is done remembers the messages and the
\* hashes of that round, however late it reads.
RevealStateIsRecorded ==
    \A c \in Client :
        LET r == UpdateR(c) - 1
            ri == GetRoundInfo(Update(c), r)
        IN /\ updCh[c] # << >>
           /\ UpdateRi(c).Phase = PreparePhase
           /\ r > local[c].lastResChSend
           /\ IsParticipant(ri, c)
           /\ ri.Phase = DonePhase
           => local[c].lastRevealKeyHashesRound = r

-----------------------------------------------------------------------------
(* Liveness *)

InProgress(r) == sm.Round = r /\ CurrentRoundInfo(sm).Phase # PreparePhase

\* A round that has been started succeeds, if nothing fails and no timer runs
\* out: no client waits for an update that has come and gone.  It fails, and
\* nobody waits either, if its prime does not suit one of the participants
\* (client.go:569-574).
RoundsSucceed ==
    \A r \in 0 .. NumRounds - 1 :
        InProgress(r) ~> /\ sm.Round > r
                         /\ HasRoundInfo(sm, r) =>
                               LET ri == GetRoundInfo(sm, r) IN
                               ri.Phase = DonePhase <=>
                                   \A i \in DOMAIN ri.Participants :
                                       local[ri.Participants[i]].MessageSize
                                           = ri.Crypto.size

\* A round that has been started ends, done or failed, as long as one client
\* is alive: the timeouts of any of them, participant or not, clear a round
\* that a crashed participant blocks (client.go:689-743).
RoundsEnd ==
    \A r \in 0 .. NumRounds - 1 :
        InProgress(r) ~> (sm.Round > r \/ \A c \in Client : ~Alive(c))

\* A client that could join the current round is in it, unless the round has
\* been started without it.
EverybodyJoins ==
    \A c \in Client, r \in 0 .. NumRounds - 1 :
        sm.Round = r ~> \/ sm.Round # r
                        \/ InProgress(r)
                        \/ IsParticipant(CurrentRoundInfo(sm), c)
=============================================================================
