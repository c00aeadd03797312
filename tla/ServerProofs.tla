---------------------------- MODULE ServerProofs ----------------------------
(***************************************************************************)
(* Proofs about Server: for any number of clients, calls, operations and   *)
(* terms, the updates come to every client in order and are sent to open   *)
(* channels only.                                                          *)
(***************************************************************************)
EXTENDS Server, TLAPS

Update == {Configuration} \cup {StateMachineUpdate(v) : v \in Nat}

Client == [pc : {"none", "running", "killing", "dead"}, reads : BOOLEAN, read : Int]

\* Clients, their channels and what the applier is sending have their types.
FeedType ==
    /\ version \in Nat
    /\ updChs \subseteq Reader
    /\ buffer \in [Reader -> {<< >>} \cup {<<m>> : m \in Update}]
    /\ reader \in [Reader -> Client]
    /\ Locked => applier.msg \in Update

\* A client reads from its channel from GetUpdCh to CloseUpdCh.
ChannelsAreOpen ==
    \A u \in Reader : /\ u \in updChs <=> reader[u].pc \in {"running", "killing"}
                      /\ u \notin updChs => buffer[u] = << >>

\* The channel that the applier sends to is not one of those that come next.
SendsOnce == SendsToOpenChannels /\ (Locked => applier.to \notin applier.todo)

IsBuffered(u) == buffer[u] # << >> /\ Head(buffer[u]) # Configuration

IsAwaited(u) ==
    Locked /\ applier.msg # Configuration /\ u \in applier.todo \cup {applier.to}

\* What a client has not read of the versions of the state machine is what is
\* in its channel and what the applier is about to send: no more than one of
\* each, and the newest comes last.
NothingIsMissing ==
    /\ Locked /\ applier.msg # Configuration => applier.msg = StateMachineUpdate(version)
    /\ \A u \in updChs :
          /\ IsBuffered(u) => Head(buffer[u]).version = reader[u].read + 1
          /\ version = reader[u].read + (IF IsBuffered(u) THEN 1 ELSE 0)
                                      + (IF IsAwaited(u) THEN 1 ELSE 0)

FeedInv ==
    /\ FeedType
    /\ ChannelsAreOpen
    /\ SendsOnce
    /\ NothingIsMissing

-----------------------------------------------------------------------------
\* Updates of the two kinds differ.
LEMMA UpdateKinds ==
  /\ Configuration \in Update
  /\ \A v \in Nat : /\ StateMachineUpdate(v) \in Update
                    /\ StateMachineUpdate(v) # Configuration
                    /\ StateMachineUpdate(v).version = v
  /\ \A m \in Update : m # Configuration => \E v \in Nat : m = StateMachineUpdate(v)
<1>1. \A v \in Nat : StateMachineUpdate(v).type # Configuration.type
  BY DEF StateMachineUpdate, Configuration
<1>2. QED
  BY <1>1 DEF Update, StateMachineUpdate

\* At the start there is no client.
LEMMA FeedInit == Init => FeedInv
  BY DEF Init, FeedInv, FeedType, ChannelsAreOpen, SendsOnce, SendsToOpenChannels,
         NothingIsMissing, Client, Locked, Idle

\* Steps that leave the version, the channels and the clients alone, and in
\* which the applier neither begins to send nor goes on.
LEMMA OtherStep ==
  ASSUME FeedInv, UNCHANGED <<version, updChs, buffer, reader>>,
         applier' = applier \/ (~Locked /\ ~Locked')
  PROVE  FeedInv'
  BY DEF FeedInv, FeedType, ChannelsAreOpen, SendsOnce, SendsToOpenChannels, NothingIsMissing,
         IsBuffered, IsAwaited, Locked

\* The applier begins to send msg to the channels chs, or has none to send to.
LEMMA SendingTo ==
  ASSUME NEW chs, NEW msg, NEW k, applier' \in Sending(chs, msg, k)
  PROVE  /\ chs = {} => ~Locked'
         /\ chs # {} => /\ Locked' /\ applier'.msg = msg
                        /\ applier'.to \in chs /\ applier'.todo = chs \ {applier'.to}
<1>1. CASE chs = {}
  <2>1. applier' = [Idle EXCEPT !.pc = "respond", !.request = k] \/ applier' = Loop
    BY <1>1 DEF Sending
  <2>2. applier'.pc \in {"respond", "receive", "done"}
    BY <2>1 DEF Loop, Idle
  <2>3. QED
    BY <1>1, <2>2 DEF Locked
<1>2. CASE chs # {}
  <2>1. PICK u \in chs : applier' = [pc |-> "send", msg |-> msg, to |-> u, todo |-> chs \ {u},
                                     request |-> k]
    BY <1>2 DEF Sending
  <2>2. QED
    BY <1>2, <2>1 DEF Locked
<1>3. QED
  BY <1>1, <1>2

\* The applier receives a committed operation and begins to send an update.
LEMMA CommandStep ==
  ASSUME FeedInv, ReceiveCommand
  PROVE  FeedInv'
<1> DEFINE updated == Apply(sm, committed[applied + 1].value).updated
<1>1. /\ ~Locked
      /\ UNCHANGED <<updChs, buffer, reader>>
      /\ version' = IF updated THEN version + 1 ELSE version
  BY DEF ReceiveCommand, Receive, Locked, feed
<1>2. PICK k : applier' \in Sending(IF updated THEN updChs ELSE {}, StateMachineUpdate(version'), k)
  BY DEF ReceiveCommand
<1> HIDE DEF updated
<1>3. CASE ~updated \/ updChs = {}
  <2>1. ~Locked'
    BY <1>2, <1>3, SendingTo
  <2>2. version' \in Nat /\ (updChs # {} => version' = version)
    BY <1>1, <1>3 DEF FeedInv, FeedType
  <2>3. QED
    BY <1>1, <2>1, <2>2 DEF FeedInv, FeedType, ChannelsAreOpen, SendsOnce, SendsToOpenChannels,
                           NothingIsMissing, IsBuffered, IsAwaited
<1>4. CASE updated /\ updChs # {}
  <2>1. /\ Locked' /\ applier'.msg = StateMachineUpdate(version')
        /\ applier'.to \in updChs /\ applier'.todo = updChs \ {applier'.to}
    BY <1>2, <1>4, SendingTo
  <2>2. version \in Nat /\ version' = version + 1
    BY <1>1, <1>4 DEF FeedInv, FeedType
  <2>3. applier'.msg \in Update /\ applier'.msg # Configuration
    BY <2>1, <2>2, UpdateKinds
  <2>4. FeedType' /\ ChannelsAreOpen' /\ SendsOnce'
    BY <1>1, <2>1, <2>2, <2>3 DEF FeedInv, FeedType, ChannelsAreOpen, SendsOnce, SendsToOpenChannels
  <2>5. \A u \in updChs : ~IsAwaited(u) /\ IsAwaited(u)' /\ (IsBuffered(u)' <=> IsBuffered(u))
    BY <1>1, <2>1, <2>3 DEF IsAwaited, IsBuffered
  <2>6. \A u \in updChs : reader[u].read \in Int
    BY DEF FeedInv, FeedType, Client
  <2>7. NothingIsMissing'
    BY <1>1, <2>1, <2>2, <2>5, <2>6 DEF FeedInv, NothingIsMissing
  <2>8. QED
    BY <2>4, <2>7 DEF FeedInv
<1>5. QED
  BY <1>3, <1>4

\* The applier receives a committed configuration.
LEMMA ConfigurationStep ==
  ASSUME FeedInv, ReceiveConfiguration
  PROVE  FeedInv'
<1>1. ~Locked /\ UNCHANGED <<version, updChs, buffer, reader>>
  BY DEF ReceiveConfiguration, Receive, Locked, feed
<1>2. /\ updChs = {} => ~Locked'
      /\ updChs # {} => /\ Locked' /\ applier'.msg = Configuration
                        /\ applier'.to \in updChs /\ applier'.todo = updChs \ {applier'.to}
  BY SendingTo DEF ReceiveConfiguration
<1>3. QED
  BY <1>1, <1>2, UpdateKinds DEF FeedInv, FeedType, ChannelsAreOpen, SendsOnce, SendsToOpenChannels,
                                NothingIsMissing, IsBuffered, IsAwaited

\* The applier puts the update into a channel and goes on to the next.
LEMMA SendStep ==
  ASSUME FeedInv, Send
  PROVE  FeedInv'
<1>0. PICK v, m : v = applier.to /\ m = applier.msg
  OBVIOUS
<1>1. /\ Locked /\ buffer[v] = << >> /\ m \in Update
      /\ v \in updChs /\ v \in Reader /\ v \notin applier.todo /\ applier.todo \subseteq updChs
  BY <1>0 DEF Send, Locked, FeedInv, FeedType, SendsOnce, SendsToOpenChannels
<1>2. /\ UNCHANGED <<version, updChs, reader>>
      /\ buffer' = [buffer EXCEPT ![v] = <<m>>]
  BY <1>0 DEF Send
<1>3. /\ applier.todo = {} => ~Locked'
      /\ applier.todo # {} => /\ Locked' /\ applier'.msg = m
                              /\ applier'.to \in applier.todo
                              /\ applier'.todo = applier.todo \ {applier'.to}
  BY <1>0, SendingTo DEF Send
<1>4. buffer'[v] = <<m>> /\ \A u \in Reader \ {v} : buffer'[u] = buffer[u]
  BY <1>1, <1>2 DEF FeedInv, FeedType
<1>5. buffer' \in [Reader -> {<< >>} \cup {<<n>> : n \in Update}]
  BY <1>1, <1>2 DEF FeedInv, FeedType
<1>6. FeedType' /\ ChannelsAreOpen' /\ SendsOnce'
  BY <1>0, <1>1, <1>2, <1>3, <1>4, <1>5 DEF FeedInv, FeedType, ChannelsAreOpen, SendsOnce,
                                     SendsToOpenChannels
<1>7. \A u \in updChs \ {v} : /\ IsBuffered(u)' <=> IsBuffered(u)
                              /\ IsAwaited(u)' <=> IsAwaited(u)
                              /\ buffer'[u] = buffer[u]
  BY <1>0, <1>1, <1>3, <1>4 DEF IsBuffered, IsAwaited, FeedInv, FeedType
<1>8. ~IsBuffered(v) /\ ~IsAwaited(v)'
  BY <1>0, <1>1, <1>3 DEF IsBuffered, IsAwaited
<1>9. (IsBuffered(v)' <=> m # Configuration) /\ (IsAwaited(v) <=> m # Configuration)
  BY <1>0, <1>1, <1>4 DEF IsBuffered, IsAwaited
<1>10. m # Configuration => Head(buffer'[v]).version = version
  BY <1>0, <1>1, <1>4, UpdateKinds DEF FeedInv, FeedType, NothingIsMissing
<1>11. \A u \in updChs : reader[u].read \in Int
  BY DEF FeedInv, FeedType, Client
<1>12. /\ IsBuffered(v)' => Head(buffer'[v]).version = reader[v].read + 1
       /\ version = reader[v].read + (IF IsBuffered(v)' THEN 1 ELSE 0)
  BY <1>1, <1>8, <1>9, <1>10, <1>11 DEF FeedInv, FeedType, NothingIsMissing
<1>13. NothingIsMissing'
  BY <1>0, <1>1, <1>2, <1>3, <1>7, <1>8, <1>11, <1>12 DEF FeedInv, NothingIsMissing
<1>14. QED
  BY <1>6, <1>13 DEF FeedInv

-----------------------------------------------------------------------------
\* A client gets its channel, with the version of that moment in it.
LEMMA GetStep ==
  ASSUME FeedInv, NEW u \in Reader, GetUpdCh(u)
  PROVE  FeedInv'
<1> DEFINE first == StateMachineUpdate(version)
<1>1. /\ ~Locked /\ ~Locked' /\ version' = version /\ version \in Nat
      /\ updChs' = updChs \cup {u} /\ updChs \subseteq Reader
      /\ buffer' = [buffer EXCEPT ![u] = <<first>>]
      /\ reader' = [reader EXCEPT ![u] = [pc |-> "running", reads |-> FALSE,
                                          read |-> version - 1]]
  BY DEF GetUpdCh, FeedInv, FeedType, Locked, state
<1>2. first \in Update /\ first # Configuration /\ first.version = version
  BY <1>1, UpdateKinds
<1> HIDE DEF first
<1>3. /\ buffer'[u] = <<first>>
      /\ reader'[u] = [pc |-> "running", reads |-> FALSE, read |-> version - 1]
      /\ \A w \in Reader \ {u} : buffer'[w] = buffer[w] /\ reader'[w] = reader[w]
  BY <1>1 DEF FeedInv, FeedType
<1>4. FeedType'
  BY <1>1, <1>2 DEF FeedInv, FeedType, Client
<1>5. ChannelsAreOpen' /\ SendsOnce'
  BY <1>1, <1>3 DEF FeedInv, ChannelsAreOpen, SendsOnce, SendsToOpenChannels
<1>6. \A w \in Reader : ~IsAwaited(w) /\ ~IsAwaited(w)'
  BY <1>1 DEF IsAwaited
<1>7. \A w \in Reader \ {u} : IsBuffered(w)' <=> IsBuffered(w)
  BY <1>3 DEF IsBuffered
<1>8. IsBuffered(u)' /\ Head(buffer'[u]) = first
  BY <1>2, <1>3 DEF IsBuffered
<1>9. /\ Head(buffer'[u]).version = reader'[u].read + 1
      /\ version = reader'[u].read + 1
  BY <1>1, <1>2, <1>3, <1>8
<1>10. NothingIsMissing'
  BY <1>1, <1>3, <1>6, <1>7, <1>8, <1>9 DEF FeedInv, NothingIsMissing
<1>11. QED
  BY <1>4, <1>5, <1>10 DEF FeedInv

\* A client changes state and keeps its channel.
LEMMA PhaseStep ==
  ASSUME FeedInv, NEW u \in Reader, SetActive(u) \/ KillClient(u)
  PROVE  FeedInv'
<1>1. /\ UNCHANGED <<version, updChs, buffer, applier>>
      /\ reader[u].pc \in {"running", "killing"}
      /\ \/ reader' = [reader EXCEPT ![u].reads = TRUE]
         \/ reader' = [reader EXCEPT ![u].pc = "killing"]
  BY DEF SetActive, KillClient, state
<1>2. reader \in [Reader -> Client] /\ reader[u] \in Client
  BY DEF FeedInv, FeedType
<1>3. /\ [reader[u] EXCEPT !.reads = TRUE] \in Client
      /\ [reader[u] EXCEPT !.pc = "killing"] \in Client
  BY <1>2 DEF Client
<1>4. reader' \in [Reader -> Client]
  BY <1>1, <1>2, <1>3
<1>5. \A w \in Reader : /\ reader'[w].read = reader[w].read
                        /\ reader'[w].pc \in {"running", "killing"}
                              <=> reader[w].pc \in {"running", "killing"}
  BY <1>1, <1>2 DEF Client
<1>6. QED
  BY <1>1, <1>4, <1>5 DEF FeedInv, FeedType, ChannelsAreOpen, SendsOnce, SendsToOpenChannels,
                   NothingIsMissing, IsBuffered, IsAwaited, Locked

\* A client reads what is in its channel: the version after the one it has
\* read before, when it is a version.
LEMMA ReadStep ==
  ASSUME FeedInv, NEW u \in Reader, ReadUpdate(u)
  PROVE  /\ FeedInv'
         /\ reader'[u].read \in {reader[u].read, reader[u].read + 1}
         /\ \A w \in Reader \ {u} : reader'[w] = reader[w]
<1>1. /\ UNCHANGED <<version, updChs, applier>>
      /\ buffer[u] # << >> /\ buffer' = [buffer EXCEPT ![u] = << >>]
      /\ reader' = IF Head(buffer[u]) = Configuration THEN reader
                   ELSE [reader EXCEPT ![u].read = Head(buffer[u]).version]
  BY DEF ReadUpdate, state
<1>2. u \in updChs
  BY <1>1 DEF FeedInv, ChannelsAreOpen
<1>3. /\ buffer'[u] = << >> /\ ~IsBuffered(u)'
      /\ \A w \in Reader \ {u} : /\ buffer'[w] = buffer[w]
                                 /\ IsBuffered(w)' <=> IsBuffered(w)
  BY <1>1 DEF FeedInv, FeedType, IsBuffered
<1>4. \A w \in Reader : IsAwaited(w)' <=> IsAwaited(w)
  BY <1>1 DEF IsAwaited, Locked
<1>5. IsBuffered(u) <=> Head(buffer[u]) # Configuration
  BY <1>1 DEF IsBuffered
<1>6. reader[u].read \in Int /\ version \in Nat
  BY DEF FeedInv, FeedType, Client
<1>7. IsBuffered(u) => Head(buffer[u]).version = reader[u].read + 1
  BY <1>2 DEF FeedInv, NothingIsMissing
<1>8. /\ reader'[u].read = reader[u].read + (IF IsBuffered(u) THEN 1 ELSE 0)
      /\ reader'[u].pc = reader[u].pc
      /\ \A w \in Reader \ {u} : reader'[w] = reader[w]
      /\ reader' \in [Reader -> Client]
  <2>1. reader \in [Reader -> Client] /\ reader[u] \in Client
    BY DEF FeedInv, FeedType
  <2>2. CASE Head(buffer[u]) = Configuration
    BY <1>1, <1>5, <1>6, <2>1, <2>2
  <2>3. CASE Head(buffer[u]) # Configuration
    <3>1. reader' = [reader EXCEPT ![u].read = reader[u].read + 1]
      BY <1>1, <1>5, <1>7, <2>3
    <3>2. [reader[u] EXCEPT !.read = reader[u].read + 1] \in Client
      BY <1>6, <2>1 DEF Client
    <3>3. reader'[u] = [reader[u] EXCEPT !.read = reader[u].read + 1]
      BY <2>1, <3>1
    <3>4. reader'[u].read = reader[u].read + 1 /\ reader'[u].pc = reader[u].pc
      BY <2>1, <3>3 DEF Client
    <3>5. QED
      BY <1>5, <2>1, <2>3, <3>1, <3>2, <3>4
  <2>4. QED
    BY <2>2, <2>3
<1>9. FeedType'
  BY <1>1, <1>8 DEF FeedInv, FeedType, Locked
<1>10. ChannelsAreOpen' /\ SendsOnce'
  BY <1>1, <1>2, <1>3, <1>8 DEF FeedInv, ChannelsAreOpen, SendsOnce, SendsToOpenChannels, Locked
<1>11. version = reader'[u].read + 0 + (IF IsAwaited(u)' THEN 1 ELSE 0)
  BY <1>2, <1>4, <1>6, <1>8 DEF FeedInv, NothingIsMissing
<1>12. updChs \subseteq Reader
  BY DEF FeedInv, FeedType
<1>13. NothingIsMissing'
  BY <1>1, <1>3, <1>4, <1>8, <1>11, <1>12 DEF FeedInv, NothingIsMissing, Locked
<1>14. QED
  BY <1>6, <1>8, <1>9, <1>10, <1>13 DEF FeedInv

\* A channel is closed while the applier sends nothing.
LEMMA CloseStep ==
  ASSUME FeedInv, NEW u \in Reader, CloseUpdCh(u)
  PROVE  FeedInv'
<1>1. /\ ~Locked /\ ~Locked' /\ version' = version
      /\ updChs' = updChs \ {u}
      /\ buffer' = [buffer EXCEPT ![u] = << >>]
      /\ reader' = [reader EXCEPT ![u].pc = "dead", ![u].reads = FALSE]
  BY DEF CloseUpdCh, Locked, state
<1>2. /\ buffer'[u] = << >> /\ reader'[u].pc = "dead"
      /\ \A w \in Reader \ {u} : buffer'[w] = buffer[w] /\ reader'[w] = reader[w]
  BY <1>1 DEF FeedInv, FeedType
<1>3. FeedType'
  BY <1>1 DEF FeedInv, FeedType, Client
<1>4. QED
  BY <1>1, <1>2, <1>3 DEF FeedInv, FeedType, ChannelsAreOpen, SendsOnce, SendsToOpenChannels,
                         NothingIsMissing, IsBuffered, IsAwaited

-----------------------------------------------------------------------------
\* Every step that is not a client's own keeps the invariant and leaves what
\* the clients have read alone.
LEMMA ServerStep ==
  ASSUME FeedInv,
         \/ \E k \in Call : SubmitEnd(k) \/ \E op \in Op : SubmitOp(k, op)
         \/ Applier \/ Kill \/ ChangeConfiguration \/ RaftStep \/ UNCHANGED vars
  PROVE  FeedInv' /\ reader' = reader
<1>1. CASE \E k \in Call : SubmitEnd(k) \/ \E op \in Op : SubmitOp(k, op)
  BY <1>1, OtherStep DEF SubmitEnd, SubmitKilled, SubmitReturn, SubmitOp, SubmitNoEffect,
                         SubmitNotLeader, SubmitStart, state, feed
<1>2. CASE Applier
  <2>1. CASE ReceiveRaftUpdate \/ SendResponse
    BY <2>1, OtherStep DEF ReceiveRaftUpdate, SendResponse, Loop, Idle, Locked, feed
  <2>2. CASE ReceiveCommand
    BY <2>2, CommandStep DEF ReceiveCommand, feed
  <2>3. CASE ReceiveConfiguration
    BY <2>3, ConfigurationStep DEF ReceiveConfiguration, feed
  <2>4. CASE Send
    BY <2>4, SendStep DEF Send
  <2>5. QED
    BY <1>2, <2>1, <2>2, <2>3, <2>4 DEF Applier
<1>3. CASE Kill \/ ChangeConfiguration \/ RaftStep
  BY <1>3, OtherStep DEF Kill, ChangeConfiguration, RaftStep, state, feed
<1>4. CASE UNCHANGED vars
  BY <1>4, OtherStep DEF vars, state, feed
<1>5. QED
  BY <1>1, <1>2, <1>3, <1>4

\* Every step keeps the invariant, and a client reads versions one by one.
LEMMA FeedStep ==
  ASSUME FeedInv, [Next]_vars
  PROVE  /\ FeedInv'
         /\ \A u \in Reader : \/ reader'[u].read = reader[u].read
                             \/ reader'[u].read = reader[u].read + 1
                             \/ reader[u].pc = "none"
<1>1. CASE \E u \in Reader : ReadUpdate(u)
  BY <1>1, ReadStep
<1>2. CASE \E u \in Reader : GetUpdCh(u) \/ SetActive(u) \/ KillClient(u) \/ CloseUpdCh(u)
  <2>1. PICK u \in Reader : GetUpdCh(u) \/ SetActive(u) \/ KillClient(u) \/ CloseUpdCh(u)
    BY <1>2
  <2>2. FeedInv'
    BY <2>1, GetStep, PhaseStep, CloseStep
  <2>3. reader \in [Reader -> Client]
    BY DEF FeedInv, FeedType
  <2>4. \A w \in Reader : reader'[w].read = reader[w].read \/ reader[w].pc = "none"
    BY <2>1, <2>3 DEF GetUpdCh, SetActive, KillClient, CloseUpdCh, Client
  <2>5. QED
    BY <2>2, <2>4
<1>3. CASE ~\E u \in Reader : \/ ReadUpdate(u) \/ GetUpdCh(u) \/ SetActive(u)
                              \/ KillClient(u) \/ CloseUpdCh(u)
  BY <1>3, ServerStep DEF Next
<1>4. QED
  BY <1>1, <1>2, <1>3

\* What a client has not read is always in its channel or about to be sent
\* (server.go:232-269), for any number of clients and operations.
THEOREM FeedInvariance == Spec => []FeedInv
<1>1. FeedInv /\ [Next]_vars => FeedInv'
  BY FeedStep
<1>2. QED
  BY FeedInit, <1>1, PTL DEF Spec

\* The applier never sends on a channel that CloseUpdCh has closed
\* (server.go:246-269).
THEOREM SendsAreSafe == Spec => []SendsToOpenChannels
<1>1. FeedInv => SendsToOpenChannels
  BY DEF FeedInv, SendsOnce
<1>2. QED
  BY FeedInvariance, <1>1, PTL

\* No client misses, repeats or reorders a version of the state machine.
THEOREM UpdatesAreInOrder == Spec => UpdatesComeInOrder
<1>1. FeedInv /\ [Next]_vars =>
        [\A u \in Reader :
            reader'[u].read # reader[u].read =>
                \/ reader'[u].read = reader[u].read + 1
                \/ reader[u].pc = "none"]_vars
  BY FeedStep
<1>2. QED
  BY FeedInvariance, <1>1, PTL DEF Spec, UpdatesComeInOrder
=============================================================================
