------------------------------- MODULE Server -------------------------------
(***************************************************************************)
(* A server (anonbcast/server.go): SubmitOp, the response channels         *)
(* (respchannels.go), the applier, the update channels, and Kill, on top   *)
(* of Raft; and as much of its clients as the update channels need: when   *)
(* they read, and how they stop (NewClient, readUpdates and the end of     *)
(* Client.Kill in client.go).                                              *)
(*                                                                         *)
(* The mutex is held across steps by the applier only, while it sends      *)
(* updates; every other critical section is one step.  An update is        *)
(* identified by the version of the state machine: how many operations     *)
(* with effect the applier has applied, counted from 1.                    *)
(***************************************************************************)
EXTENDS Raft, StateMachine

CONSTANTS Call,     \* calls of SubmitOp
          Op,       \* the operations they submit
          Reader    \* clients that read updates

\* An entry of the log that changes Raft's configuration.
Configuration == [type |-> "configuration"]

ASSUME ServerAssumption == Value = Op \cup {Configuration}

VARIABLES sm,       \* the state machine
          version,  \* its version
          applied,  \* how many committed entries the applier has received
          applier,  \* where the applier is
          resps,    \* the response channels
          updChs,   \* the readers with an open update channel
          buffer,   \* buffer[u]: the update channel of u, of capacity 1
          dead,     \* Server.dead
          call,     \* call[k]: where call k is
          reader    \* reader[u]: where u is, whether it reads, and the last version it read

state == <<sm, version, applied, applier, resps>>
feed  == <<updChs, buffer, reader>>
vars  == <<raft, state, feed, dead, call>>

Idle == [pc |-> "receive", msg |-> Nil, to |-> Nil, todo |-> {}, request |-> Nil]

Init ==
    /\ RaftInit
    /\ sm = NewStateMachine
    /\ version = 1
    /\ applied = 0
    /\ applier = Idle
    /\ resps = {}
    /\ updChs = {}
    /\ buffer = [u \in Reader |-> << >>]
    /\ dead = FALSE
    /\ call = [k \in Call |-> [pc |-> "idle", op |-> Nil, reply |-> Nil]]
    /\ reader = [u \in Reader |-> [pc |-> "none", reads |-> FALSE, read |-> 0]]

\* The applier sends updates with s.mu held.
Locked == applier.pc = "send"

-----------------------------------------------------------------------------
(* SubmitOp *)

\* A call that waits for the mutex has not begun.
Begins(k) == call[k].pc = "idle" /\ ~Locked

Submitted(k, op, pc, reply) ==
    call' = [call EXCEPT ![k] = [pc |-> pc, op |-> op, reply |-> reply]]

SubmitNoEffect(k, op) ==
    /\ Begins(k)
    /\ GuaranteedNoEffect(sm, op)
    /\ Submitted(k, op, "answered", "OK")
    /\ UNCHANGED <<raft, state, feed, dead>>

SubmitNotLeader(k, op) ==
    /\ Begins(k)
    /\ ~GuaranteedNoEffect(sm, op)
    /\ ~leader
    /\ Submitted(k, op, "answered", "ErrWrongLeader")
    /\ UNCHANGED <<raft, state, feed, dead>>

\* resps.Create(term, index) with the term and the index that Start returned.
Create(k) ==
    resps' = resps \cup {[term |-> led, index |-> Len(rlog'), call |-> k]}

SubmitStart(k, op) ==
    /\ Begins(k)
    /\ ~GuaranteedNoEffect(sm, op)
    /\ Propose(op)
    /\ Create(k)
    /\ Submitted(k, op, "wait", Nil)
    /\ UNCHANGED <<sm, version, applied, applier, feed, dead>>

\* The wait ends when the server is killed, with resp = false.
SubmitKilled(k) ==
    /\ call[k].pc = "wait"
    /\ dead
    /\ call' = [call EXCEPT ![k].pc = "answered", ![k].reply = "ErrWrongLeader"]
    /\ UNCHANGED <<raft, state, feed, dead>>

\* SubmitOp takes the mutex again before it returns.
SubmitReturn(k) ==
    /\ call[k].pc = "answered"
    /\ ~Locked
    /\ call' = [call EXCEPT ![k].pc = "done"]
    /\ UNCHANGED <<raft, state, feed, dead>>

-----------------------------------------------------------------------------
(* The applier *)

\* Mutant: requests are told apart by their index only.
GetByIndex(t, i) == {r \in resps : r.index = i}
Get(t, i) == {r \in resps : r.term = t /\ r.index = i}

\* The request that is answered when index i is applied, if there is one.  The
\* code looks it up after it has sent the updates, still holding the mutex.
Request(t, i) ==
    IF Get(t, i) = {} THEN Nil ELSE (CHOOSE r \in Get(t, i) : TRUE).call

\* Around the loop: for !s.killed() { msg := <-s.applyCh
Loop == [Idle EXCEPT !.pc = IF dead THEN "done" ELSE "receive"]

\* Send msg to the channels chs, one after the other in any order, and then
\* answer request k.
Sending(chs, msg, k) ==
    IF chs # {}
    THEN {[pc |-> "send", msg |-> msg, to |-> u, todo |-> chs \ {u}, request |-> k] :
             u \in chs}
    ELSE IF k # Nil THEN {[Idle EXCEPT !.pc = "respond", !.request = k]}
    ELSE {Loop}

\* The UpdateMsg with version v of the state machine.
StateMachineUpdate(v) == [type |-> "stateMachine", version |-> v]

Receive ==
    /\ applier.pc = "receive"
    /\ applied < Len(committed)
    /\ applied' = applied + 1

ReceiveCommand ==
    LET entry == committed[applied + 1]
        after == Apply(sm, entry.value)
    IN
    /\ Receive
    /\ entry.value \in Op
    /\ sm' = after.sm
    /\ version' = IF after.updated THEN version + 1 ELSE version
    /\ applier' \in Sending(IF after.updated THEN updChs ELSE {},
                            StateMachineUpdate(version'),
                            Request(entry.term, applied + 1))
    /\ UNCHANGED <<raft, resps, feed, dead, call>>

ReceiveConfiguration ==
    /\ Receive
    /\ committed[applied + 1].value = Configuration
    /\ applier' \in Sending(updChs, Configuration, Nil)
    /\ UNCHANGED <<raft, sm, version, resps, feed, dead, call>>

\* Mutant: an update is dropped when the channel is full.
SendOrDrop ==
    /\ applier.pc = "send"
    /\ buffer' = [buffer EXCEPT ![applier.to] =
                     IF @ = << >> THEN <<applier.msg>> ELSE @]
    /\ applier' \in Sending(applier.todo, applier.msg, applier.request)
    /\ UNCHANGED <<raft, sm, version, applied, resps, updChs, reader, dead, call>>
\* ch <- msg: blocks while the channel is full.
Send ==
    /\ applier.pc = "send"
    /\ buffer[applier.to] = << >>
    /\ buffer' = [buffer EXCEPT ![applier.to] = <<applier.msg>>]
    /\ applier' \in Sending(applier.todo, applier.msg, applier.request)
    /\ UNCHANGED <<raft, sm, version, applied, resps, updChs, reader, dead, call>>

\* ch <- true: the applier has unlocked the mutex and waits for SubmitOp.
SendResponse ==
    /\ applier.pc = "respond"
    /\ call[applier.request].pc = "wait"
    /\ call' = [call EXCEPT ![applier.request].pc = "answered",
                            ![applier.request].reply = "OK"]
    /\ applier' = Loop
    /\ UNCHANGED <<raft, sm, version, applied, resps, feed, dead>>

\* Mutant: the channels are forgotten and not closed.
ClearWithoutClose == resps' = {} /\ call' = call
\* resps.Clear(): the requests that wait read false from their closed channels.
Clear ==
    /\ resps' = {}
    /\ call' = [k \in Call |->
                   IF (\E r \in resps : r.call = k) /\ call[k].pc = "wait"
                   THEN [call[k] EXCEPT !.pc = "answered",
                                        !.reply = "ErrWrongLeader"]
                   ELSE call[k]]

\* Raft says that the server is not the leader any more.
ReceiveRaftUpdate ==
    /\ applier.pc = "receive"
    /\ lost
    /\ lost' = FALSE
    /\ Clear
    /\ applier' = Loop
    /\ UNCHANGED <<term, led, leader, rlog, committed, sm, version, applied, feed, dead>>

-----------------------------------------------------------------------------
(* Update channels *)

\* NewClient: GetUpdCh sends the current state machine at once.
GetUpdCh(u) ==
    /\ reader[u].pc = "none"
    /\ ~Locked /\ ~dead
    /\ updChs' = updChs \cup {u}
    /\ buffer' = [buffer EXCEPT ![u] = <<StateMachineUpdate(version)>>]
    /\ reader' = [reader EXCEPT ![u] = [pc |-> "running", reads |-> FALSE,
                                         read |-> version - 1]]
    /\ UNCHANGED <<raft, state, dead, call>>

\* readUpdates reads nothing before setActive has heard from the leader.
SetActive(u) ==
    /\ reader[u].pc \in {"running", "killing"}
    /\ ~reader[u].reads
    /\ reader' = [reader EXCEPT ![u].reads = TRUE]
    /\ UNCHANGED <<raft, state, updChs, buffer, dead, call>>

\* updMsg := <-c.updCh
ReadUpdate(u) ==
    /\ reader[u].reads
    /\ buffer[u] # << >>
    /\ buffer' = [buffer EXCEPT ![u] = << >>]
    /\ reader' = IF Head(buffer[u]) = Configuration THEN reader
                 ELSE [reader EXCEPT ![u].read = Head(buffer[u]).version]
    /\ UNCHANGED <<raft, state, updChs, dead, call>>

\* Client.Kill has made the client inactive; readUpdates goes on reading.
KillClient(u) ==
    /\ reader[u].pc = "running"
    /\ reader' = [reader EXCEPT ![u].pc = "killing"]
    /\ UNCHANGED <<raft, state, updChs, buffer, dead, call>>

\* Mutant: the channel is closed without the mutex.
CloseUnlocked(u) ==
    /\ reader[u].pc = "killing"
    /\ updChs' = updChs \ {u}
    /\ buffer' = [buffer EXCEPT ![u] = << >>]
    /\ reader' = [reader EXCEPT ![u].pc = "dead", ![u].reads = FALSE]
    /\ UNCHANGED <<raft, state, dead, call>>
\* Mutant: the client is dead, and its channel is still open.
DieUnclosed(u) ==
    /\ reader[u].pc = "killing"
    /\ reader' = [reader EXCEPT ![u].pc = "dead", ![u].reads = FALSE]
    /\ UNCHANGED <<raft, state, updChs, buffer, dead, call>>
\* CloseUpdCh, for which Kill needs the mutex, and then Client.dead is set;
\* nothing depends on whether what is left in the channel is still read.
CloseUpdCh(u) ==
    /\ reader[u].pc = "killing"
    /\ ~Locked
    /\ updChs' = updChs \ {u}
    /\ buffer' = [buffer EXCEPT ![u] = << >>]
    /\ reader' = [reader EXCEPT ![u].pc = "dead", ![u].reads = FALSE]
    /\ UNCHANGED <<raft, state, dead, call>>

-----------------------------------------------------------------------------
(* Kill and Raft's own steps *)

\* Server.Kill: a Raft that is killed does not lead any more.
Kill ==
    /\ ~dead
    /\ dead' = TRUE
    /\ leader' = FALSE
    /\ UNCHANGED <<term, led, committed, lost, state, feed, call>>
    /\ Forget

\* A handler of serverconfigurationchange.go asks this server for a change.
ChangeConfiguration ==
    /\ Propose(Configuration)
    /\ UNCHANGED <<state, feed, dead, call>>

RaftStep ==
    /\ \/ ~dead /\ Elect
       \/ ElectOther
       \/ StepDown
       \/ CommitEntry
       \/ CommitOther
    /\ UNCHANGED <<state, feed, dead, call>>

SubmitOp(k, op) == SubmitNoEffect(k, op) \/ SubmitNotLeader(k, op) \/ SubmitStart(k, op)
SubmitEnd(k)    == SubmitKilled(k) \/ SubmitReturn(k)

Applier == \/ ReceiveCommand
           \/ ReceiveConfiguration
           \/ ReceiveRaftUpdate
           \/ Send
           \/ SendResponse

Next ==
    \/ \E k \in Call : SubmitEnd(k) \/ \E op \in Op : SubmitOp(k, op)
    \/ Applier
    \/ \E u \in Reader : \/ GetUpdCh(u)
                         \/ SetActive(u)
                         \/ ReadUpdate(u)
                         \/ KillClient(u)
                         \/ CloseUpdCh(u)
    \/ Kill
    \/ ChangeConfiguration
    \/ RaftStep

(***************************************************************************)
(* The goroutines of the server and its clients run.  Raft commits what    *)
(* its newest leader has, a leader that was replaced hears of it, and      *)
(* setActive reaches a leader.  Nothing makes anybody lead, call or be     *)
(* killed.                                                                 *)
(***************************************************************************)
Fairness ==
    /\ \A k \in Call : WF_vars(SubmitEnd(k))
    /\ WF_vars(Applier)
    /\ WF_vars(CommitEntry /\ UNCHANGED <<state, feed, dead, call>>)
    /\ WF_vars(led < term /\ StepDown /\ UNCHANGED <<state, feed, dead, call>>)
    /\ \A u \in Reader : /\ WF_vars(SetActive(u))
                         /\ WF_vars(ReadUpdate(u))
                         /\ WF_vars(CloseUpdCh(u))

Spec == Init /\ [][Next]_vars /\ Fairness

-----------------------------------------------------------------------------
(* Safety *)

\* The applier sends only to channels that are open, however long it has to wait
\* for one of them (server.go:256, 264): a send on a channel that CloseUpdCh has
\* closed meanwhile would panic.
SendsToOpenChannels == Locked => applier.todo \cup {applier.to} \subseteq updChs

\* "All updates are guaranteed to come, and they are guaranteed to come in
\* order" (server.go:227), beginning with the state at the time of GetUpdCh:
\* a reader never sees an update again, or one that does not follow the last.
UpdatesComeInOrder ==
    [][\A u \in Reader :
          reader'[u].read # reader[u].read =>
              \/ reader'[u].read = reader[u].read + 1
              \/ reader[u].pc = "none"]_vars

-----------------------------------------------------------------------------
(* Liveness *)

\* Every request gets an answer: its operation is applied, or the server hears
\* that it does not lead any more, or it is killed.  No request waits for an
\* answer that was given before its channel was known, or for ever after its
\* operation was overwritten (server.go:115-143, 171-177).
RequestsAreAnswered ==
    \A k \in Call : call[k].pc = "wait" ~> call[k].pc = "done"

\* The applier does not hold the mutex for ever, and every update comes to
\* every reader that goes on: a reader reads, or it has closed its channel
\* before it stopped (server.go:229-231, client.go:785-788).
UpdatesCome ==
    /\ Locked ~> ~Locked
    /\ \A u \in Reader, n \in 2 .. MaxLog + 1 :
          (u \in updChs /\ version = n) ~>
              (reader[u].pc \in {"killing", "dead"} \/ reader[u].read >= n)
=============================================================================
