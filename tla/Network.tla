------------------------------ MODULE Network -------------------------------
(***************************************************************************)
(* The simulated network of the tests (labrpc/labrpc.go), one server       *)
(* behind it, and the harness that stops and restarts that server          *)
(* (anonbcast/config.go) with a fresh Persister each time                  *)
(* (libraft/persister.go).                                                 *)
(*                                                                         *)
(* A restart makes a new instance of the server.  The goroutines of the    *)
(* old one are not stopped: its handlers go on and save their state.  What *)
(* a handler does is external; it adds its request to the state of its     *)
(* instance and saves that state before it returns.                        *)
(***************************************************************************)
EXTENDS Naturals

CONSTANTS Caller,     \* the goroutines that make one Call each
          End,        \* the ClientEnds that are connected to the server
          PeerEnd,    \* those of them that belong to other servers
          MaxStarts   \* bound: how often the server is started

ASSUME NetworkAssumption == PeerEnd \subseteq End /\ MaxStarts \in Nat \ {0}

VARIABLES done,       \* Network.done: "open", "closed", or seen by the goroutine of endCh
          enabled,    \* Network.enabled
          server,     \* Network.servers[i]: the instance, or NoServer
          cfg,        \* where the harness is in ShutdownServer and StartServer
          started,    \* the number of instances so far
          saved,      \* config.saved[i]: the number of a Persister
          disk,       \* the raftstate of each Persister
          persister,  \* the Persister that each instance was made with
          memory,     \* the state of each instance
          call        \* the state of each Call, with its processReq and its handler

network == <<done, enabled, server>>
harness == <<cfg, started, saved, persister>>
vars    == <<network, harness, disk, memory, call>>

Instance  == 1..MaxStarts
Persister == 1..(2 * MaxStarts)  \* StartServer and ShutdownServer make one each
NoServer  == 0

Init ==
    /\ done = "open"
    /\ enabled = [e \in End |-> TRUE]
    /\ server = 1 /\ cfg = "up" /\ started = 1
    /\ saved = 1
    /\ disk = [p \in Persister |-> {}]
    /\ persister = [k \in Instance |-> 1]
    /\ memory = [k \in Instance |-> {}]
    /\ call \in [Caller -> {[pc |-> "idle", end |-> e, instance |-> NoServer,
                             handler |-> "none"] : e \in End}]

-----------------------------------------------------------------------------
(* labrpc                                                                  *)

Goto(c, pc) == call' = [call EXCEPT ![c].pc = pc]

\* ClientEnd.Call has encoded its arguments and gets to its select.
Call(c) ==
    /\ call[c].pc = "idle"
    /\ Goto(c, "calling")
    /\ UNCHANGED <<network, harness, disk, memory>>

\* case e.ch <- req: the goroutine of MakeNetwork starts processReq.
Send(c) ==
    /\ call[c].pc = "calling"
    /\ done # "seen"
    /\ Goto(c, "sent")
    /\ UNCHANGED <<network, harness, disk, memory>>

\* case <-e.done: the network has been destroyed.
Refuse(c) ==
    /\ call[c].pc = "calling"
    /\ done # "open"
    /\ Goto(c, "false")
    /\ UNCHANGED <<network, harness, disk, memory>>

Reachable(c) == enabled[call[c].end] /\ server # NoServer

\* processReq: the handler runs in a goroutine of its own.
processReq(c) ==
    /\ call[c].pc = "sent"
    /\ Reachable(c)
    /\ call' = [call EXCEPT ![c].pc = "waiting", ![c].instance = server, ![c].handler = "running"]
    /\ UNCHANGED <<network, harness, disk, memory>>

\* processReq: nobody to send the request to, or an unreliable network loses it.
Drop(c) ==
    /\ call[c].pc = "sent"
    /\ Goto(c, "failing")
    /\ UNCHANGED <<network, harness, disk, memory>>

\* Server.dispatch: the handler (external) is executed, by whatever instance
\* the request was sent to.
dispatch(c) ==
    LET k == call[c].instance
        state == memory[k] \cup {c}
    IN  /\ call[c].handler = "running"
        /\ memory' = [memory EXCEPT ![k] = state]
        /\ disk' = [disk EXCEPT ![persister[k]] = state]
        /\ call' = [call EXCEPT ![c].handler = "returned"]
        /\ UNCHANGED <<network, harness>>

\* As isServerDead would be if a server by that name were enough.
isServerGone(c) == ~enabled[call[c].end] \/ server = NoServer

isServerDead(c) == ~enabled[call[c].end] \/ server # call[c].instance

\* processReq: reply = <-ech
ReceiveReply(c) ==
    /\ call[c].pc = "waiting"
    /\ call[c].handler = "returned"
    /\ Goto(c, "checking")
    /\ UNCHANGED <<network, harness, disk, memory>>

\* As StopWaiting would be if it only looked at the connection.
StopWaitingIfDisabled(c) ==
    /\ call[c].pc = "waiting"
    /\ ~enabled[call[c].end]
    /\ Goto(c, "failing")
    /\ UNCHANGED <<network, harness, disk, memory>>

\* processReq: every 100 ms it looks whether it waits for a dead server.
StopWaiting(c) ==
    /\ call[c].pc = "waiting"
    /\ isServerDead(c)
    /\ Goto(c, "failing")
    /\ UNCHANGED <<network, harness, disk, memory>>

\* processReq: the reply is sent, now or after a while, or an unreliable
\* network loses it.
Check(c) ==
    /\ call[c].pc = "checking"
    /\ \/ ~isServerDead(c) /\ Goto(c, "replying")
       \/ Goto(c, "failing")
    /\ UNCHANGED <<network, harness, disk, memory>>

\* ClientEnd.Call: rep := <-req.replyCh
Return(c) ==
    /\ \/ call[c].pc = "replying" /\ Goto(c, "true")
       \/ call[c].pc = "failing" /\ Goto(c, "false")
    /\ UNCHANGED <<network, harness, disk, memory>>

-----------------------------------------------------------------------------
(* The harness                                                             *)

\* connect, disconnect, partition, ConnectClient, DisconnectClient: config.mu
\* is free.
Enable(e) ==
    /\ cfg \notin {"disconnected", "deleted"}
    /\ enabled' = [enabled EXCEPT ![e] = ~@]
    /\ UNCHANGED <<done, server, harness, disk, memory, call>>

\* ShutdownServer: the ends of the other servers are disabled,
Disconnect ==
    /\ cfg = "up"
    /\ cfg' = "disconnected"
    /\ enabled' = [e \in End |-> enabled[e] /\ e \notin PeerEnd]
    /\ UNCHANGED <<done, server, started, saved, persister, disk, memory, call>>

\* the network forgets the server,
DeleteServer ==
    /\ cfg = "disconnected"
    /\ cfg' = "deleted"
    /\ server' = NoServer
    /\ UNCHANGED <<done, enabled, started, saved, persister, disk, memory, call>>

\* Persister.Copy
Copy ==
    /\ saved' = saved + 1
    /\ disk' = [disk EXCEPT ![saved + 1] = disk[saved]]

\* its Persister is superseded, and the instance is killed.
Supersede ==
    /\ cfg = "deleted"
    /\ cfg' = "down"
    /\ Copy
    /\ UNCHANGED <<network, started, persister, memory, call>>

\* StartServer: a fresh Persister and MakeServer, which reads it,
MakeServer ==
    /\ cfg = "down"
    /\ started < MaxStarts
    /\ cfg' = "made"
    /\ Copy
    /\ started' = started + 1
    /\ persister' = [persister EXCEPT ![started + 1] = saved']
    /\ memory' = [memory EXCEPT ![started + 1] = disk[saved]]
    /\ UNCHANGED <<network, call>>

\* and the network gets to know the new server.
AddServer ==
    /\ cfg = "made"
    /\ cfg' = "up"
    /\ server' = started
    /\ UNCHANGED <<done, enabled, started, saved, persister, disk, memory, call>>

\* cleanup kills the server, which stays known to the network, and destroys
\* the network.
Cleanup ==
    /\ cfg \in {"up", "down"}
    /\ done' = "closed"
    /\ UNCHANGED <<enabled, server, harness, disk, memory, call>>

\* The goroutine of MakeNetwork returns.
Stop ==
    /\ done = "closed"
    /\ done' = "seen"
    /\ UNCHANGED <<enabled, server, harness, disk, memory, call>>

-----------------------------------------------------------------------------
Labrpc(c) ==
    \/ Send(c) \/ Refuse(c) \/ processReq(c) \/ Drop(c)
    \/ ReceiveReply(c) \/ StopWaiting(c) \/ Check(c) \/ Return(c)

Harness ==
    /\ done = "open"
    /\ \/ \E e \in End : Enable(e)
       \/ Disconnect \/ DeleteServer \/ Supersede \/ MakeServer \/ AddServer \/ Cleanup

Next ==
    \/ \E c \in Caller : Call(c) \/ Labrpc(c) \/ dispatch(c)
    \/ Harness \/ Stop

\* The goroutines of labrpc are scheduled.  Handlers return, except those of
\* an instance that has been replaced: nothing in the network waits for them.
Handles(c) == call[c].instance = server /\ dispatch(c)

Fairness == \A c \in Caller : WF_vars(Labrpc(c)) /\ WF_vars(Handles(c))

Spec == Init /\ [][Next]_vars /\ Fairness

-----------------------------------------------------------------------------
CallState == [pc : {"idle", "calling", "sent", "waiting", "checking", "replying", "failing",
                    "true", "false"},
              end : End, instance : Instance \cup {NoServer},
              handler : {"none", "running", "returned"}]

\* Every call is in a state of labrpc's code and every handler runs in an
\* instance that has been started (labrpc.go:224-315).
TypeOK ==
    /\ done \in {"open", "closed", "seen"}
    /\ enabled \in [End -> BOOLEAN]
    /\ server \in Instance \cup {NoServer}
    /\ cfg \in {"up", "disconnected", "deleted", "down", "made"}
    /\ started \in Instance
    /\ saved \in Persister
    /\ disk \in [Persister -> SUBSET Caller]
    /\ persister \in [Instance -> Persister]
    /\ memory \in [Instance -> SUBSET Caller]
    /\ call \in [Caller -> CallState]
    /\ \A c \in Caller : call[c].handler # "none" => call[c].instance \in 1..started

\* What a caller has been told was done is in the Persister that the server
\* will be restarted from, however many restarts come between the handler and
\* the reply: processReq (labrpc.go:270-276) checks that "the server persisted
\* the update" not "into the old Persister", and ShutdownServer
\* (config.go:344-350) deletes the server before it supersedes the Persister.
AckedIsPersisted ==
    \A c \in Caller : call[c].pc = "true" => c \in disk[saved]

\* Every Call returns (labrpc.go:90-129): also when the server is stopped or
\* cut off while its handler runs, and when the network is destroyed.
CallsReturn ==
    \A c \in Caller : call[c].pc = "calling" ~> call[c].pc \in {"true", "false"}
=============================================================================
