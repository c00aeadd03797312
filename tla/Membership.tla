----------------------------- MODULE Membership -----------------------------
(***************************************************************************)
(* How a client follows and changes Raft's configuration: setActive and    *)
(* the configuration branch of readUpdates, BecomeActive, BecomeInactive   *)
(* and the end of Kill (anonbcast/client.go, clientconfigurationchange.go),*)
(* with the handlers they call (serverconfigurationchange.go).             *)
(*                                                                         *)
(* Raft is external; what is assumed of it is in the first section.  Time  *)
(* is not modelled: a loop with a timeout may end after any iteration.     *)
(***************************************************************************)
EXTENDS Naturals, Sequences, FiniteSets, Functions

CONSTANTS Server,
          Me,           \* the client's own server, its serverId
          Base,         \* servers that are always in the configuration
          Nil,
          MaxTrouble    \* bound: elections, lost calls and the like

ASSUME MembershipAssumption ==
    /\ IsFiniteSet(Server) /\ Me \in Server
    /\ Base \subseteq Server \ {Me} /\ Base # {}
    /\ Nil \notin Server
    /\ MaxTrouble \in Nat

VARIABLES leader,       \* the newest leader, or Nil
          stale,        \* servers that were replaced and still believe they lead
          conf,         \* conf[s]: the newest configuration in the log of leader s
          uncommitted,  \* the leaders whose newest configuration is not committed
          fresh,        \* the newest leader has committed nothing in its term
          committed,    \* the committed configuration
          history,      \* the sets of voting servers that were committed
          replaced,     \* a leader has been replaced
          trouble,      \* how often the bounded steps have happened
          active, leaving, currConf, lastKnownLeaderInd, dead,  \* fields of Client
          read,         \* how many configurations readUpdates has read
          thread        \* thread[t]: where the goroutine t is, and its call

raft   == <<leader, stale, conf, uncommitted, fresh, committed, history, replaced>>
known  == <<currConf, lastKnownLeaderInd>>
status == <<active, leaving, dead>>
vars   == <<raft, trouble, known, status, read, thread>>

Trouble == trouble < MaxTrouble /\ trouble' = trouble + 1

-----------------------------------------------------------------------------
(* Raft: a leader acts on the newest configuration in its log, committed or *)
(* not, and a leader that was replaced does not know it at once.            *)

Leads(s) == s = leader \/ s \in stale

\* Leader s appends configuration c to its log.
Configure(s, c) ==
    /\ conf' = [conf EXCEPT ![s] = c]
    /\ uncommitted' = uncommitted \cup {s}

Follow(s) ==
    /\ conf' = [conf EXCEPT ![s] = Nil]
    /\ uncommitted' = uncommitted \ {s}

\* The new leader may have what the last one had not committed.
Elect(s) ==
    /\ IF leader = Nil THEN UNCHANGED trouble ELSE Trouble
    /\ s # leader /\ s \in committed.voting
    /\ leader' = s
    /\ stale' = (stale \cup {leader}) \ {s, Nil}
    /\ fresh' = TRUE
    /\ replaced' = (replaced \/ leader # Nil)
    /\ \/ /\ conf' = [conf EXCEPT ![s] = committed]
          /\ uncommitted' = uncommitted \ {s}
       \/ leader \in uncommitted /\ Configure(s, conf[leader])
    /\ UNCHANGED <<committed, history, known, status, read, thread>>

\* A replaced leader hears of the new term.
StepDown(s) ==
    /\ s \in stale
    /\ stale' = stale \ {s}
    /\ Follow(s)
    /\ UNCHANGED <<leader, fresh, committed, history, replaced, trouble, known, status, read,
                   thread>>

\* The leader commits its log, and steps down if it is not a member any more.
\* Servers hear of the voting servers.
Commit ==
    /\ leader # Nil
    /\ fresh \/ leader \in uncommitted
    /\ fresh' = FALSE
    /\ committed' = conf[leader]
    /\ history' = IF committed'.voting = committed.voting THEN history
                  ELSE Append(history, committed'.voting)
    /\ \/ /\ leader \in conf[leader].voting
          /\ uncommitted' = uncommitted \ {leader}
          /\ UNCHANGED <<leader, conf>>
       \/ /\ leader \notin conf[leader].voting
          /\ leader' = Nil
          /\ Follow(leader)
    /\ UNCHANGED <<stale, replaced, trouble, known, status, read, thread>>

\* Another server joins or leaves.
ChangeOther(s) ==
    /\ Trouble
    /\ s \notin Base \cup {Me}
    /\ leader # Nil /\ ~fresh /\ leader \notin uncommitted
    /\ LET c == conf[leader] IN
       Configure(leader, [c EXCEPT !.voting = IF s \in @ THEN @ \ {s} ELSE @ \cup {s}])
    /\ UNCHANGED <<leader, stale, fresh, committed, history, replaced, known, status, read,
                   thread>>

-----------------------------------------------------------------------------
(* The handlers of server s.  A reply has an error, where "OK" stands for   *)
(* AR_OK, AR_ALREADY_COMPLETE, AP_SUCCESS and AP_ALREADY_PROVISIONAL.       *)

Reply(error, in) == [Error |-> error, InConfiguration |-> in]

Refuse(error) == Reply(error, FALSE)

Unchanged == UNCHANGED <<conf, uncommitted, trouble>>

\* What a leader of a new term, or with a change under way, answers.
Busy(s) == (IF s = leader /\ fresh THEN {Refuse("NEW_LEADER")} ELSE {})
           \cup (IF s \in uncommitted THEN {Refuse("CONCURRENT_CHANGE")} ELSE {})

InConfiguration(s, isProvisionalReq, r) ==
    /\ r = IF Leads(s) THEN Reply("OK", Me \in IF isProvisionalReq THEN conf[s].provisional
                                               ELSE conf[s].voting)
           ELSE Refuse("NOT_LEADER")
    /\ Unchanged

AddProvisional(s, r) ==
    IF ~Leads(s) THEN r = Refuse("NOT_LEADER") /\ Unchanged
    ELSE IF Me \in conf[s].voting
         THEN r = Refuse("ALREADY_IN_CONFIGURATION") /\ Unchanged
    ELSE /\ r = Refuse("OK")
         /\ IF Me \in conf[s].provisional THEN Unchanged
            ELSE /\ Configure(s, [conf[s] EXCEPT !.provisional = @ \cup {Me}])
                 /\ UNCHANGED trouble

\* AddServer, for IsAdd.
AddServer(s, r) ==
    IF ~Leads(s) THEN r = Refuse("NOT_LEADER") /\ Unchanged
    ELSE \/ Me \in conf[s].voting /\ r = Refuse("OK") /\ Unchanged
         \/ r \in Busy(s) /\ Unchanged
         \/ /\ Me \notin conf[s].voting \cup conf[s].provisional
            /\ r = Refuse("NOT_PROVISIONAL")
            /\ Unchanged
         \/ /\ Me \in conf[s].provisional /\ Busy(s) = {}
            /\ \/ /\ r = Refuse("NOT_CAUGHT_UP")
                  /\ Trouble
                  /\ UNCHANGED <<conf, uncommitted>>
               \/ /\ r = Refuse("OK")
                  /\ Configure(s, [conf[s] EXCEPT !.voting = @ \cup {Me},
                                                  !.provisional = @ \ {Me}])
                  /\ UNCHANGED trouble

\* RemoveServer, otherwise.
RemoveServer(s, r) ==
    IF ~Leads(s) THEN r = Refuse("NOT_LEADER") /\ Unchanged
    ELSE \/ Me \notin conf[s].voting /\ r = Refuse("OK") /\ Unchanged
         \/ r \in Busy(s) /\ Unchanged
         \/ /\ Me \in conf[s].voting /\ Busy(s) = {}
            /\ r = Refuse("OK")
            /\ Configure(s, [conf[s] EXCEPT !.voting = @ \ {Me}])
            /\ UNCHANGED trouble
-----------------------------------------------------------------------------
(* Calls: a goroutine calls potentialLeader without the mutex, and handles  *)
(* the reply later.                                                         *)

Thread == {"readUpdates", "BecomeActive", "BecomeInactive"}

\* The call that a goroutine makes when it is at pc.
Serves(pc, s, r) ==
    CASE pc \in {"setActive", "checkAdd"} -> InConfiguration(s, FALSE, r)
      [] pc = "checkProvisional"          -> InConfiguration(s, TRUE, r)
      [] pc = "provision"                 -> AddProvisional(s, r)
      [] pc = "add"                       -> AddServer(s, r)
      [] pc = "remove"                    -> RemoveServer(s, r)

Calling == {"setActive", "provision", "checkProvisional", "add", "checkAdd", "remove"}

At(pc) == [pc |-> pc, reply |-> Nil]

Answers == [Error : {"OK", "NOT_LEADER", "NEW_LEADER", "CONCURRENT_CHANGE", "NOT_PROVISIONAL",
                     "NOT_CAUGHT_UP", "ALREADY_IN_CONFIGURATION"},
            InConfiguration : BOOLEAN]

\* potentialLeader := c.currConf[c.lastKnownLeaderInd], which counts from 0
Call(t) ==
    /\ thread[t].pc \in Calling /\ thread[t].reply = Nil
    /\ ~dead
    /\ \E r \in Answers :
          /\ Serves(thread[t].pc, currConf[lastKnownLeaderInd + 1], r)
          /\ thread' = [thread EXCEPT ![t].reply = r]
    /\ UNCHANGED <<leader, stale, fresh, committed, history, replaced, known, status, read>>

\* The call fails, before or after the handler has run.
Lose(t) ==
    /\ thread[t].pc \in Calling /\ ~dead
    /\ Trouble
    /\ thread' = [thread EXCEPT ![t].reply = Refuse("LOST")]
    /\ UNCHANGED <<raft, known, status, read>>

-----------------------------------------------------------------------------
(* The client *)

updateLeader ==
    /\ lastKnownLeaderInd' = (lastKnownLeaderInd + 1) % Len(currConf)
    /\ UNCHANGED currConf

\* submitOps gives up on the server it has called.
SubmitOpsFails ==
    /\ Trouble
    /\ ~dead
    /\ updateLeader
    /\ UNCHANGED <<raft, status, read, thread>>

Answer(t) == thread[t].reply

Answered(t, pc) == thread[t].pc = pc /\ Answer(t) # Nil /\ ~dead

Goto(t, pc) == thread' = [thread EXCEPT ![t] = At(pc)]

\* !ok, or the server does not lead: try the next one.
TryNext(t) ==
    /\ thread[t].reply # Nil /\ ~dead
    /\ Answer(t).Error \in {"LOST", "NOT_LEADER"}
    /\ updateLeader
    /\ Goto(t, thread[t].pc)
    /\ UNCHANGED <<raft, trouble, status, read>>

Heard(t, pc) == Answered(t, pc) /\ Answer(t).Error \notin {"LOST", "NOT_LEADER"}

\* Mutant: BecomeActive begins with addSelf.
setActiveAdds ==
    LET member == Answer("readUpdates").InConfiguration IN
    /\ Heard("readUpdates", "setActive")
    /\ active' = member
    /\ thread' = [thread EXCEPT !["readUpdates"] = At("read"),
                                !["BecomeActive"] = At(IF member THEN "none" ELSE "add")]
    /\ UNCHANGED <<raft, trouble, known, leaving, dead, read>>
setActive ==
    LET member == Answer("readUpdates").InConfiguration IN
    /\ Heard("readUpdates", "setActive")
    /\ active' = member
    /\ thread' = [thread EXCEPT !["readUpdates"] = At("read"),
                                !["BecomeActive"] = At(IF member THEN "none" ELSE "provision")]
    /\ UNCHANGED <<raft, trouble, known, leaving, dead, read>>

\* Mutant: the index stays where it was in the last configuration.
KeepIndex == UNCHANGED lastKnownLeaderInd
\* c.lastKnownLeaderInd = 0: "reset this to avoid OOB errors"
ResetIndex == lastKnownLeaderInd' = 0

\* The order of a slice made from a map is any order.
mapToSlice(servers) == Injection(1 .. Cardinality(servers), servers)

\* The configuration branch of readUpdates.
ReadConfiguration ==
    /\ thread["readUpdates"].pc = "read" /\ ~dead
    /\ read < Len(history)
    /\ read' = read + 1
    /\ LET voting == history[read'] IN
       /\ active' = (Me \in voting)
       /\ leaving' = (leaving /\ Me \in voting)
       /\ currConf' \in mapToSlice(voting)
    /\ ResetIndex
    /\ UNCHANGED <<raft, trouble, dead, thread>>

attemptProvisional ==
    /\ Heard("BecomeActive", "provision")
    /\ \/ /\ Answer("BecomeActive").Error = "ALREADY_IN_CONFIGURATION"
          /\ active' = TRUE
          /\ Goto("BecomeActive", "add")
       \/ /\ Answer("BecomeActive").Error = "OK"
          /\ Goto("BecomeActive", "checkProvisional")
          /\ UNCHANGED active
    /\ UNCHANGED <<raft, trouble, known, leaving, dead, read>>

\* checkMembership asks until the answer is yes, or a second is over.
CheckYes(pc, yes) ==
    /\ Heard("BecomeActive", pc)
    /\ Answer("BecomeActive").InConfiguration
    /\ Goto("BecomeActive", yes)
    /\ UNCHANGED <<raft, trouble, known, status, read>>

CheckNo(pc, next) ==
    /\ Heard("BecomeActive", pc)
    /\ ~Answer("BecomeActive").InConfiguration
    /\ Goto("BecomeActive", next)
    /\ UNCHANGED <<raft, trouble, known, status, read>>

CheckTimesOut == CheckNo("checkProvisional", "provision") \/ CheckNo("checkAdd", "add")

checkMembership == \/ CheckYes("checkProvisional", "add")
                   \/ CheckYes("checkAdd", "look")
                   \/ CheckNo("checkProvisional", "checkProvisional")
                   \/ CheckNo("checkAdd", "checkAdd")
                   \/ CheckTimesOut

\* attemptAddRemove asks again when the leader is busy.
AskAgain(t, pc) ==
    /\ Heard(t, pc)
    /\ Answer(t).Error \in {"NEW_LEADER", "CONCURRENT_CHANGE"}
    /\ Goto(t, pc)
    /\ UNCHANGED <<raft, trouble, known, status, read>>

addSelf ==
    LET error == Answer("BecomeActive").Error IN
    /\ Heard("BecomeActive", "add")
    /\ \/ error = "NOT_PROVISIONAL" /\ Goto("BecomeActive", "panic")
       \/ /\ error \in {"OK", "NOT_CAUGHT_UP"}
          /\ Goto("BecomeActive", IF active THEN "look" ELSE "checkAdd")
    /\ UNCHANGED <<raft, trouble, known, status, read>>

\* BecomeActive looks at active at least once, and again until two seconds are
\* over.
AwaitActive ==
    /\ thread["BecomeActive"].pc \in {"look", "looked"}
    /\ \/ active /\ Goto("BecomeActive", "done")
       \/ ~active /\ thread["BecomeActive"].pc = "look" /\ Goto("BecomeActive", "looked")
       \/ thread["BecomeActive"].pc = "looked" /\ Goto("BecomeActive", "add")
    /\ UNCHANGED <<raft, trouble, known, status, read>>

\* Kill, or rather BecomeInactive, begins.
Kill ==
    /\ thread["BecomeInactive"].pc = "none"
    /\ leaving' = TRUE
    /\ Goto("BecomeInactive", "remove")
    /\ UNCHANGED <<raft, trouble, known, active, dead, read>>

\* Mutant: any answer of the leader will do.
removeSelfOnce ==
    /\ Heard("BecomeInactive", "remove")
    /\ active' = FALSE
    /\ Goto("BecomeInactive", "look")
    /\ UNCHANGED <<raft, trouble, known, leaving, dead, read>>
\* Mutant: waits for an update that says that the client is not active.
removeSelfWaits ==
    /\ Heard("BecomeInactive", "remove")
    /\ Answer("BecomeInactive").Error = "OK"
    /\ Goto("BecomeInactive", "look")
    /\ UNCHANGED <<raft, trouble, known, status, read>>
\* RemoveServer has no errors but the ones that attemptAddRemove handles.
removeSelf ==
    /\ Heard("BecomeInactive", "remove")
    /\ Answer("BecomeInactive").Error = "OK"
    /\ active' = FALSE
    /\ Goto("BecomeInactive", "look")
    /\ UNCHANGED <<raft, trouble, known, leaving, dead, read>>

AwaitInactive ==
    /\ thread["BecomeInactive"].pc \in {"look", "looked"}
    /\ \/ ~active /\ Goto("BecomeInactive", "done")
       \/ active /\ thread["BecomeInactive"].pc = "look" /\ Goto("BecomeInactive", "looked")
       \/ thread["BecomeInactive"].pc = "looked" /\ Goto("BecomeInactive", "remove")
    /\ UNCHANGED <<raft, trouble, known, status, read>>

\* The end of Kill.
Die ==
    /\ thread["BecomeInactive"].pc = "done" /\ ~dead
    /\ dead' = TRUE
    /\ UNCHANGED <<raft, trouble, known, active, leaving, read, thread>>

\* A goroutine finds that the client is dead, at the latest when its call
\* returns.  addSelf looks at the error first.
Exit(t) ==
    /\ dead
    /\ thread[t].pc \in Calling
    /\ Goto(t, IF thread[t].pc = "add" /\ Answer(t) # Nil /\ Answer(t).Error = "NOT_PROVISIONAL"
               THEN "panic" ELSE "done")
    /\ UNCHANGED <<raft, trouble, known, status, read>>

-----------------------------------------------------------------------------

\* NewClient with the present configuration as seedConf, in any order.
Init ==
    /\ \E voting \in {Server, Server \ {Me}}, s \in Base :
          LET c == [voting |-> voting, provisional |-> {}] IN
          /\ leader = s
          /\ conf = [t \in Server |-> IF t = s THEN c ELSE Nil]
          /\ committed = c
          /\ history = <<voting>>
          /\ currConf \in mapToSlice(voting)
    /\ stale = {} /\ uncommitted = {} /\ fresh = FALSE /\ replaced = FALSE
    /\ trouble = 0
    /\ active = FALSE /\ leaving = FALSE /\ dead = FALSE
    /\ lastKnownLeaderInd = 0
    /\ read = 1
    /\ thread = [t \in Thread |-> At(IF t = "readUpdates" THEN "setActive" ELSE "none")]

Step(t) == Call(t) \/ TryNext(t) \/ Exit(t)

ReadUpdates == Step("readUpdates") \/ setActive

BecomeActive == \/ Step("BecomeActive")
                \/ attemptProvisional
                \/ checkMembership
                \/ AskAgain("BecomeActive", "add")
                \/ addSelf
                \/ AwaitActive

BecomeInactive == \/ Step("BecomeInactive")
                  \/ AskAgain("BecomeInactive", "remove")
                  \/ removeSelf
                  \/ AwaitInactive
                  \/ Die

Next ==
    \/ ReadUpdates \/ BecomeActive \/ BecomeInactive
    \/ ReadConfiguration
    \/ SubmitOpsFails
    \/ Kill
    \/ Commit
    \/ \E s \in Server : Elect(s) \/ StepDown(s) \/ ChangeOther(s)
    \/ \E t \in Thread : Lose(t)

RaftGoesOn ==
    \/ Commit
    \/ leader = Nil /\ \E s \in Server : Elect(s)
    \/ \E s \in Server : StepDown(s)

Receives == Me \in committed.voting \cup committed.provisional

(***************************************************************************)
(* Every goroutine goes on, and the second of checkMembership comes to its *)
(* end.  Raft commits, replaced leaders hear of the new term and members   *)
(* get the committed configurations; a cluster without leader elects one.  *)
(***************************************************************************)
Fairness ==
    /\ WF_vars(ReadUpdates \/ (Receives /\ ReadConfiguration))
    /\ WF_vars(BecomeActive) /\ SF_vars(CheckTimesOut)
    /\ WF_vars(BecomeInactive)
    /\ WF_vars(RaftGoesOn)

Spec == Init /\ [][Next]_vars /\ Fairness

-----------------------------------------------------------------------------
(* Properties *)

\* The index of the leader is one of currConf: submitOp and the others read
\* currConf[lastKnownLeaderInd] without a check, whatever configuration came
\* while they called (client.go:126, 746-750, "reset this to avoid OOB errors"
\* 648).
IndexInBounds == lastKnownLeaderInd \in 0 .. Len(currConf) - 1

\* "Add without becoming provisional shouldn't occur" (clientconfigurationchange
\* .go:131): addSelf does not panic, as long as the client is not being killed
\* and its provisional status was not given by a leader that was replaced.
AddsOnlyProvisional ==
    thread["BecomeActive"].pc = "panic" =>
        replaced \/ thread["BecomeInactive"].pc # "none"

\* Kill makes the server leave: when a client that was a member from the start
\* is dead, its server is not in the configuration, or will not be, unless a
\* leader that was replaced has answered (clientconfigurationchange.go:150-171).
DeadClientsHaveLeft ==
    dead /\ ~replaced /\ thread["BecomeActive"].pc = "none" =>
        Me \notin (IF leader = Nil THEN committed ELSE conf[leader]).voting

Polls(t) == thread[t].pc \notin {"none", "read", "done", "panic"}

\* setActive, BecomeActive and BecomeInactive come to an end when they poll
\* alone, though each waits for a leader that it must find, and for a flag that
\* other goroutines set (clientconfigurationchange.go:17-28, 177-228).  Together
\* they share lastKnownLeaderInd and can keep each other from the leader.
MembershipSettles ==
    LET killing == thread["BecomeInactive"].pc # "none"
        joining == Polls("readUpdates") \/ Polls("BecomeActive") IN
    /\ joining ~> (~joining \/ killing)
    /\ (killing /\ ~joining) ~> dead
=============================================================================
