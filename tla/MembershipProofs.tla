-------------------------- MODULE MembershipProofs --------------------------
(***************************************************************************)
(* Proofs about Membership: for any servers and any number of elections,   *)
(* lost calls and changes of others, the index of the leader stays in      *)
(* bounds, addSelf does not panic and a dead client has left.              *)
(***************************************************************************)
EXTENDS Membership, FiniteSetTheorems, TLAPS

Voting == {v \in SUBSET Server : Base \subseteq v}

Conf == [voting : Voting, provisional : SUBSET Server]

\* What is in the logs of the leaders, and what has been committed of it.
RaftType ==
    /\ leader \in Server \cup {Nil}
    /\ stale \subseteq Server /\ leader \notin stale
    /\ uncommitted \subseteq Server
    /\ committed \in Conf
    /\ conf \in [Server -> Conf \cup {Nil}]
    /\ \A s \in Server : Leads(s) \/ s \in uncommitted => conf[s] \in Conf
    /\ ~replaced => stale = {}
    /\ history \in Seq(Voting)
    /\ read \in Nat

ReadPc  == {"setActive", "read", "done"}
JoinPc  == {"none", "provision", "checkProvisional", "add", "checkAdd", "look", "looked", "done",
            "panic"}
LeavePc == {"none", "remove", "look", "looked", "done"}
Pc      == ReadPc \cup JoinPc \cup LeavePc

ClientType ==
    /\ currConf \in Seq(Server)
    /\ IndexInBounds
    /\ thread \in [Thread -> [pc : Pc, reply : Answers \cup {Refuse("LOST"), Nil}]]
    /\ \A t \in Thread : thread[t].reply # Nil => thread[t].pc \in Calling
    /\ thread["readUpdates"].pc \in ReadPc
    /\ thread["BecomeActive"].pc \in JoinPc
    /\ thread["BecomeInactive"].pc \in LeavePc
    /\ thread["readUpdates"].pc = "setActive" => thread["BecomeActive"].pc = "none"
    /\ dead => thread["BecomeInactive"].pc = "done"

\* The newest configuration, as long as no leader was replaced.
Newest == IF leader = Nil THEN committed ELSE conf[leader]

\* A client that is not leaving and has been told that it is provisional is
\* still provisional, or a member.
StaysProvisional ==
    ~replaced /\ thread["BecomeInactive"].pc = "none" =>
        LET pc == thread["BecomeActive"].pc
            r  == thread["BecomeActive"].reply
        IN /\ pc # "panic"
           /\ \/ pc \in {"checkProvisional", "add", "checkAdd", "look", "looked"}
              \/ pc = "provision" /\ r # Nil /\ r.Error \in {"OK", "ALREADY_IN_CONFIGURATION"}
              => Me \in Newest.voting \cup Newest.provisional
           /\ pc = "add" /\ r # Nil => r.Error # "NOT_PROVISIONAL"

\* A client that is not joining and has been told that it was removed is not a
\* member.
StaysRemoved ==
    ~replaced /\ thread["BecomeActive"].pc = "none" =>
        LET pc == thread["BecomeInactive"].pc
            r  == thread["BecomeInactive"].reply
        IN \/ pc \in {"look", "looked", "done"}
           \/ pc = "remove" /\ r # Nil /\ r.Error = "OK"
           => Me \notin Newest.voting

MembershipInv ==
    /\ RaftType
    /\ ClientType
    /\ StaysProvisional
    /\ StaysRemoved

-----------------------------------------------------------------------------
\* A configuration has a server, in whatever order its servers come.
LEMMA Orders ==
  ASSUME NEW v \in Voting
  PROVE  \A q \in mapToSlice(v) : q \in Seq(Server) /\ 0 \in 0 .. Len(q) - 1
<1>1. v \subseteq Server /\ v # {}
  BY MembershipAssumption DEF Voting
<1>2. IsFiniteSet(v)
  BY <1>1, FS_Subset, MembershipAssumption
<1>3. PICK n \in Nat : n = Cardinality(v) /\ n # 0
  BY <1>1, <1>2, FS_CardinalityType, FS_EmptySet
<1>4. mapToSlice(v) \subseteq [1 .. n -> v]
  BY <1>3 DEF mapToSlice, Injection
<1>5. \A q \in [1 .. n -> v] : q \in Seq(Server) /\ Len(q) = n
  BY <1>1, <1>3
<1>6. QED
  BY <1>3, <1>4, <1>5

\* At the start one server leads and no goroutine has called.
LEMMA MembershipInit == Init => MembershipInv
<1> SUFFICES ASSUME Init PROVE MembershipInv
  OBVIOUS
<1>1. PICK voting \in {Server, Server \ {Me}}, s \in Base :
        LET c == [voting |-> voting, provisional |-> {}] IN
        /\ leader = s
        /\ conf = [t \in Server |-> IF t = s THEN c ELSE Nil]
        /\ committed = c
        /\ history = <<voting>>
        /\ currConf \in mapToSlice(voting)
  BY DEF Init
<1>2. voting \in Voting /\ s \in Server /\ Nil \notin Server
  BY MembershipAssumption DEF Voting
<1>3. RaftType
  BY <1>1, <1>2 DEF Init, RaftType, Conf, Leads
<1>4. ClientType
  <2>1. currConf \in Seq(Server) /\ IndexInBounds
    BY <1>1, <1>2, Orders DEF Init, IndexInBounds
  <2>2. QED
    BY <2>1 DEF Init, ClientType, Pc, ReadPc, JoinPc, LeavePc, At, Thread
<1>5. StaysProvisional /\ StaysRemoved
  BY DEF Init, StaysProvisional, StaysRemoved, At, Thread
<1>6. QED
  BY <1>3, <1>4, <1>5 DEF MembershipInv

-----------------------------------------------------------------------------
\* The step leaves the client's own server where it is in the newest
\* configuration.
SameForMe ==
    ~replaced' =>
        /\ ~replaced
        /\ Me \in Newest'.voting <=> Me \in Newest.voting
        /\ Me \in Newest'.provisional <=> Me \in Newest.provisional

\* The newest configuration is one, with or without a leader.
LEMMA NewestIsConf == RaftType => Newest \in Conf
  BY MembershipAssumption DEF RaftType, Newest, Leads

\* A leader is elected.
LEMMA ElectStep ==
  ASSUME RaftType, NEW s \in Server, Elect(s)
  PROVE  RaftType' /\ SameForMe
<1>1. PICK c \in Conf :
        /\ conf' = [conf EXCEPT ![s] = c]
        /\ uncommitted' \subseteq uncommitted \cup {s}
        /\ leader = Nil => c = committed
  <2>1. CASE conf' = [conf EXCEPT ![s] = committed] /\ uncommitted' = uncommitted \ {s}
    <3>1. committed \in Conf
      BY DEF RaftType
    <3>2. QED
      BY <2>1, <3>1
  <2>2. CASE leader \in uncommitted /\ Configure(s, conf[leader])
    <3>1. conf[leader] \in Conf /\ leader # Nil
      BY <2>2, MembershipAssumption DEF RaftType
    <3>2. QED
      BY <2>2, <3>1 DEF Configure
  <2>3. QED
    BY <2>1, <2>2 DEF Elect
<1>2. /\ leader' = s /\ s # leader
      /\ stale' = (stale \cup {leader}) \ {s, Nil}
      /\ replaced' = (replaced \/ leader # Nil)
      /\ UNCHANGED <<committed, history, read>>
  BY DEF Elect
<1>3. /\ conf' \in [Server -> Conf \cup {Nil}] /\ conf'[s] = c
      /\ \A w \in Server \ {s} : conf'[w] = conf[w]
  BY <1>1 DEF RaftType
<1>4. \A w \in Server : Leads(w)' \/ w \in uncommitted' => conf'[w] \in Conf
  BY <1>1, <1>2, <1>3 DEF RaftType, Leads
<1>5. RaftType'
  <2>1. ~replaced' => ~replaced /\ leader = Nil
    BY <1>2
  <2>2. ~replaced' => stale' = {}
    BY <1>2, <2>1 DEF RaftType
  <2>3. leader' \in Server \cup {Nil} /\ stale' \subseteq Server /\ leader' \notin stale'
    BY <1>2 DEF RaftType
  <2>4. QED
    BY <1>1, <1>2, <1>3, <1>4, <2>2, <2>3 DEF RaftType
<1>6. SameForMe
  BY <1>1, <1>2, <1>3, MembershipAssumption DEF SameForMe, Newest
<1>7. QED
  BY <1>5, <1>6

\* A leader that was replaced hears of it.
LEMMA StepDownStep ==
  ASSUME RaftType, NEW s \in Server, StepDown(s)
  PROVE  RaftType' /\ SameForMe
<1>1. /\ s \in stale /\ s # leader
      /\ stale' = stale \ {s}
      /\ conf' = [conf EXCEPT ![s] = Nil] /\ uncommitted' = uncommitted \ {s}
      /\ UNCHANGED <<leader, committed, history, replaced, read>>
  BY DEF StepDown, Follow, RaftType
<1>2. /\ conf' \in [Server -> Conf \cup {Nil}]
      /\ \A w \in Server \ {s} : conf'[w] = conf[w]
  BY <1>1 DEF RaftType
<1>3. RaftType'
  BY <1>1, <1>2 DEF RaftType, Leads
<1>4. SameForMe
  BY <1>1, <1>2 DEF SameForMe, Newest, RaftType
<1>5. QED
  BY <1>3, <1>4

\* The leader commits what is in its log.
LEMMA CommitStep ==
  ASSUME RaftType, Commit
  PROVE  RaftType' /\ SameForMe
<1>1. /\ leader \in Server /\ conf[leader] \in Conf
      /\ committed' = conf[leader]
      /\ UNCHANGED <<stale, replaced, read>>
  BY DEF Commit, RaftType, Leads
<1>2. history' \in Seq(Voting)
  BY <1>1 DEF Commit, RaftType, Conf
<1>3. CASE leader \in conf[leader].voting
  <2>1. uncommitted' = uncommitted \ {leader} /\ UNCHANGED <<leader, conf>>
    BY <1>3 DEF Commit
  <2>2. RaftType'
    BY <1>1, <1>2, <2>1 DEF RaftType, Leads
  <2>3. QED
    BY <1>1, <2>1, <2>2, MembershipAssumption DEF SameForMe, Newest
<1>4. CASE leader \notin conf[leader].voting
  <2>1. /\ leader' = Nil /\ conf' = [conf EXCEPT ![leader] = Nil]
        /\ uncommitted' = uncommitted \ {leader}
    BY <1>4 DEF Commit, Follow
  <2>2. /\ conf' \in [Server -> Conf \cup {Nil}]
        /\ \A w \in Server \ {leader} : conf'[w] = conf[w]
    BY <1>1, <2>1 DEF RaftType
  <2>3. RaftType'
    BY <1>1, <1>2, <2>1, <2>2, MembershipAssumption DEF RaftType, Leads
  <2>4. QED
    BY <1>1, <2>1, <2>3, MembershipAssumption DEF SameForMe, Newest
<1>5. QED
  BY <1>3, <1>4

\* A leader appends a configuration.
LEMMA ConfigureStep ==
  ASSUME RaftType, NEW s \in Server, NEW c \in Conf, Configure(s, c), Leads(s),
         UNCHANGED <<leader, stale, committed, history, replaced, read>>
  PROVE  /\ RaftType'
         /\ ~replaced => Newest' = c
<1>1. conf' = [conf EXCEPT ![s] = c] /\ uncommitted' = uncommitted \cup {s}
  BY DEF Configure
<1>2. /\ conf' \in [Server -> Conf \cup {Nil}] /\ conf'[s] = c
      /\ \A w \in Server \ {s} : conf'[w] = conf[w]
  BY <1>1 DEF RaftType
<1>3. RaftType'
  BY <1>1, <1>2 DEF RaftType, Leads
<1>4. ~replaced => s = leader
  BY DEF RaftType, Leads
<1>5. ~replaced => Newest' = c
  BY <1>2, <1>4, MembershipAssumption DEF Newest
<1>6. QED
  BY <1>3, <1>5

\* Another server comes or goes.
LEMMA ChangeOtherStep ==
  ASSUME RaftType, NEW s \in Server, ChangeOther(s)
  PROVE  RaftType' /\ SameForMe
<1>1. leader \in Server /\ conf[leader] \in Conf /\ s \notin Base \cup {Me}
  BY DEF ChangeOther, RaftType, Leads
<1>2. PICK v : v = conf[leader].voting
  OBVIOUS
<1>3. PICK c : c = [conf[leader] EXCEPT !.voting = IF s \in v THEN v \ {s} ELSE v \cup {s}]
  OBVIOUS
<1>4. c \in Conf /\ (Me \in c.voting <=> Me \in v) /\ c.provisional = conf[leader].provisional
  BY <1>1, <1>2, <1>3 DEF Conf, Voting
<1>5. Configure(leader, c)
  BY <1>2, <1>3 DEF ChangeOther
<1>6. UNCHANGED <<leader, stale, committed, history, replaced, read>>
  BY DEF ChangeOther
<1>7. RaftType' /\ (~replaced => Newest' = c)
  BY <1>1, <1>4, <1>5, <1>6, ConfigureStep DEF Leads
<1>8. SameForMe
  BY <1>1, <1>2, <1>4, <1>6, <1>7, MembershipAssumption DEF SameForMe, Newest
<1>9. QED
  BY <1>7, <1>8

-----------------------------------------------------------------------------
\* Steps of Raft alone.
LEMMA RaftStep ==
  ASSUME MembershipInv,
         Commit \/ \E s \in Server : Elect(s) \/ StepDown(s) \/ ChangeOther(s)
  PROVE  MembershipInv'
<1>1. RaftType' /\ SameForMe
  BY CommitStep, ElectStep, StepDownStep, ChangeOtherStep DEF MembershipInv
<1>2. UNCHANGED <<currConf, lastKnownLeaderInd, dead, thread>>
  BY DEF Commit, Elect, StepDown, ChangeOther, known, status
<1>3. ClientType'
  BY <1>2 DEF MembershipInv, ClientType, IndexInBounds
<1>4. StaysProvisional' /\ StaysRemoved'
  BY <1>1, <1>2 DEF MembershipInv, SameForMe, StaysProvisional, StaysRemoved
<1>5. QED
  BY <1>1, <1>3, <1>4 DEF MembershipInv

\* Steps of the client that leave Raft and the goroutines alone.
LEMMA IndexStep ==
  ASSUME MembershipInv, SubmitOpsFails
  PROVE  MembershipInv'
<1>1. updateLeader /\ UNCHANGED <<raft, read, dead, thread>>
  BY DEF SubmitOpsFails, status
<1>2. currConf' \in Seq(Server) /\ IndexInBounds'
  BY <1>1 DEF MembershipInv, ClientType, IndexInBounds, updateLeader
<1>3. QED
  BY <1>1, <1>2 DEF MembershipInv, RaftType, ClientType, StaysProvisional, StaysRemoved,
                   Newest, Leads, raft

\* readUpdates reads a configuration.
LEMMA ReadConfigurationStep ==
  ASSUME MembershipInv, ReadConfiguration
  PROVE  MembershipInv'
<1>1. /\ read \in Nat /\ read' = read + 1 /\ read < Len(history)
      /\ currConf' \in mapToSlice(history[read']) /\ lastKnownLeaderInd' = 0
      /\ UNCHANGED <<raft, dead, thread>>
  BY DEF ReadConfiguration, ResetIndex, MembershipInv, RaftType
<1>2. history[read'] \in Voting
  BY <1>1 DEF MembershipInv, RaftType
<1>3. currConf' \in Seq(Server) /\ IndexInBounds'
  BY <1>1, <1>2, Orders DEF IndexInBounds
<1>4. RaftType'
  BY <1>1 DEF MembershipInv, RaftType, Leads, raft
<1>5. QED
  BY <1>1, <1>3, <1>4 DEF MembershipInv, ClientType, StaysProvisional, StaysRemoved,
                         Newest, raft

-----------------------------------------------------------------------------
\* What a call can do to Raft, depending on where its goroutine is, and what
\* it is told while no leader has been replaced.
LEMMA Served ==
  ASSUME MembershipInv, NEW pc \in Calling, NEW s \in Server, NEW r, Serves(pc, s, r),
         UNCHANGED <<leader, stale, committed, history, replaced, read>>
  PROVE  /\ RaftType'
         /\ ~replaced =>
              LET was == Newest.voting \cup Newest.provisional IN
              /\ pc # "remove" /\ Me \in was => Me \in Newest'.voting \cup Newest'.provisional
              /\ pc # "add" /\ Me \in Newest'.voting => Me \in Newest.voting
              /\ pc = "provision" /\ r.Error \in {"OK", "ALREADY_IN_CONFIGURATION"}
                    => Me \in Newest'.voting \cup Newest'.provisional
              /\ pc = "add" /\ Me \in was => r.Error # "NOT_PROVISIONAL"
              /\ pc = "remove" /\ r.Error = "OK" => Me \notin Newest'.voting
<1> DEFINE Same == UNCHANGED <<conf, uncommitted>>
           In(n) == n.voting \cup n.provisional
<1>0. RaftType
  BY DEF MembershipInv
<1>1. Same => RaftType' /\ Newest' = Newest
  BY <1>0 DEF RaftType, Leads, Newest
<1>2. ~replaced /\ Leads(s) => conf[s] = Newest
  BY <1>0, MembershipAssumption DEF RaftType, Leads, Newest
<1>3. Leads(s) => conf[s] \in Conf
  BY <1>0 DEF RaftType
<1>4. \A c \in Conf : Leads(s) /\ Configure(s, c) => RaftType' /\ (~replaced => Newest' = c)
  BY <1>0, ConfigureStep
<1>5. CASE pc \in {"setActive", "checkAdd", "checkProvisional"}
  <2>1. Same
    BY <1>5 DEF Serves, InConfiguration, Unchanged
  <2>2. QED
    BY <1>1, <1>5, <2>1
<1>6. CASE pc = "provision"
  <2>0. AddProvisional(s, r)
    BY <1>6 DEF Serves
  <2>1. CASE ~Leads(s)
    BY <1>1, <1>6, <2>0, <2>1 DEF AddProvisional, Unchanged, Refuse, Reply
  <2>2. CASE Leads(s) /\ Me \in In(conf[s])
    BY <1>1, <1>2, <1>6, <2>0, <2>2 DEF AddProvisional, Unchanged
  <2>3. CASE Leads(s) /\ Me \notin In(conf[s])
    <3>1. PICK c : c = [conf[s] EXCEPT !.provisional = conf[s].provisional \cup {Me}]
      OBVIOUS
    <3>2. c \in Conf /\ c.voting = conf[s].voting /\ Me \in c.provisional
      BY <1>3, <2>3, <3>1, MembershipAssumption DEF Conf
    <3>3. Configure(s, c)
      BY <2>0, <2>3, <3>1 DEF AddProvisional
    <3>4. QED
      BY <1>2, <1>4, <1>6, <2>3, <3>2, <3>3
  <2>4. QED
    BY <2>1, <2>2, <2>3
<1>7. CASE pc = "add"
  <2>0. AddServer(s, r)
    BY <1>7 DEF Serves
  <2>1. CASE Same /\ (~Leads(s) \/ Me \in In(conf[s])) /\ r.Error # "NOT_PROVISIONAL"
    BY <1>1, <1>7, <2>1
  <2>2. CASE Same /\ Leads(s) /\ Me \notin In(conf[s])
    BY <1>1, <1>2, <1>7, <2>2
  <2>3. CASE Leads(s) /\ Configure(s, [conf[s] EXCEPT !.voting = @ \cup {Me},
                                                     !.provisional = @ \ {Me}])
             /\ r = Refuse("OK")
    <3>1. PICK c : c = [conf[s] EXCEPT !.voting = @ \cup {Me}, !.provisional = @ \ {Me}]
      OBVIOUS
    <3>2. c \in Conf /\ Me \in c.voting
      BY <1>3, <2>3, <3>1, MembershipAssumption DEF Conf, Voting
    <3>3. r.Error # "NOT_PROVISIONAL"
      BY <2>3 DEF Refuse, Reply
    <3>4. QED
      BY <1>4, <1>7, <2>3, <3>1, <3>2, <3>3
  <2>4. QED
    BY <2>0, <2>1, <2>2, <2>3 DEF AddServer, Unchanged, Busy, Refuse, Reply
<1>8. CASE pc = "remove"
  <2>0. RemoveServer(s, r)
    BY <1>8 DEF Serves
  <2>1. CASE Same /\ r.Error # "OK"
    BY <1>1, <1>8, <2>1
  <2>2. CASE Same /\ Leads(s) /\ Me \notin conf[s].voting
    BY <1>1, <1>2, <1>8, <2>2
  <2>3. CASE Leads(s) /\ Configure(s, [conf[s] EXCEPT !.voting = @ \ {Me}])
    <3>1. PICK c : c = [conf[s] EXCEPT !.voting = @ \ {Me}]
      OBVIOUS
    <3>2. c \in Conf /\ Me \notin c.voting
      BY <1>3, <2>3, <3>1, MembershipAssumption DEF Conf, Voting
    <3>3. QED
      BY <1>4, <1>8, <2>3, <3>1, <3>2
  <2>4. QED
    BY <2>0, <2>1, <2>2, <2>3 DEF RemoveServer, Unchanged, Busy, Refuse, Reply
<1>9. QED
  BY <1>5, <1>6, <1>7, <1>8 DEF Calling

-----------------------------------------------------------------------------
\* A goroutine goes on, and what it relies on then holds.
Provisional ==
    ~replaced /\ thread["BecomeInactive"].pc = "none" => Me \in Newest.voting \cup Newest.provisional

Removed ==
    ~replaced /\ thread["BecomeActive"].pc = "none" => Me \notin Newest.voting

LEMMA GotoStep ==
  ASSUME MembershipInv, NEW t \in Thread, NEW pc \in Pc, Goto(t, pc),
         UNCHANGED <<raft, read, currConf, dead>>, IndexInBounds',
         t = "readUpdates" => pc \in ReadPc /\ (pc # "setActive" \/ thread[t].pc = "setActive"),
         t = "BecomeActive" =>
            /\ pc \in JoinPc
            /\ thread[t].pc # "none" /\ pc # "none"
            /\ pc = "panic" => replaced \/ thread["BecomeInactive"].pc # "none"
            /\ pc \in {"checkProvisional", "add", "checkAdd", "look", "looked"} => Provisional,
         t = "BecomeInactive" =>
            /\ pc \in LeavePc
            /\ ~dead /\ pc # "none"
            /\ pc \in {"look", "looked", "done"} => Removed
  PROVE  MembershipInv'
<1>1. /\ thread'[t] = [pc |-> pc, reply |-> Nil]
      /\ \A w \in Thread \ {t} : thread'[w] = thread[w]
      /\ thread' \in [Thread -> [pc : Pc, reply : Answers \cup {Refuse("LOST"), Nil}]]
  BY DEF Goto, At, MembershipInv, ClientType
<1>2. RaftType' /\ Newest' = Newest /\ replaced' = replaced
  BY DEF MembershipInv, RaftType, Leads, Newest, raft
<1>3. \/ t = "readUpdates" \/ t = "BecomeActive" \/ t = "BecomeInactive"
  BY DEF Thread
<1>4. {"readUpdates", "BecomeActive", "BecomeInactive"} = Thread
  BY DEF Thread
<1>5. ClientType'
  BY <1>1, <1>3, <1>4 DEF MembershipInv, ClientType
<1>6. StaysProvisional'
  BY <1>1, <1>2, <1>3, <1>4 DEF MembershipInv, StaysProvisional, Provisional
<1>7. StaysRemoved'
  BY <1>1, <1>2, <1>3, <1>4 DEF MembershipInv, StaysRemoved, Removed
<1>8. QED
  BY <1>2, <1>5, <1>6, <1>7 DEF MembershipInv

\* A goroutine calls a server, or loses its call.
LEMMA CallStep ==
  ASSUME MembershipInv, NEW t \in Thread, Call(t) \/ Lose(t)
  PROVE  MembershipInv'
<1>1. PICK r \in Answers \cup {Refuse("LOST")} :
        /\ thread' = [thread EXCEPT ![t].reply = r]
        /\ \/ r = Refuse("LOST") /\ UNCHANGED raft
           \/ Serves(thread[t].pc, currConf[lastKnownLeaderInd + 1], r)
  BY DEF Call, Lose
<1>2. /\ thread[t].pc \in Calling /\ ~dead
      /\ UNCHANGED <<leader, stale, committed, history, replaced, read, currConf,
                     lastKnownLeaderInd, dead>>
  BY DEF Call, Lose, raft, known, status
<1>3. PICK pc \in Calling : pc = thread[t].pc
  BY <1>2
<1>4. thread \in [Thread -> [pc : Pc, reply : Answers \cup {Refuse("LOST"), Nil}]]
  BY DEF MembershipInv, ClientType
<1>5. /\ thread'[t].pc = pc /\ thread'[t].reply = r
      /\ \A w \in Thread \ {t} : thread'[w] = thread[w]
      /\ thread' \in [Thread -> [pc : Pc, reply : Answers \cup {Refuse("LOST"), Nil}]]
  BY <1>1, <1>3, <1>4
<1>6. \/ t = "readUpdates" \/ t = "BecomeActive" \/ t = "BecomeInactive"
  BY DEF Thread
<1>7. {"readUpdates", "BecomeActive", "BecomeInactive"} = Thread
  BY DEF Thread
<1>8. ClientType'
  BY <1>2, <1>3, <1>5, <1>6, <1>7 DEF MembershipInv, ClientType, IndexInBounds
<1>9. CASE r = Refuse("LOST") /\ UNCHANGED raft
  <2>1. RaftType' /\ Newest' = Newest
    BY <1>2, <1>9 DEF MembershipInv, RaftType, Leads, Newest, raft
  <2>2. r.Error = "LOST"
    BY <1>9 DEF Refuse, Reply
  <2>3. StaysProvisional' /\ StaysRemoved'
    BY <1>2, <1>3, <1>5, <1>6, <1>7, <2>1, <2>2 DEF MembershipInv, StaysProvisional, StaysRemoved
  <2>4. QED
    BY <1>8, <2>1, <2>3 DEF MembershipInv
<1>10. CASE Serves(pc, currConf[lastKnownLeaderInd + 1], r)
  <2>1. PICK s \in Server : s = currConf[lastKnownLeaderInd + 1]
    BY DEF MembershipInv, ClientType, IndexInBounds
  <2>2. Serves(pc, s, r)
    BY <1>10, <2>1
  <2>3. /\ RaftType'
        /\ ~replaced =>
             LET was == Newest.voting \cup Newest.provisional IN
             /\ pc # "remove" /\ Me \in was => Me \in Newest'.voting \cup Newest'.provisional
             /\ pc # "add" /\ Me \in Newest'.voting => Me \in Newest.voting
             /\ pc = "provision" /\ r.Error \in {"OK", "ALREADY_IN_CONFIGURATION"}
                   => Me \in Newest'.voting \cup Newest'.provisional
             /\ pc = "add" /\ Me \in was => r.Error # "NOT_PROVISIONAL"
             /\ pc = "remove" /\ r.Error = "OK" => Me \notin Newest'.voting
    BY <1>2, <2>2, Served
  <2>4. CASE t = "readUpdates"
    <3>1. pc \notin {"remove", "add"}
      BY <1>3, <2>4 DEF MembershipInv, ClientType, ReadPc
    <3>2. QED
      BY <1>2, <1>5, <1>7, <1>8, <2>3, <2>4, <3>1 DEF MembershipInv, StaysProvisional, StaysRemoved
  <2>5. CASE t = "BecomeActive"
    <3>1. pc \notin {"remove", "none"}
      BY <1>3, <2>5 DEF MembershipInv, ClientType, JoinPc, Calling
    <3>2. StaysRemoved'
      BY <1>5, <2>5, <3>1 DEF StaysRemoved
    <3>3. StaysProvisional'
      BY <1>2, <1>3, <1>5, <1>7, <2>3, <2>5, <3>1 DEF MembershipInv, StaysProvisional, Calling
    <3>4. QED
      BY <1>8, <2>3, <3>2, <3>3 DEF MembershipInv
  <2>6. CASE t = "BecomeInactive"
    <3>1. pc = "remove"
      BY <1>3, <2>6 DEF MembershipInv, ClientType, LeavePc, Calling
    <3>2. StaysProvisional'
      BY <1>5, <2>6, <3>1 DEF StaysProvisional
    <3>3. StaysRemoved'
      BY <1>2, <1>5, <1>7, <2>3, <2>6, <3>1 DEF MembershipInv, StaysRemoved
    <3>4. QED
      BY <1>8, <2>3, <3>2, <3>3 DEF MembershipInv
  <2>7. QED
    BY <1>6, <2>4, <2>5, <2>6
<1>11. QED
  BY <1>1, <1>3, <1>9, <1>10

\* A goroutine tries the next server, or finds that the client is dead.
LEMMA AnyThreadStep ==
  ASSUME MembershipInv, NEW t \in Thread, TryNext(t) \/ Exit(t)
  PROVE  MembershipInv'
<1>1. /\ thread["readUpdates"].pc \in ReadPc
      /\ thread["BecomeActive"].pc \in JoinPc
      /\ thread["BecomeInactive"].pc \in LeavePc
      /\ thread["BecomeInactive"].pc = "done" \/ ~dead
      /\ thread[t] \in [pc : Pc, reply : Answers \cup {Refuse("LOST"), Nil}]
  BY DEF MembershipInv, ClientType
<1>2. \/ t = "readUpdates" \/ t = "BecomeActive" \/ t = "BecomeInactive"
  BY DEF Thread
<1>3. CASE TryNext(t)
  <2>1. PICK pc \in Pc : pc = thread[t].pc
    BY <1>1
  <2>2. /\ Goto(t, pc) /\ ~dead /\ thread[t].reply # Nil
        /\ thread[t].reply.Error \in {"LOST", "NOT_LEADER"}
        /\ UNCHANGED <<raft, read, currConf, dead>>
    BY <1>3, <2>1 DEF TryNext, updateLeader, Answer, status
  <2>3. IndexInBounds'
    BY <1>3 DEF MembershipInv, ClientType, IndexInBounds, TryNext, updateLeader
  <2>4. pc \in Calling
    BY <2>1, <2>2 DEF MembershipInv, ClientType
  <2>5. CASE t = "readUpdates"
    BY <1>1, <2>1, <2>2, <2>3, <2>5, GotoStep
  <2>6. CASE t = "BecomeActive"
    <3>1. pc \in JoinPc \ {"none", "panic"}
      BY <1>1, <2>1, <2>4, <2>6 DEF Calling
    <3>2. pc \in {"checkProvisional", "add", "checkAdd", "look", "looked"} => Provisional
      BY <2>1, <2>6 DEF MembershipInv, StaysProvisional, Provisional
    <3>3. QED
      BY <2>1, <2>2, <2>3, <2>6, <3>1, <3>2, GotoStep
  <2>7. CASE t = "BecomeInactive"
    <3>1. pc = "remove"
      BY <1>1, <2>1, <2>4, <2>7 DEF Calling, LeavePc
    <3>2. QED
      BY <2>2, <2>3, <2>7, <3>1, GotoStep DEF LeavePc
  <2>8. QED
    BY <1>2, <2>5, <2>6, <2>7
<1>4. CASE Exit(t)
  <2>1. /\ dead /\ thread[t].pc \in Calling
        /\ UNCHANGED <<raft, read, currConf, lastKnownLeaderInd, dead>>
    BY <1>4 DEF Exit, known, status
  <2>2. PICK pc \in {"panic", "done"} : Goto(t, pc) /\ (pc = "panic" => thread[t].pc = "add")
    BY <1>4 DEF Exit
  <2>3. t # "BecomeInactive" /\ thread["BecomeInactive"].pc = "done"
    BY <1>1, <2>1 DEF Calling
  <2>4. IndexInBounds'
    BY <2>1 DEF MembershipInv, ClientType, IndexInBounds
  <2>5. thread[t].pc # "none" /\ (t = "readUpdates" => pc = "done")
    BY <1>1, <2>1, <2>2 DEF Calling, ReadPc
  <2>6. QED
    BY <1>2, <2>1, <2>2, <2>3, <2>4, <2>5, GotoStep DEF Pc, ReadPc, JoinPc
<1>5. QED
  BY <1>3, <1>4

\* setActive has its answer: BecomeActive begins, or has nothing to do.
LEMMA SetActiveStep ==
  ASSUME MembershipInv, setActive
  PROVE  MembershipInv'
<1>1. /\ UNCHANGED <<raft, read, currConf, lastKnownLeaderInd, dead>>
      /\ thread["readUpdates"].pc = "setActive"
  BY DEF setActive, Heard, Answered, known
<1>2. thread["BecomeActive"].pc = "none"
  BY <1>1 DEF MembershipInv, ClientType
<1>3. PICK pc \in {"none", "provision"} :
        thread' = [thread EXCEPT !["readUpdates"] = At("read"), !["BecomeActive"] = At(pc)]
  BY DEF setActive
<1>4. /\ thread'["readUpdates"] = [pc |-> "read", reply |-> Nil]
      /\ thread'["BecomeActive"] = [pc |-> pc, reply |-> Nil]
      /\ thread'["BecomeInactive"] = thread["BecomeInactive"]
      /\ thread' \in [Thread -> [pc : Pc, reply : Answers \cup {Refuse("LOST"), Nil}]]
  BY <1>3 DEF MembershipInv, ClientType, At, Thread, Pc, ReadPc, JoinPc
<1>5. RaftType' /\ Newest' = Newest /\ replaced' = replaced
  BY <1>1 DEF MembershipInv, RaftType, Leads, Newest, raft
<1>6. ClientType'
  BY <1>1, <1>4 DEF MembershipInv, ClientType, IndexInBounds, ReadPc, JoinPc, Thread
<1>7. StaysProvisional'
  BY <1>4 DEF StaysProvisional
<1>8. StaysRemoved'
  BY <1>2, <1>4, <1>5 DEF MembershipInv, StaysRemoved
<1>9. QED
  BY <1>5, <1>6, <1>7, <1>8 DEF MembershipInv

\* BecomeActive goes on.
LEMMA JoinStep ==
  ASSUME MembershipInv,
         \/ attemptProvisional \/ checkMembership \/ AskAgain("BecomeActive", "add")
         \/ addSelf \/ AwaitActive
  PROVE  MembershipInv'
<1> DEFINE t == "BecomeActive"
<1>1. t \in Thread /\ UNCHANGED <<raft, read, currConf, lastKnownLeaderInd, dead>>
  BY DEF attemptProvisional, checkMembership, CheckYes, CheckTimesOut, CheckNo, AskAgain, addSelf,
         AwaitActive, known, status, Thread
<1>2. IndexInBounds'
  BY <1>1 DEF MembershipInv, ClientType, IndexInBounds
<1>3. \/ thread[t].pc \in {"checkProvisional", "add", "checkAdd", "look", "looked"}
      \/ /\ thread[t].pc = "provision" /\ thread[t].reply # Nil
         /\ thread[t].reply.Error \in {"OK", "ALREADY_IN_CONFIGURATION"}
  BY DEF attemptProvisional, checkMembership, CheckYes, CheckTimesOut, CheckNo, AskAgain, addSelf,
         AwaitActive, Heard, Answered, Answer
<1>4. PICK pc \in JoinPc \ {"none"} :
        /\ Goto(t, pc)
        /\ pc = "panic" => /\ thread[t].pc = "add" /\ thread[t].reply # Nil
                           /\ thread[t].reply.Error = "NOT_PROVISIONAL"
  BY DEF attemptProvisional, checkMembership, CheckYes, CheckTimesOut, CheckNo, AskAgain, addSelf,
         AwaitActive, Heard, Answered, Answer, JoinPc
<1>5. Provisional /\ thread[t].pc # "none"
  BY <1>3 DEF MembershipInv, StaysProvisional, Provisional
<1>6. pc = "panic" => replaced \/ thread["BecomeInactive"].pc # "none"
  BY <1>4 DEF MembershipInv, StaysProvisional
<1>7. QED
  BY <1>1, <1>2, <1>4, <1>5, <1>6, GotoStep DEF Pc

\* BecomeInactive begins or goes on.
LEMMA LeaveStep ==
  ASSUME MembershipInv,
         Kill \/ AskAgain("BecomeInactive", "remove") \/ removeSelf \/ AwaitInactive
  PROVE  MembershipInv'
<1> DEFINE t == "BecomeInactive"
<1>1. /\ t \in Thread /\ UNCHANGED <<raft, read, currConf, lastKnownLeaderInd, dead>>
      /\ thread[t].pc # "done"
  BY DEF Kill, AskAgain, removeSelf, AwaitInactive, known, status, Thread, Heard, Answered
<1>2. IndexInBounds' /\ ~dead
  BY <1>1 DEF MembershipInv, ClientType, IndexInBounds
<1>3. PICK pc \in LeavePc \ {"none"} :
        /\ Goto(t, pc)
        /\ pc # "remove" => \/ thread[t].pc \in {"look", "looked"}
                            \/ /\ thread[t].pc = "remove" /\ thread[t].reply # Nil
                               /\ thread[t].reply.Error = "OK"
  BY DEF Kill, AskAgain, removeSelf, AwaitInactive, Heard, Answered, Answer, LeavePc
<1>4. pc # "remove" => Removed
  BY <1>3 DEF MembershipInv, StaysRemoved, Removed
<1>5. QED
  BY <1>1, <1>2, <1>3, <1>4, GotoStep DEF Pc

\* The client is dead.
LEMMA DieStep ==
  ASSUME MembershipInv, Die
  PROVE  MembershipInv'
<1>1. /\ UNCHANGED <<raft, read, currConf, lastKnownLeaderInd, thread>>
      /\ thread["BecomeInactive"].pc = "done"
  BY DEF Die, known
<1>2. QED
  BY <1>1 DEF MembershipInv, RaftType, ClientType, IndexInBounds, StaysProvisional, StaysRemoved,
              Newest, Leads, raft

\* Every step keeps the invariant.
LEMMA MembershipStep == MembershipInv /\ [Next]_vars => MembershipInv'
<1> SUFFICES ASSUME MembershipInv, [Next]_vars PROVE MembershipInv'
  OBVIOUS
<1>1. CASE UNCHANGED vars
  BY <1>1 DEF vars, raft, known, status, MembershipInv, RaftType, ClientType, IndexInBounds,
              StaysProvisional, StaysRemoved, Newest, Leads
<1>2. CASE \E t \in Thread : Step(t) \/ Lose(t)
  BY <1>2, CallStep, AnyThreadStep DEF Step
<1>3. CASE setActive \/ ReadConfiguration \/ SubmitOpsFails
  BY <1>3, SetActiveStep, ReadConfigurationStep, IndexStep
<1>4. CASE \/ attemptProvisional \/ checkMembership \/ AskAgain("BecomeActive", "add")
           \/ addSelf \/ AwaitActive
  BY <1>4, JoinStep
<1>5. CASE Kill \/ AskAgain("BecomeInactive", "remove") \/ removeSelf \/ AwaitInactive \/ Die
  BY <1>5, LeaveStep, DieStep
<1>6. CASE Commit \/ \E s \in Server : Elect(s) \/ StepDown(s) \/ ChangeOther(s)
  BY <1>6, RaftStep
<1>7. {"readUpdates", "BecomeActive", "BecomeInactive"} \subseteq Thread
  BY DEF Thread
<1>8. QED
  BY <1>1, <1>2, <1>3, <1>4, <1>5, <1>6, <1>7 DEF Next, ReadUpdates, BecomeActive, BecomeInactive

\* Whatever leaders and configurations come and go, what the goroutines of the
\* client were told by the newest leader stays true (client.go:634-660,
\* clientconfigurationchange.go).
THEOREM MembershipInvariance == Spec => []MembershipInv
  BY MembershipInit, MembershipStep, PTL DEF Spec

\* currConf[lastKnownLeaderInd] is never out of bounds (client.go:126, 648, 748).
THEOREM IndexStaysInBounds == Spec => []IndexInBounds
<1>1. MembershipInv => IndexInBounds
  BY DEF MembershipInv, ClientType
<1>2. QED
  BY MembershipInvariance, <1>1, PTL

\* addSelf does not panic while the client is not being killed and no leader is
\* replaced (clientconfigurationchange.go:131).
THEOREM AddSelfIsSafe == Spec => []AddsOnlyProvisional
<1>1. MembershipInv => AddsOnlyProvisional
  BY DEF MembershipInv, StaysProvisional, AddsOnlyProvisional
<1>2. QED
  BY MembershipInvariance, <1>1, PTL

\* A client that was a member from the start is not one when Kill is over, while
\* no leader is replaced (clientconfigurationchange.go:150-171).
THEOREM KillLeaves == Spec => []DeadClientsHaveLeft
<1>1. MembershipInv => DeadClientsHaveLeft
  BY DEF MembershipInv, ClientType, StaysRemoved, DeadClientsHaveLeft, Newest
<1>2. QED
  BY MembershipInvariance, <1>1, PTL
=============================================================================
