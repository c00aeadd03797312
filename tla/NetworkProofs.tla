--------------------------- MODULE NetworkProofs ----------------------------
(***************************************************************************)
(* Proofs about Network: for any number of callers, ends and restarts,     *)
(* what a caller has been told was done survives in the Persister.         *)
(***************************************************************************)
EXTENDS Network, TLAPS

\* The Persisters are numbered in the order in which they are made, and the
\* last one is that of the newest instance unless it has been superseded.
PersistersInOrder ==
    /\ saved = IF cfg = "down" THEN 2 * started ELSE 2 * started - 1
    /\ \A k \in 1..started : persister[k] <= saved
    /\ cfg = "down" => \A k \in 1..started : persister[k] < saved
    /\ cfg # "down" => /\ \A k \in 1..started : persister[k] = saved <=> k = started
                       /\ disk[saved] = memory[started]

\* The network knows no instance but the newest, and only while its Persister
\* is the one that is saved.
OnlyNewestIsKnown ==
    server = IF cfg \in {"up", "disconnected"} THEN started ELSE NoServer

\* A handler that has returned has changed its instance, and processReq goes
\* on to its last check only with the reply of such a handler.
HandlersHaveSaved ==
    \A c \in Caller : /\ call[c].handler = "returned" => c \in memory[call[c].instance]
                      /\ call[c].pc = "checking" => call[c].handler = "returned"

\* From the last check of processReq on, the request is in the saved state.
RepliesArePersisted ==
    \A c \in Caller : call[c].pc \in {"replying", "true"} => c \in disk[saved]

NetworkInv ==
    /\ TypeOK
    /\ PersistersInOrder
    /\ OnlyNewestIsKnown
    /\ HandlersHaveSaved
    /\ RepliesArePersisted

-----------------------------------------------------------------------------
\* The initial states satisfy the invariant.
LEMMA NetworkInvInit == Init => NetworkInv
  BY NetworkAssumption
  DEF Init, NetworkInv, TypeOK, PersistersInOrder, OnlyNewestIsKnown, HandlersHaveSaved,
      RepliesArePersisted, Instance, Persister, NoServer, CallState

\* A step of a Call or of its processReq, which touches nothing but that call.
LEMMA LabrpcStep ==
  ASSUME NetworkInv, NEW c \in Caller, Call(c) \/ Labrpc(c)
  PROVE  NetworkInv'
<1>1. /\ UNCHANGED <<done, enabled, server, cfg, started, saved, persister, disk, memory>>
  BY DEF Labrpc, Call, Send, Refuse, processReq, Drop, ReceiveReply, StopWaiting, Check, Return,
         network, harness
<1>2. \A d \in Caller \ {c} : call'[d] = call[d]
  BY DEF NetworkInv, TypeOK, Labrpc, Call, Send, Refuse, processReq, Drop, ReceiveReply,
         StopWaiting, Check, Return, Goto
<1>3. TypeOK' /\ HandlersHaveSaved' /\ RepliesArePersisted'
  <2> USE <1>1, <1>2 DEF NetworkInv, TypeOK, CallState, HandlersHaveSaved, RepliesArePersisted, Goto
  <2>1. CASE Call(c) \/ Send(c) \/ Refuse(c) \/ Drop(c)
    BY <2>1 DEF Call, Send, Refuse, Drop
  <2>2. CASE processReq(c)
    <3>1. server \in Instance /\ server \in 1..started
      BY <2>2 DEF processReq, Reachable, OnlyNewestIsKnown, Instance, NoServer
    <3>2. call'[c] = [call[c] EXCEPT !.pc = "waiting", !.instance = server, !.handler = "running"]
      BY <2>2 DEF processReq
    <3>3. /\ call'[c].pc = "waiting" /\ call'[c].instance = server
          /\ call'[c].handler = "running"
          /\ call'[c] \in CallState
      BY <3>1, <3>2
    <3>4. call' \in [Caller -> CallState]
      BY <2>2, <3>3 DEF processReq
    <3>5. QED
      BY <3>1, <3>3, <3>4
  <2>3. CASE ReceiveReply(c) \/ StopWaiting(c) \/ Return(c)
    BY <2>3 DEF ReceiveReply, StopWaiting, Return
  <2>4. CASE Check(c)
    <3>1. ~isServerDead(c) => c \in disk[saved]
      <4> SUFFICES ASSUME ~isServerDead(c)  PROVE c \in disk[saved]
        OBVIOUS
      <4>1. call[c].instance \in 1..started /\ c \in memory[call[c].instance]
        BY <2>4 DEF Check
      <4>2. call[c].instance = started /\ cfg # "down"
        BY <4>1 DEF isServerDead, OnlyNewestIsKnown, NoServer, Instance
      <4>3. QED
        BY <4>1, <4>2 DEF PersistersInOrder
    <3>2. CASE ~isServerDead(c) /\ Goto(c, "replying")
      BY <3>1, <3>2
    <3>3. CASE Goto(c, "failing")
      BY <3>3
    <3>4. QED
      BY <2>4, <3>2, <3>3 DEF Check
  <2>5. QED
    BY <2>1, <2>2, <2>3, <2>4 DEF Labrpc
<1>4. QED
  BY <1>1, <1>3 DEF NetworkInv, PersistersInOrder, OnlyNewestIsKnown

\* A handler saves its state: only that of the newest instance goes into the
\* Persister that counts.
LEMMA DispatchStep ==
  ASSUME NetworkInv, NEW c \in Caller, dispatch(c)
  PROVE  NetworkInv'
<1> DEFINE k == call[c].instance
<1> USE DEF NetworkInv
<1>1. k \in 1..started /\ k \in Instance
  BY NetworkAssumption DEF TypeOK, CallState, dispatch, Instance
<1>2. UNCHANGED <<done, enabled, server, cfg, started, saved, persister>>
  BY DEF dispatch, network, harness
<1>3. /\ memory' = [memory EXCEPT ![k] = memory[k] \cup {c}]
      /\ disk' = [disk EXCEPT ![persister[k]] = memory[k] \cup {c}]
      /\ call' = [call EXCEPT ![c].handler = "returned"]
  BY DEF dispatch
<1>4. TypeOK'
  BY <1>1, <1>2, <1>3 DEF TypeOK, CallState
<1>5. persister[k] \in Persister /\ saved \in Persister /\ started \in Instance
  BY <1>1 DEF TypeOK
<1>6. PersistersInOrder'
  BY <1>1, <1>2, <1>3, <1>5 DEF PersistersInOrder, TypeOK, Persister, Instance
<1>7. OnlyNewestIsKnown'
  BY <1>2 DEF OnlyNewestIsKnown
<1>8. HandlersHaveSaved'
  BY <1>1, <1>3 DEF HandlersHaveSaved, TypeOK
<1>9. disk[saved] \subseteq disk'[saved]
  BY <1>1, <1>3, <1>5 DEF PersistersInOrder, TypeOK, Persister, Instance
<1>10. RepliesArePersisted'
  BY <1>2, <1>3, <1>9 DEF RepliesArePersisted, TypeOK
<1>11. QED
  BY <1>4, <1>6, <1>7, <1>8, <1>10

\* The harness hands what is saved from one Persister to the next.
LEMMA HarnessStep ==
  ASSUME NetworkInv, Harness \/ Stop
  PROVE  NetworkInv'
<1> USE DEF NetworkInv
<1>1. CASE Stop \/ Cleanup \/ \E e \in End : Enable(e)
  BY <1>1 DEF Stop, Cleanup, Enable, harness, TypeOK, PersistersInOrder, OnlyNewestIsKnown,
              HandlersHaveSaved, RepliesArePersisted
<1>2. CASE Disconnect \/ DeleteServer
  <2>1. CASE Disconnect
    BY <2>1 DEF Disconnect, TypeOK, PersistersInOrder, OnlyNewestIsKnown, HandlersHaveSaved,
                RepliesArePersisted
  <2>2. CASE DeleteServer
    BY <2>2 DEF DeleteServer, TypeOK, PersistersInOrder, OnlyNewestIsKnown, HandlersHaveSaved,
                RepliesArePersisted
  <2>3. QED
    BY <1>2, <2>1, <2>2
<1>3. CASE Supersede
  <2>1. saved + 1 \in Persister /\ saved \in Persister
    BY <1>3, NetworkAssumption DEF Supersede, TypeOK, PersistersInOrder, Persister, Instance
  <2>2. disk'[saved'] = disk[saved]
    BY <1>3, <2>1 DEF Supersede, Copy, TypeOK
  <2>3. TypeOK'
    BY <1>3, <2>1 DEF Supersede, Copy, TypeOK, network
  <2>4. PersistersInOrder'
    <3>1. /\ cfg' = "down" /\ saved' = 2 * started' /\ saved' = saved + 1
          /\ started' = started /\ persister' = persister
      BY <1>3 DEF Supersede, Copy, PersistersInOrder, TypeOK, Instance
    <3>2. \A k \in 1..started : persister[k] < saved + 1 /\ persister[k] <= saved + 1
      BY NetworkAssumption DEF PersistersInOrder, TypeOK, Persister, Instance
    <3>3. QED
      BY <3>1, <3>2 DEF PersistersInOrder
  <2>5. OnlyNewestIsKnown' /\ HandlersHaveSaved' /\ RepliesArePersisted'
    BY <1>3, <2>2 DEF Supersede, network, OnlyNewestIsKnown, HandlersHaveSaved, RepliesArePersisted
  <2>6. QED
    BY <2>3, <2>4, <2>5
<1>4. CASE MakeServer
  <2>1. /\ saved \in Persister /\ saved + 1 \in Persister
        /\ started \in Instance /\ started + 1 \in Instance
    BY <1>4, NetworkAssumption DEF MakeServer, TypeOK, PersistersInOrder, Persister, Instance
  <2>2. /\ disk'[saved'] = disk[saved] /\ memory'[started'] = disk[saved]
        /\ persister'[started'] = saved'
        /\ \A k \in 1..started : memory'[k] = memory[k] /\ persister'[k] = persister[k]
    BY <1>4, <2>1 DEF MakeServer, Copy, TypeOK, Instance
  <2>3. TypeOK'
    BY <1>4, <2>1 DEF MakeServer, Copy, TypeOK, network, Instance
  <2>4. PersistersInOrder'
    <3>1. /\ cfg' = "made" /\ saved' = saved + 1 /\ started' = started + 1
          /\ saved' = 2 * started' - 1
      BY <1>4 DEF MakeServer, Copy, PersistersInOrder, TypeOK, Instance
    <3>2. \A k \in 1..started : persister'[k] <= saved' /\ persister'[k] # saved' /\ k # started'
      <4> SUFFICES ASSUME NEW k \in 1..started
                   PROVE  persister'[k] <= saved' /\ persister'[k] # saved' /\ k # started'
        OBVIOUS
      <4>1. persister[k] < saved
        BY <1>4 DEF MakeServer, PersistersInOrder
      <4>2. k \in Instance
        BY <2>1, NetworkAssumption DEF Instance
      <4>3. persister[k] \in Nat /\ saved \in Nat
        BY <2>1, <4>2 DEF TypeOK, Persister
      <4>4. QED
        BY <2>1, <2>2, <3>1, <4>1, <4>3 DEF Instance
    <3>3. \A k \in 1..started' : k \in 1..started \/ k = started'
      BY <2>1, <3>1 DEF Instance
    <3>4. saved' <= saved'
      BY <2>1, <3>1 DEF Persister
    <3>5. QED
      BY <2>2, <3>1, <3>2, <3>3, <3>4 DEF PersistersInOrder
  <2>5. OnlyNewestIsKnown' /\ HandlersHaveSaved' /\ RepliesArePersisted'
    BY <1>4, <2>2 DEF MakeServer, network, TypeOK, OnlyNewestIsKnown, HandlersHaveSaved,
                      RepliesArePersisted
  <2>6. QED
    BY <2>3, <2>4, <2>5
<1>5. CASE AddServer
  BY <1>5 DEF AddServer, TypeOK, PersistersInOrder, OnlyNewestIsKnown, HandlersHaveSaved,
              RepliesArePersisted
<1>6. QED
  BY <1>1, <1>2, <1>3, <1>4, <1>5 DEF Harness

\* The invariant is inductive.
LEMMA NetworkInvNext == NetworkInv /\ [Next]_vars => NetworkInv'
<1>1. ASSUME NetworkInv, UNCHANGED vars  PROVE NetworkInv'
  BY <1>1 DEF vars, network, harness, NetworkInv, TypeOK, PersistersInOrder, OnlyNewestIsKnown,
              HandlersHaveSaved, RepliesArePersisted
<1>2. QED
  BY <1>1, LabrpcStep, DispatchStep, HarnessStep DEF Next

\* The network, the harness and the Persisters keep the invariant above.
THEOREM NetworkInvariance == Spec => []NetworkInv
  BY NetworkInvInit, NetworkInvNext, PTL DEF Spec

\* Every state of labrpc, the harness and the Persisters has its type.
THEOREM NetworkTypeCorrect == Spec => []TypeOK
<1>1. NetworkInv => TypeOK
  BY DEF NetworkInv
<1>2. QED
  BY <1>1, NetworkInvariance, PTL

\* For every number of callers and restarts: a request that labrpc has
\* acknowledged is in the Persister the server will be restarted from.
THEOREM AcknowledgedIsPersisted == Spec => []AckedIsPersisted
<1>1. NetworkInv => AckedIsPersisted
  BY DEF NetworkInv, RepliesArePersisted, AckedIsPersisted
<1>2. QED
  BY <1>1, NetworkInvariance, PTL
=============================================================================
