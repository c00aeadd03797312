--------------------------- MODULE TimeoutsProofs ---------------------------
(***************************************************************************)
(* Proofs about Timeouts, for every MessageTimeout and ProtocolTimeout and *)
(* any number of updates.                                                  *)
(***************************************************************************)
EXTENDS Timeouts, TLAPS

USE DEF PreparePhase, SubmitPhase, EncryptPhase, ScramblePhase, DecryptPhase, RevealPhase,
        DonePhase, FailedPhase

-----------------------------------------------------------------------------
(* The order of the updates                                                *)

Views == [Round : 0 .. MaxRound, Phase : CurrentPhases]

\* The round and phase v come no later than w.
NotAfter(v, w) ==
    v.Round < w.Round \/ (v.Round = w.Round /\ phaseOrder(v.Phase) <= phaseOrder(w.Phase))

\* phaseOrder numbers the phases of a running round.
LEMMA PhaseOrderType ==
    \A p \in CurrentPhases : phaseOrder(p) \in 0 .. 5
  BY DEF CurrentPhases, phaseOrder

LEMMA PhaseOrderInjective ==
    \A p, q \in CurrentPhases : phaseOrder(p) = phaseOrder(q) => p = q
  BY DEF CurrentPhases, phaseOrder

\* NotAfter is a linear order on what updates say.
LEMMA NotAfterOrder ==
    /\ \A v \in Views : NotAfter(v, v)
    /\ \A v, w \in Views : NotAfter(v, w) /\ NotAfter(w, v) => v = w
    /\ \A u, v, w \in Views : NotAfter(u, v) /\ NotAfter(v, w) => NotAfter(u, w)
<1> USE TimeoutsAssumption DEF Views, NotAfter
<1>1. \A v \in Views : v.Round \in Nat /\ phaseOrder(v.Phase) \in Nat
  BY PhaseOrderType
<1>2. \A v, w \in Views : v.Round = w.Round /\ v.Phase = w.Phase => v = w
  OBVIOUS
<1>3. QED
  BY <1>1, <1>2, PhaseOrderInjective

\* An update never says something earlier than the one before it.
LEMMA SuccessorsNotBefore ==
    ASSUME NEW v \in Views, NEW w \in Successors(v)
    PROVE  w \in Views /\ NotAfter(v, w)
<1>1. v.Round \in 0 .. MaxRound /\ v.Phase \in CurrentPhases
  BY DEF Views
<1>2. CASE w = v
  BY <1>2, NotAfterOrder
<1>3. CASE \E p \in CurrentPhases : phaseOrder(p) = phaseOrder(v.Phase) + 1 /\ w = View(v.Round, p)
  BY <1>1, <1>3, PhaseOrderType DEF View, Views, NotAfter
<1>4. CASE v.Round # MaxRound /\ w = View(v.Round + 1, PreparePhase)
  BY <1>1, <1>4, TimeoutsAssumption DEF View, Views, NotAfter, CurrentPhases
<1>5. QED
  BY <1>2, <1>3, <1>4 DEF Successors

-----------------------------------------------------------------------------
(* The invariant                                                           *)

ClockType ==
    /\ sm \in Views
    /\ version \in Nat /\ version <= MaxUpdates
    /\ age \in Nat /\ phaseAge \in Nat /\ age <= phaseAge /\ phaseAge <= MaxAge
    /\ setting \subseteq [sm : Views, version : Nat]
    /\ lastUpdate \in [sm : Views, version : Int, timestamp : Nat, phaseTimestamp : Nat]
    /\ sleep \in Nat /\ sleep <= ProtocolTimeout
    /\ aborted \in BOOLEAN

\* The newest update is in lastUpdate or about to be set, and the updates that
\* are about to be set say what the rounds and phases were when they were read.
UpdatesArrive ==
    /\ -1 <= lastUpdate.version /\ lastUpdate.version <= version - 1
    /\ lastUpdate.version = version - 1 => lastUpdate.sm = sm /\ lastUpdate.timestamp = age
    /\ lastUpdate.version < version - 1 => \E u \in setting : u.version = version - 1
    /\ \A u \in setting : /\ u.version <= version - 1
                          /\ u.version = version - 1 => u.sm = sm
                          /\ NotAfter(u.sm, sm)
                          /\ u.version > lastUpdate.version => NotAfter(lastUpdate.sm, u.sm)
    /\ \A u, w \in setting : u.version < w.version => NotAfter(u.sm, w.sm)
    /\ setting # {} => age = 0

\* phaseTimestamp is the time at which the phase that lastUpdate shows was
\* first read; while it shows an earlier one, the newest has just been read.
PhaseIsTimed ==
    /\ NotAfter(lastUpdate.sm, sm)
    /\ lastUpdate.sm = sm => lastUpdate.phaseTimestamp = phaseAge
    /\ lastUpdate.sm # sm => phaseAge = 0

\* The aborter wakes up at most one tick after the timeout.
WakesInTime ==
    lastUpdate.sm.Phase # PreparePhase /\ ~aborted /\ sleep > 0
        => sleep + timeSince(lastUpdate) <= Timeout(lastUpdate.sm.Phase) + 1

ClockInv == ClockType /\ UpdatesArrive /\ PhaseIsTimed /\ WakesInTime

-----------------------------------------------------------------------------
\* The initial state satisfies the invariant.
LEMMA ClockInit == Init => ClockInv
<1> SUFFICES ASSUME Init  PROVE ClockInv
  OBVIOUS
<1>1. View(0, PreparePhase) \in Views
  BY TimeoutsAssumption DEF View, Views, CurrentPhases
<1>2. ClockType
  <2>1. lastUpdate \in [sm : Views, version : Int, timestamp : Nat, phaseTimestamp : Nat]
    BY <1>1 DEF Init
  <2>2. /\ 0 <= MaxUpdates /\ 0 <= MaxAge /\ 0 <= ProtocolTimeout
    BY TimeoutsAssumption DEF MaxAge
  <2>3. /\ version \in Nat /\ version <= MaxUpdates /\ age \in Nat /\ phaseAge \in Nat
        /\ age <= phaseAge /\ phaseAge <= MaxAge /\ sleep \in Nat /\ sleep <= ProtocolTimeout
    BY <2>2 DEF Init
  <2>4. sm \in Views /\ setting \subseteq [sm : Views, version : Nat] /\ aborted \in BOOLEAN
    BY <1>1 DEF Init
  <2>5. QED
    BY <2>1, <2>3, <2>4 DEF ClockType
<1>3. UpdatesArrive
  BY DEF Init, UpdatesArrive
<1>4. PhaseIsTimed /\ WakesInTime
  BY <1>1, NotAfterOrder DEF Init, PhaseIsTimed, WakesInTime
<1>5. QED
  BY <1>2, <1>3, <1>4 DEF ClockInv

\* readUpdates reads an update and starts the goroutine that sets it.
LEMMA ReadUpdateStep ==
  ASSUME ClockInv, ReadUpdate  PROVE ClockInv'
<1> DEFINE new == [sm |-> sm', version |-> version]
<1> USE DEF ClockInv
<1>1. sm' \in Views /\ NotAfter(sm, sm')
  BY SuccessorsNotBefore DEF ReadUpdate, ClockType
<1>2. /\ version' = version + 1 /\ age' = 0 /\ setting' = setting \cup {new}
      /\ lastUpdate' = lastUpdate /\ sleep' = sleep /\ aborted' = aborted
      /\ phaseAge' = IF sm' = sm THEN phaseAge ELSE 0
  BY DEF ReadUpdate
<1>3. ClockType'
  BY <1>1, <1>2, TimeoutsAssumption DEF ClockType, ReadUpdate, MaxAge
<1>4. NotAfter(lastUpdate.sm, sm')
  BY <1>1, NotAfterOrder DEF ClockType, PhaseIsTimed
<1>5. \A u \in setting : NotAfter(u.sm, sm')
  BY <1>1, NotAfterOrder DEF ClockType, UpdatesArrive
<1>6. UpdatesArrive'
  <2>1. version \in Nat /\ lastUpdate.version \in Int /\ \A u \in setting : u.version \in Nat
    BY DEF ClockType
  <2>2. NotAfter(sm', sm')
    BY <1>1, NotAfterOrder
  <2>3. \A u, w \in setting' : u.version < w.version => NotAfter(u.sm, w.sm)
    BY <1>2, <1>5, <2>1 DEF UpdatesArrive
  <2>4. \A u \in setting' : /\ u.version <= version
                            /\ u.version = version => u.sm = sm'
                            /\ NotAfter(u.sm, sm')
                            /\ u.version > lastUpdate.version => NotAfter(lastUpdate.sm, u.sm)
    BY <1>2, <1>4, <1>5, <2>1, <2>2 DEF UpdatesArrive
  <2>5. new \in setting' /\ new.version = version /\ lastUpdate.version < version
    BY <1>2, <2>1 DEF UpdatesArrive
  <2>6. version' - 1 = version /\ -1 <= lastUpdate.version
    BY <1>2, <2>1 DEF UpdatesArrive
  <2>7. lastUpdate.version <= version /\ lastUpdate.version # version
    BY <2>1, <2>5
  <2>8. QED
    BY <1>2, <2>3, <2>4, <2>5, <2>6, <2>7 DEF UpdatesArrive
<1>7. lastUpdate.sm = sm' => sm' = sm
  BY <1>1, NotAfterOrder DEF ClockType, PhaseIsTimed
<1>8. PhaseIsTimed'
  BY <1>2, <1>4, <1>7 DEF PhaseIsTimed
<1>9. WakesInTime'
  BY <1>2 DEF WakesInTime
<1>10. QED
  BY <1>3, <1>6, <1>8, <1>9

\* A goroutine sets its update, unless a newer one has been set before.
LEMMA SetStep ==
  ASSUME ClockInv, NEW update \in setting, set(update)  PROVE ClockInv'
<1> USE DEF ClockInv
<1>1. /\ sm' = sm /\ version' = version /\ age' = age /\ phaseAge' = phaseAge /\ sleep' = sleep
      /\ setting' = setting \ {update}
  BY DEF set, read
<1>2. update.sm \in Views /\ update.version \in Nat
  BY DEF ClockType
<1>3. CASE ~IsNew(update.version)
  <2>1. lastUpdate' = lastUpdate /\ aborted' = aborted
    BY <1>3 DEF set
  <2>2. UpdatesArrive'
    BY <1>1, <1>2, <1>3, <2>1 DEF ClockType, UpdatesArrive, IsNew
  <2>3. QED
    BY <1>1, <2>1, <2>2 DEF ClockType, PhaseIsTimed, WakesInTime
<1>4. CASE IsNew(update.version)
  <2>1. /\ update.version > lastUpdate.version
        /\ lastUpdate' = [sm |-> update.sm, version |-> update.version, timestamp |-> 0,
                          phaseTimestamp |-> IF Differs(update.sm, lastUpdate.sm) THEN 0
                                             ELSE lastUpdate.phaseTimestamp]
        /\ aborted' = (aborted /\ update.sm = lastUpdate.sm
                               /\ update.sm.Phase \in {SubmitPhase, RevealPhase})
    BY <1>4 DEF set, IsNew
  <2>2. Differs(update.sm, lastUpdate.sm) <=> update.sm # lastUpdate.sm
    BY <1>2 DEF Differs, ClockType, Views
  <2>3. ClockType'
    BY <1>1, <1>2, <2>1 DEF ClockType
  <2>4. UpdatesArrive'
    BY <1>1, <1>2, <2>1 DEF ClockType, UpdatesArrive
  <2>5. lastUpdate.sm = sm => update.sm = sm
    BY <1>2, <2>1, NotAfterOrder DEF ClockType, UpdatesArrive
  <2>6. PhaseIsTimed'
    BY <1>1, <1>2, <2>1, <2>2, <2>5 DEF ClockType, UpdatesArrive, PhaseIsTimed
  <2>7. WakesInTime'
    <3>1. /\ lastUpdate'.sm = update.sm /\ lastUpdate'.timestamp = 0
          /\ lastUpdate'.phaseTimestamp = IF update.sm # lastUpdate.sm THEN 0
                                          ELSE lastUpdate.phaseTimestamp
      BY <2>1, <2>2
    <3>2. CASE timeSince(lastUpdate') = 0
      BY <1>1, <3>1, <3>2, TimeoutsAssumption DEF ClockType, WakesInTime, Timeout
    <3>3. CASE timeSince(lastUpdate') # 0
      <4>1. /\ update.sm = lastUpdate.sm /\ update.sm.Phase \in {SubmitPhase, RevealPhase}
            /\ timeSince(lastUpdate') = timeSince(lastUpdate)
        BY <3>1, <3>3 DEF timeSince
      <4>2. QED
        BY <1>1, <2>1, <3>1, <4>1 DEF WakesInTime, ClockType
    <3>4. QED
      BY <3>2, <3>3
  <2>8. QED
    BY <2>3, <2>4, <2>6, <2>7
<1>5. QED
  BY <1>3, <1>4

\* The aborter looks at lastUpdate and goes to sleep, having aborted or not.
LEMMA AborterStep ==
  ASSUME ClockInv, AborterWaits \/ AborterAborts  PROVE ClockInv'
<1> USE DEF ClockInv
<1>1. UNCHANGED <<sm, version, age, phaseAge, setting, lastUpdate>>
  BY DEF AborterWaits, AborterAborts, read
<1>2. lastUpdate.timestamp \in Nat /\ lastUpdate.phaseTimestamp \in Nat
  BY DEF ClockType
<1>3. timeSince(lastUpdate) \in Nat /\ Timeout(lastUpdate.sm.Phase) \in Nat
  BY <1>2, TimeoutsAssumption DEF timeSince, Timeout
<1>4. CASE AborterWaits
  <2>1. aborted' = aborted
    BY <1>4 DEF AborterWaits
  <2>2. CASE lastUpdate.sm.Phase = PreparePhase
    <3>1. sleep' = ProtocolTimeout
      BY <1>4, <2>2, TimeoutsAssumption DEF AborterWaits, Sleep
    <3>2. QED
      BY <1>1, <2>1, <2>2, <3>1, TimeoutsAssumption
      DEF ClockType, UpdatesArrive, PhaseIsTimed, WakesInTime
  <2>3. CASE lastUpdate.sm.Phase # PreparePhase
    <3>1. timeSince(lastUpdate) <= Timeout(lastUpdate.sm.Phase)
      BY <1>3, <1>4, <2>3 DEF AborterWaits, TimesOut
    <3>2. /\ sleepAmount(lastUpdate) \in Nat
          /\ sleepAmount(lastUpdate) <= ProtocolTimeout
          /\ sleepAmount(lastUpdate) + timeSince(lastUpdate) <= Timeout(lastUpdate.sm.Phase)
      BY <1>3, <3>1, TimeoutsAssumption DEF sleepAmount
    <3>3. sleep' = IF sleepAmount(lastUpdate) = 0 THEN 1 ELSE sleepAmount(lastUpdate)
      BY <1>4, <2>3 DEF AborterWaits, Sleep
    <3>4. /\ sleep' \in Nat /\ sleep' <= ProtocolTimeout
          /\ sleep' + timeSince(lastUpdate) <= Timeout(lastUpdate.sm.Phase) + 1
      BY <1>3, <3>1, <3>2, <3>3, TimeoutsAssumption
    <3>5. QED
      BY <1>1, <2>1, <3>4 DEF ClockType, UpdatesArrive, PhaseIsTimed, WakesInTime
  <2>4. QED
    BY <2>2, <2>3
<1>5. CASE AborterAborts
  <2>1. aborted' = TRUE /\ sleep' = ProtocolTimeout
    BY <1>5, TimeoutsAssumption DEF AborterAborts, Sleep
  <2>2. QED
    BY <1>1, <2>1, TimeoutsAssumption DEF ClockType, UpdatesArrive, PhaseIsTimed, WakesInTime
<1>6. QED
  BY <1>4, <1>5

\* The clock moves on when no goroutine is about to set an update.
LEMMA TickStep ==
  ASSUME ClockInv, Tick  PROVE ClockInv'
<1> USE DEF ClockInv
<1>1. /\ sm' = sm /\ version' = version /\ setting' = setting /\ aborted' = aborted
      /\ setting = {} /\ sleep > 0 /\ sleep' = sleep - 1
      /\ age' = Older(age) /\ phaseAge' = Older(phaseAge)
  BY DEF Tick
<1>2. \A t \in Nat : Older(t) \in Nat /\ Older(t) <= t + 1 /\ (t <= MaxAge => Older(t) <= MaxAge)
  BY TimeoutsAssumption DEF Older, MaxAge
<1>3. /\ lastUpdate'.sm = lastUpdate.sm /\ lastUpdate'.version = lastUpdate.version
      /\ lastUpdate'.timestamp = Older(lastUpdate.timestamp)
      /\ lastUpdate'.phaseTimestamp = Older(lastUpdate.phaseTimestamp)
      /\ lastUpdate' \in [sm : Views, version : Int, timestamp : Nat, phaseTimestamp : Nat]
  BY <1>2 DEF Tick, ClockType
<1>4. Older(age) <= Older(phaseAge)
  BY TimeoutsAssumption DEF ClockType, Older, MaxAge
<1>5. ClockType'
  <2>1. sleep' \in Nat /\ sleep' <= ProtocolTimeout
    BY <1>1, TimeoutsAssumption DEF ClockType
  <2>2. /\ age' \in Nat /\ phaseAge' \in Nat /\ age' <= phaseAge' /\ phaseAge' <= MaxAge
    BY <1>1, <1>2, <1>4 DEF ClockType
  <2>3. QED
    BY <1>1, <1>3, <2>1, <2>2 DEF ClockType
<1>6. lastUpdate.version = version - 1
  BY <1>1 DEF ClockType, UpdatesArrive
<1>7. UpdatesArrive' /\ PhaseIsTimed'
  BY <1>1, <1>3, <1>6 DEF UpdatesArrive, PhaseIsTimed
<1>8. WakesInTime'
  <2>1. /\ timeSince(lastUpdate') <= timeSince(lastUpdate) + 1
        /\ timeSince(lastUpdate') \in Nat /\ timeSince(lastUpdate) \in Nat
    BY <1>2, <1>3 DEF timeSince, ClockType
  <2>2. Timeout(lastUpdate.sm.Phase) \in Nat
    BY TimeoutsAssumption DEF Timeout
  <2>3. QED
    BY <1>1, <1>3, <2>1, <2>2 DEF WakesInTime, ClockType
<1>9. QED
  BY <1>5, <1>7, <1>8

\* The invariant is inductive.
LEMMA ClockNext == ClockInv /\ [Next]_vars => ClockInv'
<1>1. ASSUME ClockInv, UNCHANGED vars  PROVE ClockInv'
  BY <1>1 DEF vars, read, ClockInv, ClockType, UpdatesArrive, PhaseIsTimed, WakesInTime
<1>2. QED
  BY <1>1, ReadUpdateStep, SetStep, AborterStep, TickStep DEF Next

\* lastUpdate, the goroutines that set it and the aborter keep the invariant.
THEOREM ClockInvariance == Spec => []ClockInv
  BY ClockInit, ClockNext, PTL DEF Spec

\* The times, versions and phases have their types, and the aborter never
\* sleeps for a negative time.
THEOREM ClockTypeCorrect == Spec => []TypeOK
<1>1. ClockInv => TypeOK
  BY TimeoutsAssumption DEF ClockInv, ClockType, UpdatesArrive, TypeOK, Views
<1>2. QED
  BY <1>1, ClockInvariance, PTL

\* Whatever the order in which updates are set, the aborter never sleeps
\* through a timeout.
THEOREM AborterIsInTime == Spec => []AbortsInTime
<1>1. ASSUME ClockInv  PROVE AbortsInTime
  <2>1. timeSince(lastUpdate) \in Nat /\ Timeout(lastUpdate.sm.Phase) \in Nat /\ sleep \in Nat
    BY <1>1, TimeoutsAssumption DEF ClockInv, ClockType, timeSince, Timeout
  <2>2. QED
    BY <1>1, <2>1 DEF ClockInv, ClockType, WakesInTime, AbortsInTime, TimesOut
<1>2. QED
  BY <1>1, ClockInvariance, PTL

\* Whatever the order in which updates are set, a round is aborted only after
\* the full timeout of its phase without progress.
THEOREM AborterIsNotEarly == Spec => NoEarlyAbort
<1>1. ASSUME ClockInv, AborterAborts, setting = {}
      PROVE  sm.Phase # PreparePhase /\ Idle > Timeout(sm.Phase)
  <2>1. lastUpdate.sm = sm /\ lastUpdate.timestamp = age /\ lastUpdate.phaseTimestamp = phaseAge
    BY <1>1 DEF ClockInv, ClockType, UpdatesArrive, PhaseIsTimed
  <2>2. timeSince(lastUpdate) = Idle
    BY <2>1 DEF timeSince, Idle
  <2>3. QED
    BY <1>1, <2>1, <2>2 DEF AborterAborts, TimesOut
<1>2. ClockInv /\ [Next]_vars
        => [AborterAborts => \/ setting # {}
                             \/ sm.Phase # PreparePhase /\ Idle > Timeout(sm.Phase)]_vars
  BY <1>1
<1>3. QED
  BY <1>2, ClockInvariance, PTL DEF Spec, NoEarlyAbort
=============================================================================
