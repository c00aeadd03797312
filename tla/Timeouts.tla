------------------------------ MODULE Timeouts ------------------------------
(***************************************************************************)
(* The client's clock: lastStateMachine (anonbcast/laststatemachine.go),   *)
(* the goroutines with which readUpdates sets it, and the aborter          *)
(* (anonbcast/client.go:691-743).                                          *)
(*                                                                         *)
(* Time is discrete.  A time.Time is kept as its age, time.Since of it, up *)
(* to a bound after which it makes no difference.  A goroutine that can    *)
(* run does so before the clock moves on, but in any order with others.    *)
(***************************************************************************)
EXTENDS Integers, StateMachine

CONSTANTS MessageTimeout, ProtocolTimeout,  \* of ClientConfig
          MaxUpdates,   \* bound: updates that are read
          MaxRound      \* bound: rounds that begin

ASSUME TimeoutsAssumption ==
    /\ MessageTimeout \in Nat /\ ProtocolTimeout \in Nat \ {0}
    /\ MaxUpdates \in Nat /\ MaxRound \in Nat

VARIABLES sm,          \* what the newest update says: the round and its phase
          version,     \* the number of updates that readUpdates has read
          age,         \* ticks since the newest update was read
          phaseAge,    \* ticks since the first update with its phase was read
          setting,     \* the goroutines that are about to call set
          lastUpdate,  \* the lastStateMachine
          sleep,       \* ticks until the aborter looks again
          aborted      \* the abort for what lastUpdate says has been added

read  == <<sm, version, age, phaseAge>>
vars  == <<read, setting, lastUpdate, sleep, aborted>>

\* No timeout is longer than this.
MaxAge == MessageTimeout + ProtocolTimeout + 2

Older(ticks) == IF ticks < MaxAge THEN ticks + 1 ELSE ticks

View(round, phase) == [Round |-> round, Phase |-> phase]

\* newLastStateMachine, when the client is made.
Init ==
    /\ sm = View(0, PreparePhase)
    /\ version = 0
    /\ age = 0 /\ phaseAge = 0
    /\ setting = {}
    /\ lastUpdate = [sm |-> sm, version |-> -1, timestamp |-> 0, phaseTimestamp |-> 0]
    /\ sleep = 0
    /\ aborted = FALSE

\* What an update may say after one that said v.
Successors(v) ==
    {v}
    \cup {View(v.Round, p) : p \in {q \in CurrentPhases : phaseOrder(q) = phaseOrder(v.Phase) + 1}}
    \cup IF v.Phase = PreparePhase \/ v.Round = MaxRound THEN {}
         ELSE {View(v.Round + 1, PreparePhase)}

\* readUpdates: go c.lastUpdate.set(sm, version); version++
ReadUpdate ==
    /\ version < MaxUpdates
    /\ sm' \in Successors(sm)
    /\ version' = version + 1
    /\ age' = 0
    /\ phaseAge' = IF sm' = sm THEN phaseAge ELSE 0
    /\ setting' = setting \cup {[sm |-> sm', version |-> version]}
    /\ UNCHANGED <<lastUpdate, sleep, aborted>>

\* Mutant: looks at the phase only.
PhaseDiffers(v, w) == v.Phase # w.Phase
Differs(v, w) == v.Round # w.Round \/ v.Phase # w.Phase

IsNew(v) == v > lastUpdate.version

set(update) ==
    /\ update \in setting
    /\ setting' = setting \ {update}
    /\ \/ /\ IsNew(update.version)
          /\ lastUpdate' = [sm |-> update.sm, version |-> update.version, timestamp |-> 0,
                            phaseTimestamp |-> IF Differs(update.sm, lastUpdate.sm) THEN 0
                                               ELSE lastUpdate.phaseTimestamp]
          /\ aborted' = (aborted /\ update.sm = lastUpdate.sm
                                 /\ update.sm.Phase \in {SubmitPhase, RevealPhase})
       \/ ~IsNew(update.version) /\ UNCHANGED <<lastUpdate, aborted>>
    /\ UNCHANGED <<read, sleep>>

\* What the aborter compares with what, in the phases that time out.
Timeout(phase) == IF phase = SubmitPhase THEN MessageTimeout + ProtocolTimeout
                  ELSE ProtocolTimeout

timeSince(last) == IF last.sm.Phase \in {SubmitPhase, RevealPhase} THEN last.phaseTimestamp
                   ELSE last.timestamp

\* Mutant: sleeps until the timeout, however long that is.
sleepUntilTimeout(last) == Timeout(last.sm.Phase) - timeSince(last)
\* Not longer than ProtocolTimeout: the next phase may have begun by then.
sleepAmount(last) ==
    LET rest == Timeout(last.sm.Phase) - timeSince(last) IN
    IF rest < ProtocolTimeout THEN rest ELSE ProtocolTimeout

\* time.Sleep(0) returns at once, and the aborter looks until the clock moves.
Sleep(amount) == sleep' = IF amount = 0 THEN 1 ELSE amount

TimesOut(last) == last.sm.Phase # PreparePhase /\ timeSince(last) > Timeout(last.sm.Phase)

\* No timeout in the prepare phase.
AborterWaits ==
    /\ sleep = 0
    /\ ~TimesOut(lastUpdate)
    /\ Sleep(IF lastUpdate.sm.Phase = PreparePhase THEN ProtocolTimeout
             ELSE sleepAmount(lastUpdate))
    /\ UNCHANGED <<read, setting, lastUpdate, aborted>>

\* c.abort(lastUpdate.sm.Round)
AborterAborts ==
    /\ sleep = 0
    /\ TimesOut(lastUpdate)
    /\ aborted' = TRUE
    /\ Sleep(ProtocolTimeout)
    /\ UNCHANGED <<read, setting, lastUpdate>>

Tick ==
    /\ setting = {} /\ sleep > 0
    /\ sleep' = sleep - 1
    /\ age' = Older(age)
    /\ phaseAge' = Older(phaseAge)
    /\ lastUpdate' = [lastUpdate EXCEPT !.timestamp = Older(@), !.phaseTimestamp = Older(@)]
    /\ UNCHANGED <<sm, version, setting, aborted>>

Next ==
    \/ ReadUpdate
    \/ \E update \in setting : set(update)
    \/ AborterWaits
    \/ AborterAborts
    \/ Tick

Spec == Init /\ [][Next]_vars

-----------------------------------------------------------------------------

\* Types; the amount of time to sleep is never negative (client.go:739).
TypeOK ==
    /\ sm \in [Round : 0 .. MaxRound, Phase : CurrentPhases]
    /\ version \in 0 .. MaxUpdates
    /\ age \in 0 .. phaseAge /\ phaseAge \in 0 .. MaxAge
    /\ \A update \in setting : update.version \in 0 .. version - 1
    /\ lastUpdate.version \in -1 .. version - 1
    /\ sleep \in 0 .. ProtocolTimeout

\* Ticks without progress, as the updates that readUpdates has read show it.
Idle == IF sm.Phase \in {SubmitPhase, RevealPhase} THEN phaseAge ELSE age

\* A round is aborted only when it was at a standstill for the timeout of its
\* phase.  The updates may be set in any order, and some of them never, but what
\* the aborter looks at is then as old as what was read; an abort too early can
\* only meet an update that is being set (laststatemachine.go:29-40).
NoEarlyAbort ==
    [][AborterAborts =>
          \/ setting # {}
          \/ sm.Phase # PreparePhase /\ Idle > Timeout(sm.Phase)]_vars

\* "sleepAmount should be the maximum amount of time in the future during which
\* we can GUARANTEE that there should be no timeout abort" (client.go:696): no
\* phase times out while the aborter sleeps because of an earlier one.
AbortsInTime ==
    TimesOut(lastUpdate) /\ sleep > 0 => aborted
=============================================================================
