--------------------------- MODULE PulseScheduler ---------------------------
(***************************************************************************)
(* The scheduler thread of a brain (runtime/scheduler.py) over the engine  *)
(* of EventLedger, beside the clients that commit through the same engine. *)
(* A step appends a tick, a broadcast and a reflection, and a recovery if  *)
(* the brain was degraded; any of them may raise, and a step that raised   *)
(* appends a failure.  The engine's lock is held during one append, not    *)
(* during a step.  Snapshots are left to SnapshotWorker.                   *)
(***************************************************************************)
EXTENDS EventLedger

VARIABLE sched       \* the scheduler of each engine
pulseVars == <<ledgerVars, sched>>

Stage == {"tick", "broadcast", "reflected", "recovered", "failure"}
SchedType == [pc : {"down", "waiting"} \cup Stage,
              was : BOOLEAN,         \* was_degraded of the step
              volatile : BOOLEAN,    \* _volatile_degraded
              persisted : BOOLEAN,   \* _failure_event_persisted
              stop : BOOLEAN,
              failed : BOOLEAN]      \* history: whether the last step failed
Down == [pc |-> "down", was |-> FALSE, volatile |-> FALSE, persisted |-> TRUE,
         stop |-> FALSE, failed |-> FALSE]

\* The ledger and the schedulers have their types; a scheduler runs on an open engine.
PulseTypeOK ==
    /\ LedgerTypeOK
    /\ sched \in [Engine -> SchedType]
    /\ \A e \in Engine : sched[e].pc # "down" => engine[e].open

PulseInit == LedgerInit /\ sched = [e \in Engine |-> Down]

\* runtime.health of a state: set by failures, cleared by recoveries.
DegradedState(s) ==
    \E i \in 1 .. Len(s) :
        /\ s[i].kind = "failure"
        /\ \A j \in i + 1 .. Len(s) : s[j].kind # "recovered"

\* Mutant: health is what the ledger says.
HealthPersisted(e) == DegradedState(engine[e].state)

\* ContinuousScheduler.health
Health(e) == sched[e].volatile \/ DegradedState(engine[e].state)

Start(e) ==
    /\ sched[e].pc = "down" /\ engine[e].open
    /\ sched' = [sched EXCEPT ![e] =
           [Down EXCEPT !.pc = "waiting", !.failed = DegradedState(engine[e].state)]]
    /\ UNCHANGED ledgerVars

\* The wait is over: sample the clock (which may be refused) and read the health.
Wake(e) ==
    /\ sched[e].pc = "waiting" /\ ~sched[e].stop
    /\ \/ sched' = [sched EXCEPT ![e].pc = "tick", ![e].was = Health(e)]
       \/ sched' = [sched EXCEPT ![e].pc = "failure", ![e].volatile = TRUE]
    /\ UNCHANGED ledgerVars

\* The append that follows in the step.
NextStage(e) ==
    CASE sched[e].pc = "tick" -> "broadcast"
      [] sched[e].pc = "broadcast" -> "reflected"
      [] sched[e].pc = "reflected" /\ sched[e].was -> "recovered"
      [] OTHER -> "waiting"

\* The append of this stage returned.
Returned(e) ==
    sched' = [sched EXCEPT ![e] =
        IF NextStage(e) # "waiting" THEN [@ EXCEPT !.pc = NextStage(e)]
        ELSE [@ EXCEPT !.pc = "waiting", !.volatile = FALSE, !.persisted = TRUE,
                       !.failed = sched[e].pc = "failure"]]

\* Mutant: the step goes on after an append that raised.
RaisedIgnored(e) ==
    sched' = [sched EXCEPT ![e] =
        IF sched[e].pc # "failure" /\ NextStage(e) # "waiting"
           THEN [@ EXCEPT !.pc = NextStage(e)]
        ELSE [@ EXCEPT !.pc = "waiting", !.volatile = TRUE, !.persisted = FALSE,
                       !.failed = TRUE]]

\* It raised: a failure is to be recorded; if that raises, it stays in memory.
Raised(e) ==
    sched' = [sched EXCEPT ![e] =
        IF sched[e].pc # "failure" THEN [@ EXCEPT !.pc = "failure", !.volatile = TRUE]
        ELSE [@ EXCEPT !.pc = "waiting", !.volatile = TRUE, !.persisted = FALSE,
                       !.failed = TRUE]]

\* A new event gets an ID that no event had.
New(v) ==
    v.id = CHOOSE i \in EventId : /\ \A j \in 1 .. Len(log) : log[j].id # i
                                  /\ \A e \in Engine : engine[e].checked # None => engine[e].checked.id # i

\* The event of this stage: the broadcast one cycle on, the reflection of the
\* cycle broadcast.
StageEvents(e) ==
    LET c == Cycle(engine[e].state)
    IN {v \in Event : /\ New(v) /\ v.kind = sched[e].pc
                      /\ v.data = CASE v.kind = "broadcast" -> c + 1
                                    [] v.kind = "reflected" -> c
                                    [] OTHER -> 1}

\* An engine found diverged refuses before it reads anything.
AppendCheck(e) ==
    /\ sched[e].pc \in Stage /\ engine[e].checked = None /\ Len(log) < MaxLog
    /\ \/ engine[e].diverged /\ Raised(e) /\ UNCHANGED ledgerVars
       \/ /\ \E v \in StageEvents(e) : Check(e, v)
          /\ IF engine'[e].checked = None THEN Raised(e) ELSE UNCHANGED sched

AppendStore(e) ==
    /\ sched[e].pc \in Stage
    /\ \/ Store(e) \/ StoreRaises(e)
    /\ IF engine'[e].state = engine[e].state THEN Raised(e) ELSE Returned(e)

Stop(e) ==
    /\ sched[e].pc # "down" /\ ~sched[e].stop
    /\ sched' = [sched EXCEPT ![e].stop = TRUE]
    /\ UNCHANGED ledgerVars

\* The thread sees the flag between two steps.
Exit(e) ==
    /\ sched[e].pc = "waiting" /\ sched[e].stop
    /\ sched' = [sched EXCEPT ![e] = Down]
    /\ UNCHANGED ledgerVars

\* A client's record, through the same engine.
Client(e) ==
    /\ engine[e].checked = None /\ Len(log) < MaxLog
    /\ \E v \in Event : New(v) /\ v.kind = "note" /\ v.data = 1 /\ Commit(e, v)
    /\ UNCHANGED sched

PulseRestart == Restart /\ sched' = [e \in Engine |-> Down]

PulseNext ==
    \/ PulseRestart
    \/ \E e \in Engine :
          \/ Open(e) /\ UNCHANGED sched
          \/ Start(e) \/ Wake(e) \/ AppendCheck(e) \/ AppendStore(e)
          \/ Stop(e) \/ Exit(e) \/ Client(e)

PulseSpec == PulseInit /\ [][PulseNext]_pulseVars

-----------------------------------------------------------------------------
(* Properties *)

\* Between two steps the health a scheduler reports is that of its last step:
\* degraded if it failed, however far it got and whether or not the failure could
\* be stored, and healthy again after the first step that completes.
HealthTellsLastStep ==
    \A e \in Engine :
        sched[e].pc = "waiting" =>
            /\ Health(e) <=> sched[e].failed
            /\ sched[e].failed /\ sched[e].persisted => DegradedState(engine[e].state)

\* Whatever fails inside a step, the ledger never has a broadcast without the tick
\* before it or a reflection of a cycle other than the one last broadcast, and no
\* cycle is reflected twice.
PulseOrder ==
    \A i \in 1 .. Len(log) :
        LET before(k) == {j \in 1 .. i - 1 : log[j].kind = k}
        IN /\ log[i].kind = "broadcast" =>
                  Cardinality(before("broadcast")) < Cardinality(before("tick"))
           /\ log[i].kind = "reflected" =>
                  /\ log[i].data = Cardinality(before("broadcast"))
                  /\ \A j \in before("reflected") : log[j].data # log[i].data
=============================================================================
